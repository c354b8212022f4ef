------------------------ MODULE EndpointAgentsProofs ------------------------
(***************************************************************************)
(* Theorems about EndpointAgents, for any sets of devices, calls and keys  *)
(* and any number of allowed uses.                                         *)
(***************************************************************************)
EXTENDS EndpointAgents, FiniteSetTheorems, TLAPS

\* "Accept an idempotent posture observation" (automation.py:316): an observation
\* posted twice, one call after the other or while the first is still running, is
\* stored once, and every answer names the receipt that is stored.
ObservedOnce ==
    /\ \A x, y \in observations : x.agent = y.agent /\ x.key = y.key => x = y
    /\ \A c \in CheckIns : checkIn[c].pc = "answered" =>
            [agent |-> checkIn[c].agent, key |-> checkIn[c].key,
             received |-> checkIn[c].receipt] \in observations

\* The row of the token has one holder, who found a use left.
TokenInv ==
    /\ \A e, f \in Exchanges :
            exchange[e].pc = "consumed" /\ exchange[f].pc = "consumed" => e = f
    /\ \A e \in Exchanges : exchange[e].pc = "consumed" => uses < MaxUses

\* Agents are what exchanges have committed, and what collectors save.
AgentInv ==
    /\ IsFiniteSet(agents)
    /\ \A e \in Exchanges : exchange[e].pc = "committed" <=> e \in agents
    /\ \A d \in Devices :
            /\ device[d].pc = "waiting" => device[d].call \in Exchanges
            /\ device[d].pc \in {"saving", "writing"} => device[d].call \in agents

\* An open transaction that has inserted a key is the only one, and there is no row;
\* one that has not, found the row.
KeyInv ==
    /\ \A c \in CheckIns : checkIn[c].pc \in {"begun", "inserted"} =>
            checkIn[c].agent \in Exchanges /\ checkIn[c].key \in Keys
    /\ \A c \in CheckIns : checkIn[c].pc = "inserted" =>
            (checkIn[c].mine <=> Stored(checkIn[c].agent, checkIn[c].key) = {})
    /\ \A b, c \in CheckIns :
            /\ checkIn[b].pc = "inserted" /\ checkIn[b].mine
            /\ checkIn[c].pc = "inserted" /\ checkIn[c].mine
            /\ SameKey(b, checkIn[c].agent, checkIn[c].key)
            => b = c

\* The inductive invariant.
IInv == /\ TypeOK
        /\ TokenInv
        /\ AgentInv
        /\ KeyInv
        /\ UsesAreAgents
        /\ SavedCredentialAccepted
        /\ ObservedOnce

-----------------------------------------------------------------------------
\* Which variables each part of the invariant is about.
ServerInv == TokenInv /\ UsesAreAgents
FileInv == AgentInv /\ SavedCredentialAccepted
PostInv == KeyInv /\ ObservedOnce

LEMMA InitInv == Init => IInv
<1>. SUFFICES ASSUME Init PROVE IInv
  OBVIOUS
<1>1. TypeOK
  <2>1. NoCheckIn \in CheckIn
    BY DEF NoCheckIn, CheckIn
  <2>2. device \in [Devices -> Device]
    BY DEF Init, Device
  <2>3. exchange \in [Exchanges -> Exchange]
    BY DEF Init, Exchange
  <2>4. checkIn \in [CheckIns -> CheckIn]
    BY <2>1 DEF Init
  <2>5. uses \in 0 .. MaxUses
    BY UsesPositive DEF Init
  <2>6. lapsed \in BOOLEAN /\ agents \subseteq Exchanges /\ observations \subseteq Observation
    BY DEF Init
  <2>. QED
    BY <2>2, <2>3, <2>4, <2>5, <2>6 DEF TypeOK
<1>2. IsFiniteSet({}) /\ Cardinality({}) = 0
  BY FS_EmptySet
<1>3. TokenInv /\ UsesAreAgents /\ AgentInv
  BY <1>2, UsesPositive DEF Init, TokenInv, UsesAreAgents, AgentInv
<1>4. SavedCredentialAccepted
  BY DEF Init, SavedCredentialAccepted, NoCheckIn
<1>5. KeyInv /\ ObservedOnce
  BY DEF Init, KeyInv, ObservedOnce, NoCheckIn
<1>. QED
  BY <1>1, <1>3, <1>4, <1>5 DEF IInv

LEMMA PostInvKept == IInv /\ UNCHANGED <<observations, checkIn>> => PostInv'
<1>. SUFFICES ASSUME IInv, UNCHANGED <<observations, checkIn>> PROVE PostInv'
  OBVIOUS
<1>1. \A a, k : Stored(a, k)' = Stored(a, k)
  BY DEF Stored
<1>2. \A c \in CheckIns : checkIn'[c].pc = "inserted" =>
          (checkIn'[c].mine <=> Stored(checkIn'[c].agent, checkIn'[c].key) = {})
  BY DEF IInv, KeyInv
<1>3. KeyInv'
  BY <1>1, <1>2 DEF IInv, KeyInv, SameKey
<1>4. ObservedOnce'
  BY DEF IInv, ObservedOnce
<1>. QED
  BY <1>3, <1>4 DEF PostInv

-----------------------------------------------------------------------------
\* The exchange

\* A collector whose call has ended waits no longer; nothing else about it changes.
LEMMA ReleasedFacts ==
    ASSUME IInv, NEW e \in Exchanges, device' = Released(e)
    PROVE  /\ device' \in [Devices -> Device]
           /\ \A d \in Devices : /\ device'[d].file = device[d].file
                                 /\ \/ device'[d] = device[d]
                                    \/ device'[d].pc = "idle"
<1>1. \A d \in Devices : device[d] \in Device
  BY DEF IInv, TypeOK
<1>2. \A d \in Devices :
          LET x == [device[d] EXCEPT !.pc = "idle", !.call = None]
          IN  x \in Device /\ x.file = device[d].file /\ x.pc = "idle"
  BY <1>1 DEF Device
<1>. QED
  BY <1>1, <1>2 DEF Released

LEMMA ConsumeInv ==
    ASSUME IInv, NEW e \in Exchanges, Consume(e)
    PROVE  IInv'
<1>1. /\ exchange[e].pc = "begun"
      /\ TokenFree
      /\ uses < MaxUses
      /\ exchange' = [exchange EXCEPT ![e].pc = "consumed"]
      /\ UNCHANGED <<uses, agents, observations, lapsed, checkIn, device>>
  BY DEF Consume, serverVars
<1>2. /\ exchange' \in [Exchanges -> Exchange]
      /\ exchange'[e].pc = "consumed"
      /\ \A f \in Exchanges \ {e} : exchange'[f] = exchange[f]
  BY <1>1 DEF IInv, TypeOK, Exchange
<1>3. TypeOK'
  BY <1>1, <1>2 DEF IInv, TypeOK
<1>4. TokenInv' /\ UsesAreAgents'
  BY <1>1, <1>2 DEF IInv, TokenInv, UsesAreAgents, TokenFree
<1>5. AgentInv' /\ SavedCredentialAccepted'
  BY <1>1, <1>2 DEF IInv, AgentInv, SavedCredentialAccepted
<1>. QED
  BY <1>1, <1>3, <1>4, <1>5, PostInvKept DEF IInv, PostInv

LEMMA EndExchangeInv ==
    ASSUME IInv, NEW e \in Exchanges, RefuseExchange(e) \/ CrashExchange(e)
    PROVE  IInv'
<1>1. /\ exchange[e].pc \in {"begun", "consumed"}
      /\ exchange' = [exchange EXCEPT ![e].pc = "ended"]
      /\ device' = Released(e)
      /\ UNCHANGED <<uses, agents, observations, lapsed, checkIn>>
  BY DEF RefuseExchange, CrashExchange, serverVars
<1>2. /\ exchange' \in [Exchanges -> Exchange]
      /\ exchange'[e].pc = "ended"
      /\ \A f \in Exchanges \ {e} : exchange'[f] = exchange[f]
  BY <1>1 DEF IInv, TypeOK, Exchange
<1>3. TypeOK'
  BY <1>1, <1>2, ReleasedFacts DEF IInv, TypeOK
<1>4. TokenInv' /\ UsesAreAgents'
  BY <1>1, <1>2 DEF IInv, TokenInv, UsesAreAgents
<1>5. AgentInv' /\ SavedCredentialAccepted'
  BY <1>1, <1>2, ReleasedFacts DEF IInv, AgentInv, SavedCredentialAccepted
<1>. QED
  BY <1>1, <1>3, <1>4, <1>5, PostInvKept DEF IInv, PostInv

LEMMA CommitExchangeInv ==
    ASSUME IInv, NEW e \in Exchanges, CommitExchange(e)
    PROVE  IInv'
<1>1. /\ exchange[e].pc = "consumed"
      /\ uses' = uses + 1
      /\ agents' = agents \cup {e}
      /\ exchange' = [exchange EXCEPT ![e].pc = "committed"]
      /\ UNCHANGED <<lapsed, observations, checkIn, device>>
  BY DEF CommitExchange
<1>2. /\ exchange' \in [Exchanges -> Exchange]
      /\ exchange'[e].pc = "committed"
      /\ \A f \in Exchanges \ {e} : exchange'[f] = exchange[f]
  BY <1>1 DEF IInv, TypeOK, Exchange
<1>3. uses \in Nat /\ uses < MaxUses /\ MaxUses \in Nat
  BY <1>1, UsesPositive DEF IInv, TypeOK, TokenInv
<1>4. TypeOK'
  BY <1>1, <1>2, <1>3 DEF IInv, TypeOK
<1>5. e \notin agents
  BY <1>1 DEF IInv, AgentInv
<1>6. IsFiniteSet(agents') /\ Cardinality(agents') = Cardinality(agents) + 1
  BY <1>1, <1>5, FS_AddElement DEF IInv, AgentInv
<1>7. UsesAreAgents'
  BY <1>1, <1>3, <1>6 DEF IInv, UsesAreAgents
<1>8. TokenInv'
  BY <1>1, <1>2 DEF IInv, TokenInv
<1>9. AgentInv' /\ SavedCredentialAccepted'
  BY <1>1, <1>2, <1>6 DEF IInv, AgentInv, SavedCredentialAccepted
<1>. QED
  BY <1>1, <1>4, <1>7, <1>8, <1>9, PostInvKept DEF IInv, PostInv

LEMMA ExpireTokenInv == IInv /\ ExpireToken => IInv'
<1>. SUFFICES ASSUME IInv, ExpireToken PROVE IInv'
  OBVIOUS
<1>1. lapsed' = TRUE /\ UNCHANGED <<uses, agents, observations, exchange, checkIn, device>>
  BY DEF ExpireToken, serverVars
<1>2. TypeOK' /\ TokenInv' /\ AgentInv' /\ UsesAreAgents' /\ SavedCredentialAccepted'
  BY <1>1 DEF IInv, TypeOK, TokenInv, AgentInv, UsesAreAgents, SavedCredentialAccepted
<1>. QED
  BY <1>1, <1>2, PostInvKept DEF IInv, PostInv

-----------------------------------------------------------------------------
\* The collector

LEMMA EnrollInv ==
    ASSUME IInv, NEW d \in Devices, NEW e \in Exchanges, Enroll(d, e)
    PROVE  IInv'
<1>1. /\ exchange[e].pc = "idle"
      /\ exchange' = [exchange EXCEPT ![e] = [pc |-> "begun", fresh |-> ~lapsed]]
      /\ device' = [device EXCEPT ![d].pc = "waiting", ![d].call = e]
      /\ UNCHANGED <<uses, agents, observations, lapsed, checkIn>>
  BY DEF Enroll, serverVars
<1>2. /\ exchange' \in [Exchanges -> Exchange]
      /\ exchange'[e].pc = "begun"
      /\ \A f \in Exchanges \ {e} : exchange'[f] = exchange[f]
  BY <1>1 DEF IInv, TypeOK, Exchange
<1>3. /\ device' \in [Devices -> Device]
      /\ device'[d].pc = "waiting" /\ device'[d].call = e
      /\ device'[d].file = device[d].file
      /\ \A c \in Devices \ {d} : device'[c] = device[c]
  BY <1>1 DEF IInv, TypeOK, Device
<1>4. TypeOK'
  BY <1>1, <1>2, <1>3 DEF IInv, TypeOK
<1>5. TokenInv' /\ UsesAreAgents'
  BY <1>1, <1>2 DEF IInv, TokenInv, UsesAreAgents
<1>6. AgentInv' /\ SavedCredentialAccepted'
  BY <1>1, <1>2, <1>3 DEF IInv, AgentInv, SavedCredentialAccepted
<1>. QED
  BY <1>1, <1>4, <1>5, <1>6, PostInvKept DEF IInv, PostInv

LEMMA CollectorInv ==
    ASSUME IInv, NEW d \in Devices, Save(d) \/ GiveUp(d) \/ Uninstall(d)
    PROVE  IInv'
<1>1. UNCHANGED <<uses, agents, observations, lapsed, exchange, checkIn>>
  BY DEF Save, Receive, Truncate, Write, GiveUp, Uninstall, serverVars
<1>2. device[d] \in Device
  BY DEF IInv, TypeOK
<1>3. /\ device' \in [Devices -> Device]
      /\ \A c \in Devices \ {d} : device'[c] = device[c]
      /\ device'[d].pc = "waiting" => device[d].call \in Exchanges /\ device'[d].call = device[d].call
      /\ device'[d].pc \in {"saving", "writing"} => device'[d].call \in agents
      /\ device'[d].file \in agents \cup {Torn, None}
  <2>1. CASE Receive(d)
    BY <2>1 DEF Receive, IInv, TypeOK, Device, AgentInv, SavedCredentialAccepted
  <2>2. CASE Truncate(d)
    BY <2>2 DEF Truncate, IInv, TypeOK, Device, AgentInv
  <2>3. CASE Write(d)
    BY <2>3 DEF Write, IInv, TypeOK, Device, AgentInv
  <2>4. CASE GiveUp(d)
    BY <2>4 DEF GiveUp, IInv, TypeOK, Device, SavedCredentialAccepted
  <2>5. CASE Uninstall(d)
    BY <2>5 DEF Uninstall, IInv, TypeOK, Device
  <2>. QED
    BY <2>1, <2>2, <2>3, <2>4, <2>5 DEF Save
<1>4. TypeOK'
  BY <1>1, <1>3 DEF IInv, TypeOK
<1>5. TokenInv' /\ UsesAreAgents'
  BY <1>1 DEF IInv, TokenInv, UsesAreAgents
<1>6. AgentInv' /\ SavedCredentialAccepted'
  BY <1>1, <1>3 DEF IInv, AgentInv, SavedCredentialAccepted
<1>. QED
  BY <1>1, <1>4, <1>5, <1>6, PostInvKept DEF IInv, PostInv

-----------------------------------------------------------------------------
\* The check-in

\* Steps of a check-in leave the token, the agents and the devices alone.
LEMMA CheckInFrame ==
    ASSUME IInv, UNCHANGED <<uses, lapsed, agents, exchange, device>>,
           checkIn' \in [CheckIns -> CheckIn], observations' \subseteq Observation,
           \A c \in CheckIns : checkIn'[c].agent \in agents \cup {None}
    PROVE  TypeOK' /\ TokenInv' /\ AgentInv' /\ UsesAreAgents' /\ SavedCredentialAccepted'
  BY DEF IInv, TypeOK, TokenInv, AgentInv, UsesAreAgents, SavedCredentialAccepted

LEMMA PostStepInv ==
    ASSUME IInv, NEW d \in Devices, NEW c \in CheckIns, NEW k \in Keys, Post(d, c, k)
    PROVE  IInv'
<1>. DEFINE v == [NoCheckIn EXCEPT !.pc = "begun", !.agent = device[d].file, !.key = k]
<1>1. /\ checkIn[c].pc = "idle"
      /\ device[d].file \in Exchanges
      /\ checkIn' = [checkIn EXCEPT ![c] = v]
      /\ UNCHANGED <<uses, lapsed, agents, observations, exchange, device>>
  BY DEF Post, serverVars
<1>2. device[d].file \in agents
  BY <1>1, FileStates DEF IInv, SavedCredentialAccepted
<1>3. /\ v \in CheckIn
      /\ v.pc = "begun" /\ v.agent = device[d].file /\ v.key = k
  BY <1>1 DEF CheckIn, NoCheckIn
<1>. HIDE DEF v
<1>4. /\ checkIn' \in [CheckIns -> CheckIn]
      /\ checkIn'[c] = v
      /\ \A b \in CheckIns \ {c} : checkIn'[b] = checkIn[b]
  BY <1>1, <1>3 DEF IInv, TypeOK
<1>5. \A b \in CheckIns : checkIn'[b].agent \in agents \cup {None}
  BY <1>2, <1>3, <1>4 DEF IInv, SavedCredentialAccepted
<1>6. TypeOK' /\ TokenInv' /\ AgentInv' /\ UsesAreAgents' /\ SavedCredentialAccepted'
  BY <1>1, <1>4, <1>5, CheckInFrame DEF IInv, TypeOK
<1>7. KeyInv'
  <2>1. \A a, l : Stored(a, l)' = Stored(a, l)
    BY <1>1 DEF Stored
  <2>2. \A b \in CheckIns : checkIn'[b].pc \in {"begun", "inserted"} =>
            checkIn'[b].agent \in Exchanges /\ checkIn'[b].key \in Keys
    BY <1>1, <1>3, <1>4 DEF IInv, KeyInv
  <2>3. \A b \in CheckIns : checkIn'[b].pc = "inserted" => checkIn'[b] = checkIn[b]
    BY <1>3, <1>4
  <2>4. \A b \in CheckIns : checkIn'[b].pc = "inserted" =>
            (checkIn'[b].mine <=> Stored(checkIn'[b].agent, checkIn'[b].key) = {})
    BY <2>3 DEF IInv, KeyInv
  <2>5. ASSUME NEW a \in CheckIns, NEW b \in CheckIns,
               checkIn'[a].pc = "inserted", checkIn'[a].mine,
               checkIn'[b].pc = "inserted", checkIn'[b].mine,
               checkIn'[a].agent = checkIn'[b].agent, checkIn'[a].key = checkIn'[b].key
        PROVE  a = b
    BY <2>3, <2>5 DEF IInv, KeyInv, SameKey
  <2>. QED
    BY <2>1, <2>2, <2>4, <2>5 DEF KeyInv, SameKey
<1>8. ObservedOnce'
  BY <1>1, <1>3, <1>4 DEF IInv, ObservedOnce
<1>. QED
  BY <1>6, <1>7, <1>8 DEF IInv

LEMMA InsertObservationInv ==
    ASSUME IInv, NEW c \in CheckIns, InsertObservation(c)
    PROVE  IInv'
<1>. DEFINE new == Stored(checkIn[c].agent, checkIn[c].key) = {}
<1>0. new \in BOOLEAN
  OBVIOUS
<1>1. /\ checkIn[c].pc = "begun"
      /\ \A b \in CheckIns : SameKey(b, checkIn[c].agent, checkIn[c].key) =>
             ~(checkIn[b].pc = "inserted" /\ checkIn[b].mine)
      /\ checkIn' = [checkIn EXCEPT ![c].pc = "inserted", ![c].mine = new]
      /\ UNCHANGED <<uses, lapsed, agents, observations, exchange, device>>
  BY DEF InsertObservation, serverVars
<1>. HIDE DEF new
<1>2. /\ checkIn' \in [CheckIns -> CheckIn]
      /\ checkIn'[c].pc = "inserted"
      /\ checkIn'[c].mine = new
      /\ checkIn'[c].agent = checkIn[c].agent /\ checkIn'[c].key = checkIn[c].key
      /\ \A b \in CheckIns \ {c} : checkIn'[b] = checkIn[b]
  BY <1>0, <1>1 DEF IInv, TypeOK, CheckIn
<1>3. \A b \in CheckIns : checkIn'[b].agent \in agents \cup {None}
  BY <1>2 DEF IInv, SavedCredentialAccepted
<1>4. TypeOK' /\ TokenInv' /\ AgentInv' /\ UsesAreAgents' /\ SavedCredentialAccepted'
  BY <1>1, <1>2, <1>3, CheckInFrame DEF IInv, TypeOK
<1>5. \A a, k : Stored(a, k)' = Stored(a, k)
  BY <1>1 DEF Stored
<1>6. KeyInv'
  <2>1. \A b \in CheckIns : checkIn'[b].pc \in {"begun", "inserted"} =>
            checkIn'[b].agent \in Exchanges /\ checkIn'[b].key \in Keys
    BY <1>1, <1>2 DEF IInv, KeyInv
  <2>2. \A b \in CheckIns : checkIn'[b].pc = "inserted" =>
            (checkIn'[b].mine <=> Stored(checkIn'[b].agent, checkIn'[b].key) = {})
    BY <1>2 DEF IInv, KeyInv, new
  <2>3. ASSUME NEW a \in CheckIns, NEW b \in CheckIns,
               checkIn'[a].pc = "inserted", checkIn'[a].mine,
               checkIn'[b].pc = "inserted", checkIn'[b].mine,
               checkIn'[a].agent = checkIn'[b].agent, checkIn'[a].key = checkIn'[b].key
        PROVE  a = b
    BY <1>1, <1>2, <2>3 DEF IInv, KeyInv, SameKey
  <2>. QED
    BY <1>5, <2>1, <2>2, <2>3 DEF KeyInv, SameKey
<1>7. ObservedOnce'
  BY <1>1, <1>2 DEF IInv, ObservedOnce
<1>. QED
  BY <1>4, <1>6, <1>7 DEF IInv

LEMMA CommitCheckInInv ==
    ASSUME IInv, NEW c \in CheckIns, CommitCheckIn(c)
    PROVE  IInv'
<1>. DEFINE a == checkIn[c].agent
            k == checkIn[c].key
            new == [agent |-> a, key |-> k, received |-> c]
<1>1. /\ checkIn[c].pc = "inserted"
      /\ observations' = observations \cup IF checkIn[c].mine THEN {new} ELSE {}
      /\ UNCHANGED <<uses, lapsed, agents, exchange, device>>
  BY DEF CommitCheckIn
<1>2. PICK x \in observations' :
          /\ x.agent = a /\ x.key = k
          /\ checkIn' = [checkIn EXCEPT ![c].pc = "answered", ![c].receipt = x.received]
  BY DEF CommitCheckIn
<1>3. a \in Exchanges /\ k \in Keys /\ new \in Observation
  BY <1>1 DEF IInv, KeyInv, Observation
<1>4. observations' \subseteq Observation /\ observations \subseteq observations'
  BY <1>1, <1>3 DEF IInv, TypeOK
<1>5. x \in Observation /\ x.received \in CheckIns /\ x = [agent |-> a, key |-> k, received |-> x.received]
  BY <1>2, <1>4 DEF Observation
<1>6. new.agent = a /\ new.key = k
  OBVIOUS
<1>. HIDE DEF new
<1>7. /\ checkIn' \in [CheckIns -> CheckIn]
      /\ checkIn'[c].pc = "answered"
      /\ checkIn'[c].agent = a /\ checkIn'[c].key = k /\ checkIn'[c].receipt = x.received
      /\ \A b \in CheckIns \ {c} : checkIn'[b] = checkIn[b]
  BY <1>2, <1>5 DEF IInv, TypeOK, CheckIn
<1>8. \A b \in CheckIns : checkIn'[b].agent \in agents \cup {None}
  BY <1>7 DEF IInv, SavedCredentialAccepted
<1>9. TypeOK' /\ TokenInv' /\ AgentInv' /\ UsesAreAgents' /\ SavedCredentialAccepted'
  BY <1>1, <1>4, <1>7, <1>8, CheckInFrame DEF IInv, TypeOK
<1>10. checkIn[c].mine => \A y \in observations : ~(y.agent = a /\ y.key = k)
  BY <1>1 DEF IInv, KeyInv, Stored
<1>11. KeyInv'
  <2>1. \A b \in CheckIns : checkIn'[b].pc \in {"begun", "inserted"} =>
            checkIn'[b].agent \in Exchanges /\ checkIn'[b].key \in Keys
    BY <1>7 DEF IInv, KeyInv
  <2>2. ASSUME NEW b \in CheckIns, checkIn'[b].pc = "inserted"
        PROVE  checkIn'[b].mine <=> Stored(checkIn[b].agent, checkIn[b].key)' = {}
    <3>1. b # c /\ checkIn'[b] = checkIn[b]
      BY <1>7, <2>2
    <3>2. CASE checkIn[b].mine
      <4>1. Stored(checkIn[b].agent, checkIn[b].key) = {}
        BY <2>2, <3>1, <3>2 DEF IInv, KeyInv
      <4>2. checkIn[c].mine => ~(checkIn[b].agent = a /\ checkIn[b].key = k)
        BY <1>1, <2>2, <3>1, <3>2 DEF IInv, KeyInv, SameKey
      <4>3. \A y \in observations' : ~(y.agent = checkIn[b].agent /\ y.key = checkIn[b].key)
        BY <1>1, <1>6, <4>1, <4>2 DEF Stored
      <4>. QED
        BY <3>1, <3>2, <4>3 DEF Stored
    <3>3. CASE ~checkIn[b].mine
      <4>1. Stored(checkIn[b].agent, checkIn[b].key) # {}
        BY <2>2, <3>1, <3>3 DEF IInv, KeyInv
      <4>. QED
        BY <1>4, <3>1, <3>3, <4>1 DEF Stored
    <3>. QED
      BY <3>2, <3>3
  <2>3. \A b, d \in CheckIns :
            /\ checkIn'[b].pc = "inserted" /\ checkIn'[b].mine
            /\ checkIn'[d].pc = "inserted" /\ checkIn'[d].mine
            /\ checkIn'[b].agent = checkIn'[d].agent /\ checkIn'[b].key = checkIn'[d].key
            => b = d
    BY <1>7 DEF IInv, KeyInv, SameKey
  <2>. QED
    BY <2>1, <2>2, <2>3 DEF KeyInv, SameKey
<1>12. ObservedOnce'
  <2>1. \A y, z \in observations' : y.agent = z.agent /\ y.key = z.key => y = z
    BY <1>1, <1>6, <1>10 DEF IInv, ObservedOnce
  <2>2. \A b \in CheckIns : checkIn'[b].pc = "answered" =>
            [agent |-> checkIn'[b].agent, key |-> checkIn'[b].key,
             received |-> checkIn'[b].receipt] \in observations'
    BY <1>2, <1>4, <1>5, <1>7 DEF IInv, ObservedOnce
  <2>. QED
    BY <2>1, <2>2 DEF ObservedOnce
<1>. QED
  BY <1>9, <1>11, <1>12 DEF IInv

LEMMA CrashCheckInInv ==
    ASSUME IInv, NEW c \in CheckIns, CrashCheckIn(c)
    PROVE  IInv'
<1>. DEFINE v == [NoCheckIn EXCEPT !.pc = "ended"]
<1>1. /\ checkIn' = [checkIn EXCEPT ![c] = v]
      /\ UNCHANGED <<uses, lapsed, agents, observations, exchange, device>>
  BY DEF CrashCheckIn, serverVars
<1>2. v \in CheckIn /\ v.pc = "ended" /\ v.agent = None
  BY DEF CheckIn, NoCheckIn
<1>. HIDE DEF v
<1>3. /\ checkIn' \in [CheckIns -> CheckIn]
      /\ checkIn'[c] = v
      /\ \A b \in CheckIns \ {c} : checkIn'[b] = checkIn[b]
  BY <1>1, <1>2 DEF IInv, TypeOK
<1>4. \A b \in CheckIns : checkIn'[b].agent \in agents \cup {None}
  BY <1>2, <1>3 DEF IInv, SavedCredentialAccepted
<1>5. TypeOK' /\ TokenInv' /\ AgentInv' /\ UsesAreAgents' /\ SavedCredentialAccepted'
  BY <1>1, <1>3, <1>4, CheckInFrame DEF IInv, TypeOK
<1>6. KeyInv'
  BY <1>1, <1>2, <1>3 DEF IInv, KeyInv, Stored, SameKey
<1>7. ObservedOnce'
  BY <1>1, <1>2, <1>3 DEF IInv, ObservedOnce
<1>. QED
  BY <1>5, <1>6, <1>7 DEF IInv

-----------------------------------------------------------------------------
LEMMA NextInv == IInv /\ [Next]_vars => IInv'
<1>1. ASSUME IInv, Next
      PROVE  IInv'
  BY <1>1, ConsumeInv, EndExchangeInv, CommitExchangeInv, ExpireTokenInv, EnrollInv,
     CollectorInv, PostStepInv, InsertObservationInv, CommitCheckInInv, CrashCheckInInv
     DEF Next, ServeExchange, ServeCheckIn
<1>2. ASSUME IInv, UNCHANGED vars
      PROVE  IInv'
  <2>1. UNCHANGED <<uses, lapsed, agents, observations, exchange, checkIn, device>>
    BY <1>2 DEF vars
  <2>2. TypeOK' /\ TokenInv' /\ AgentInv' /\ UsesAreAgents' /\ SavedCredentialAccepted'
    BY <1>2, <2>1 DEF IInv, TypeOK, TokenInv, AgentInv, UsesAreAgents, SavedCredentialAccepted
  <2>. QED
    BY <1>2, <2>1, <2>2, PostInvKept DEF IInv, PostInv
<1>. QED
  BY <1>1, <1>2

\* The inductive invariant holds in every reachable state.
THEOREM Inductive == Spec => []IInv
  BY InitInv, NextInv, PTL DEF Spec

\* Every variable keeps its type.
THEOREM TypeCorrect == Spec => []TypeOK
<1>1. IInv => TypeOK
  BY DEF IInv
<1>. QED
  BY <1>1, Inductive, PTL

\* A use is counted exactly for each agent row, and none beyond the limit.
THEOREM UsesCounted == Spec => []UsesAreAgents
<1>1. IInv => UsesAreAgents
  BY DEF IInv
<1>. QED
  BY <1>1, Inductive, PTL

\* No device holds, and no check-in presents, a credential the server does not know.
THEOREM CredentialsAccepted == Spec => []SavedCredentialAccepted
<1>1. IInv => SavedCredentialAccepted
  BY DEF IInv
<1>. QED
  BY <1>1, Inductive, PTL

\* Observations are stored once, however often they are posted.
THEOREM ObservationsOnce == Spec => []ObservedOnce
<1>1. IInv => ObservedOnce
  BY DEF IInv
<1>. QED
  BY <1>1, Inductive, PTL

-----------------------------------------------------------------------------
\* The registry

\* The device waits for, saves or has saved what the exchange e answers.
Has(d, e) == (device[d].pc # "idle" /\ device[d].call = e) \/ device[d].file = e

\* What an exchange answers, one device has at most.
HolderInv ==
    /\ \A d \in Devices, e \in Exchanges : Has(d, e) => exchange[e].pc # "idle"
    /\ \A c, d \in Devices, e \in Exchanges : Has(c, e) /\ Has(d, e) => c = d

RInv == IInv /\ HolderInv

LEMMA RegistryInit == Init => RInv
<1>1. ASSUME Init PROVE HolderInv
  BY <1>1, FileStates DEF Init, HolderInv, Has
<1>. QED
  BY <1>1, InitInv DEF RInv

\* A device that gets nothing new leaves the holders alone.
LEMMA HolderKept ==
    ASSUME HolderInv,
           \A e \in Exchanges : exchange'[e].pc = "idle" => exchange[e].pc = "idle",
           \A d \in Devices, e \in Exchanges :
              (device'[d].pc # "idle" /\ device'[d].call = e) \/ device'[d].file = e => Has(d, e)
    PROVE  HolderInv'
  BY DEF HolderInv, Has

LEMMA EnrollHolder ==
    ASSUME RInv, NEW d \in Devices, NEW e \in Exchanges, Enroll(d, e)
    PROVE  HolderInv'
<1>1. /\ exchange[e].pc = "idle"
      /\ exchange' = [exchange EXCEPT ![e] = [pc |-> "begun", fresh |-> ~lapsed]]
      /\ device' = [device EXCEPT ![d].pc = "waiting", ![d].call = e]
  BY DEF Enroll
<1>2. /\ exchange'[e].pc = "begun"
      /\ \A f \in Exchanges \ {e} : exchange'[f] = exchange[f]
  BY <1>1 DEF RInv, IInv, TypeOK
<1>3. /\ device'[d].call = e /\ device'[d].file = device[d].file
      /\ \A c \in Devices \ {d} : device'[c] = device[c]
  BY <1>1 DEF RInv, IInv, TypeOK, Device
<1>4. \A c \in Devices : ~Has(c, e)
  BY <1>1 DEF RInv, HolderInv
<1>5. \A c \in Devices, f \in Exchanges :
          (device'[c].pc # "idle" /\ device'[c].call = f) \/ device'[c].file = f =>
              Has(c, f) \/ (c = d /\ f = e)
  BY <1>3 DEF Has
<1>6. \A c \in Devices, f \in Exchanges :
          (device'[c].pc # "idle" /\ device'[c].call = f) \/ device'[c].file = f =>
              exchange'[f].pc # "idle"
  BY <1>2, <1>5 DEF RInv, HolderInv
<1>7. ASSUME NEW b \in Devices, NEW c \in Devices, NEW f \in Exchanges,
             (device'[b].pc # "idle" /\ device'[b].call = f) \/ device'[b].file = f,
             (device'[c].pc # "idle" /\ device'[c].call = f) \/ device'[c].file = f
      PROVE  b = c
  BY <1>4, <1>5, <1>7 DEF RInv, HolderInv
<1>. QED
  BY <1>6, <1>7 DEF HolderInv, Has

\* What the collector does after the answer: its file is as it was, or lost, or names
\* the agent it was answered.
LEMMA CollectorMove ==
    ASSUME IInv, NEW d \in Devices, Save(d) \/ GiveUp(d) \/ Uninstall(d)
    PROVE  /\ UNCHANGED <<agents, observations, exchange, checkIn>>
           /\ \A c \in Devices \ {d} : device'[c] = device[c]
           /\ device'[d].pc # "idle" => device[d].pc # "idle" /\ device'[d].call = device[d].call
           /\ \/ device'[d].file = device[d].file
              \/ device'[d].file \in {Torn, None}
              \/ device[d].pc = "writing" /\ device'[d].file = device[d].call
<1>1. UNCHANGED <<agents, observations, exchange, checkIn>>
  BY DEF Save, Receive, Truncate, Write, GiveUp, Uninstall, serverVars
<1>2. CASE Receive(d)
  BY <1>1, <1>2 DEF Receive, IInv, TypeOK, Device
<1>3. CASE Truncate(d)
  BY <1>1, <1>3 DEF Truncate, IInv, TypeOK, Device
<1>4. CASE Write(d)
  BY <1>1, <1>4 DEF Write, IInv, TypeOK, Device
<1>5. CASE GiveUp(d)
  BY <1>1, <1>5 DEF GiveUp, IInv, TypeOK, Device
<1>6. CASE Uninstall(d)
  BY <1>1, <1>6 DEF Uninstall, IInv, TypeOK, Device
<1>. QED
  BY <1>2, <1>3, <1>4, <1>5, <1>6 DEF Save

\* What the steps of an exchange do to the exchanges and to the devices.
LEMMA ExchangeMove ==
    ASSUME IInv, NEW e \in Exchanges, ServeExchange(e) \/ CrashExchange(e)
    PROVE  /\ \A f \in Exchanges : exchange'[f].pc = "idle" => exchange[f].pc = "idle"
           /\ UNCHANGED <<observations, checkIn>>
           /\ \A d \in Devices : /\ device'[d].file = device[d].file
                                 /\ \/ device'[d] = device[d]
                                    \/ device'[d].pc = "idle"
           /\ UNCHANGED agents \/ CommitExchange(e)
<1>1. PICK pc \in {"consumed", "committed", "ended"} : exchange' = [exchange EXCEPT ![e].pc = pc]
  BY DEF ServeExchange, Consume, RefuseExchange, CommitExchange, CrashExchange
<1>2. \A f \in Exchanges : exchange'[f].pc = "idle" => exchange[f].pc = "idle"
  BY <1>1 DEF IInv, TypeOK, Exchange
<1>3. CASE Consume(e) \/ CommitExchange(e)
  BY <1>2, <1>3 DEF Consume, CommitExchange, serverVars
<1>4. CASE RefuseExchange(e) \/ CrashExchange(e)
  <2>1. device' = Released(e) /\ UNCHANGED <<agents, observations, checkIn>>
    BY <1>4 DEF RefuseExchange, CrashExchange, serverVars
  <2>. QED
    BY <1>2, <2>1, ReleasedFacts
<1>. QED
  BY <1>3, <1>4 DEF ServeExchange

LEMMA RegistryInvNext == RInv /\ [Next]_vars => RInv'
<1>. SUFFICES ASSUME RInv, [Next]_vars PROVE RInv'
  OBVIOUS
<1>1. IInv /\ HolderInv
  BY DEF RInv
<1>2. IInv'
  BY <1>1, NextInv
<1>3. CASE UNCHANGED <<exchange, device>>
  <2>1. HolderInv'
    BY <1>1, <1>3 DEF HolderInv, Has
  <2>. QED
    BY <1>2, <2>1 DEF RInv
<1>4. ASSUME NEW e \in Exchanges, ServeExchange(e) \/ CrashExchange(e)
      PROVE  HolderInv'
  <2>1. \A f \in Exchanges : exchange'[f].pc = "idle" => exchange[f].pc = "idle"
    BY <1>1, <1>4, ExchangeMove
  <2>2. \A d \in Devices : /\ device'[d].file = device[d].file
                           /\ device'[d] = device[d] \/ device'[d].pc = "idle"
    BY <1>1, <1>4, ExchangeMove
  <2>3. \A d \in Devices, f \in Exchanges :
            (device'[d].pc # "idle" /\ device'[d].call = f) \/ device'[d].file = f => Has(d, f)
    BY <2>2 DEF Has
  <2>. QED
    BY <1>1, <2>1, <2>3, HolderKept
<1>5. ASSUME NEW d \in Devices, Save(d) \/ GiveUp(d) \/ Uninstall(d)
      PROVE  HolderInv'
  <2>1. /\ UNCHANGED exchange
        /\ \A c \in Devices \ {d} : device'[c] = device[c]
        /\ device'[d].pc # "idle" => device[d].pc # "idle" /\ device'[d].call = device[d].call
        /\ \/ device'[d].file = device[d].file
           \/ device'[d].file \in {Torn, None}
           \/ device[d].pc = "writing" /\ device'[d].file = device[d].call
    BY <1>1, <1>5, CollectorMove
  <2>2. \A c \in Devices, f \in Exchanges :
            (device'[c].pc # "idle" /\ device'[c].call = f) \/ device'[c].file = f => Has(c, f)
    BY <2>1, FileStates DEF Has
  <2>. QED
    BY <1>1, <2>1, <2>2, HolderKept
<1>6. ASSUME NEW d \in Devices, NEW e \in Exchanges, Enroll(d, e)
      PROVE  HolderInv'
  BY <1>6, EnrollHolder
<1>7. \/ UNCHANGED <<exchange, device>>
      \/ \E e \in Exchanges : ServeExchange(e) \/ CrashExchange(e)
      \/ \E d \in Devices : \/ Save(d) \/ GiveUp(d) \/ Uninstall(d)
                            \/ \E e \in Exchanges : Enroll(d, e)
  BY DEF Next, vars, ExpireToken, Post, ServeCheckIn, InsertObservation, CommitCheckIn, CrashCheckIn
<1>. QED
  BY <1>2, <1>3, <1>4, <1>5, <1>6, <1>7 DEF RInv

LEMMA RegistryInductive == Spec => []RInv
<1>. QED
  BY RegistryInit, RegistryInvNext, PTL DEF Spec

\* No two devices ever have the credential of one agent, or wait for it.
THEOREM OneDevicePerAgent == Spec => []HolderInv
<1>1. RInv => HolderInv
  BY DEF RInv
<1>. QED
  BY <1>1, RegistryInductive, PTL

\* What registryVars stand for, where neither files nor answers change.
LEMMA SameCredential ==
    ASSUME \A d \in Devices : device'[d].file = device[d].file
    PROVE  Credential' = Credential
  BY DEF Credential

LEMMA SameAnswers ==
    ASSUME \A c \in CheckIns :
              \/ checkIn'[c] = checkIn[c]
              \/ checkIn[c].pc # "answered" /\ checkIn'[c].pc # "answered"
    PROVE  Answers' = Answers
<1>. DEFINE Answered == {b \in CheckIns : checkIn[b].pc = "answered"}
<1>1. Answered' = Answered
  OBVIOUS
<1>2. \A c \in Answered : checkIn'[c] = checkIn[c]
  OBVIOUS
<1>. QED
  BY <1>1, <1>2 DEF Answers

LEMMA EnlistStep ==
    ASSUME RInv, NEW e \in Exchanges, CommitExchange(e)
    PROVE  Registry!Enlist(e)
<1>1. /\ exchange[e].pc = "consumed" /\ agents' = agents \cup {e}
      /\ UNCHANGED <<observations, checkIn, device>>
  BY DEF CommitExchange
<1>2. e \notin agents /\ Cardinality(agents) < MaxUses
  BY <1>1 DEF RInv, IInv, AgentInv, TokenInv, UsesAreAgents
<1>3. Credential' = Credential /\ Answers' = Answers
  BY <1>1 DEF Credential, Answers
<1>4. agents' = agents \cup {e} /\ UNCHANGED <<Credential, observations, Answers>>
  BY <1>1, <1>3
<1>. QED
  BY <1>2, <1>4 DEF Registry!Enlist, Registry!Cardinality, Cardinality

LEMMA CredentialStep ==
    ASSUME RInv, NEW d \in Devices, Save(d) \/ GiveUp(d) \/ Uninstall(d)
    PROVE  \/ UNCHANGED Registry!registryVars
           \/ Registry!Lose(d)
           \/ \E a \in Exchanges : Registry!Save(d, a)
<1>1. /\ UNCHANGED <<agents, observations, exchange, checkIn>>
      /\ \A c \in Devices \ {d} : device'[c] = device[c]
      /\ \/ device'[d].file = device[d].file
         \/ device'[d].file \in {Torn, None}
         \/ device[d].pc = "writing" /\ device'[d].file = device[d].call
  <2>1. IInv
    BY DEF RInv
  <2>. QED
    BY <2>1, CollectorMove
<1>2. Answers' = Answers
  BY <1>1 DEF Answers
<1>3. CASE device'[d].file = device[d].file
  <2>1. \A c \in Devices : device'[c].file = device[c].file
    BY <1>1, <1>3
  <2>. QED
    BY <1>1, <1>2, <2>1, SameCredential DEF Registry!registryVars
<1>4. CASE device'[d].file \in {Torn, None}
  <2>1. {device'[d].file} \cap Exchanges = {}
    BY <1>4, FileStates
  <2>2. Credential' = [Credential EXCEPT ![d] = {}]
    BY <1>1, <2>1 DEF Credential
  <2>. QED
    BY <1>1, <1>2, <2>2 DEF Registry!Lose
<1>5. CASE device[d].pc = "writing" /\ device'[d].file = device[d].call
  <2>1. PICK a \in Exchanges : a = device[d].call /\ a \in agents
    BY <1>5 DEF RInv, IInv, AgentInv, TypeOK
  <2>2. Has(d, a)
    BY <1>5, <2>1 DEF Has
  <2>3. \A c \in Devices \ {d} : a \notin Credential[c]
    BY <2>2 DEF RInv, HolderInv, Has, Credential
  <2>4. {device'[d].file} \cap Exchanges = {a}
    BY <1>5, <2>1
  <2>5. Credential' = [Credential EXCEPT ![d] = {a}]
    BY <1>1, <2>4 DEF Credential
  <2>6. Registry!Save(d, a)
    BY <1>1, <1>2, <2>1, <2>3, <2>5 DEF Registry!Save
  <2>. QED
    BY <2>6
<1>. QED
  BY <1>1, <1>3, <1>4, <1>5

LEMMA CheckInStep ==
    ASSUME RInv, NEW c \in CheckIns, CommitCheckIn(c)
    PROVE  \E a \in Exchanges, k \in Keys : Registry!CheckIn(c, a, k)
<1>1. PICK a \in Exchanges, k \in Keys : a = checkIn[c].agent /\ k = checkIn[c].key
  BY DEF RInv, IInv, KeyInv, CommitCheckIn
<1>2. /\ checkIn[c].pc = "inserted"
      /\ UNCHANGED <<uses, lapsed, agents, exchange, device>>
  BY DEF CommitCheckIn
<1>3. PICK x \in observations' :
          /\ x.agent = a /\ x.key = k
          /\ checkIn' = [checkIn EXCEPT ![c].pc = "answered", ![c].receipt = x.received]
  BY <1>1 DEF CommitCheckIn
<1>4. a \in agents
  BY <1>1, FileStates DEF RInv, IInv, SavedCredentialAccepted
<1>5. \A y \in Answers : y.call # c
  BY <1>2 DEF Answers
<1>6. observations' = observations \cup
          {[agent |-> a, key |-> k, received |-> b] : b \in
              IF {y \in observations : y.agent = a /\ y.key = k} = {} THEN {c} ELSE {}}
  <2>1. observations' = observations \cup
            IF checkIn[c].mine THEN {[agent |-> a, key |-> k, received |-> c]} ELSE {}
    BY <1>1 DEF CommitCheckIn
  <2>2. checkIn[c].mine <=> {y \in observations : y.agent = a /\ y.key = k} = {}
    BY <1>1, <1>2 DEF RInv, IInv, KeyInv, Stored
  <2>3. CASE checkIn[c].mine
    BY <2>1, <2>2, <2>3
  <2>4. CASE ~checkIn[c].mine
    BY <2>1, <2>2, <2>4
  <2>. QED
    BY <2>3, <2>4
<1>7. x = [agent |-> a, key |-> k, received |-> x.received] /\ x.received \in CheckIns
  <2>1. observations' \subseteq Observation
    BY CommitCheckInInv DEF RInv, IInv, TypeOK
  <2>. QED
    BY <1>3, <2>1 DEF Observation
<1>8. Answers' = Answers \cup {[call |-> c, observation |-> x]}
  <2>1. /\ checkIn'[c].pc = "answered" /\ checkIn'[c].agent = a /\ checkIn'[c].key = k
        /\ checkIn'[c].receipt = x.received
        /\ \A b \in CheckIns \ {c} : checkIn'[b] = checkIn[b]
    BY <1>1, <1>3, <1>7 DEF RInv, IInv, TypeOK, CheckIn
  <2>. DEFINE Ans(b) == [call |-> b, observation |-> [agent |-> checkIn[b].agent,
                            key |-> checkIn[b].key, received |-> checkIn[b].receipt]]
              Answered == {b \in CheckIns : checkIn[b].pc = "answered"}
  <2>2. Answered' = Answered \cup {c}
    BY <2>1
  <2>3. \A b \in Answered : Ans(b)' = Ans(b)
    BY <1>2, <2>1
  <2>4. Ans(c)' = [call |-> c, observation |-> x]
    BY <1>7, <2>1
  <2>5. Answers = {Ans(b) : b \in Answered}
    BY DEF Answers
  <2>6. Answers' = {Ans(b)' : b \in Answered'}
    BY DEF Answers
  <2>. HIDE DEF Ans, Answered
  <2>. QED
    BY <2>2, <2>3, <2>4, <2>5, <2>6
<1>9. Credential' = Credential
  BY <1>2 DEF Credential
<1>10. Registry!CheckIn(c, a, k)
  BY <1>2, <1>3, <1>4, <1>5, <1>6, <1>8, <1>9 DEF Registry!CheckIn
<1>. QED
  BY <1>10

LEMMA RegistryNext == RInv /\ [Next]_vars => [Registry!Next]_(Registry!registryVars)
<1>. SUFFICES ASSUME RInv, [Next]_vars PROVE [Registry!Next]_(Registry!registryVars)
  OBVIOUS
<1>1. CASE UNCHANGED vars \/ ExpireToken
  <2>1. UNCHANGED <<agents, observations, device, checkIn>>
    BY <1>1 DEF vars, ExpireToken, serverVars
  <2>. QED
    BY <2>1 DEF Registry!registryVars, Credential, Answers
<1>2. ASSUME NEW e \in Exchanges, ServeExchange(e) \/ CrashExchange(e)
      PROVE  [Registry!Next]_(Registry!registryVars)
  <2>1. CASE CommitExchange(e)
    BY <2>1, EnlistStep DEF Registry!Next
  <2>2. CASE ~CommitExchange(e)
    <3>1. IInv
      BY DEF RInv
    <3>2. /\ UNCHANGED <<agents, observations, checkIn>>
          /\ \A d \in Devices : device'[d].file = device[d].file
      BY <1>2, <2>2, <3>1, ExchangeMove
    <3>3. Credential' = Credential /\ Answers' = Answers
      BY <3>2, SameCredential DEF Answers
    <3>. QED
      BY <3>2, <3>3 DEF Registry!registryVars
  <2>. QED
    BY <2>1, <2>2
<1>3. ASSUME NEW d \in Devices, Save(d) \/ GiveUp(d) \/ Uninstall(d)
      PROVE  [Registry!Next]_(Registry!registryVars)
  BY <1>3, CredentialStep DEF Registry!Next
<1>4. ASSUME NEW d \in Devices, NEW e \in Exchanges, Enroll(d, e)
      PROVE  [Registry!Next]_(Registry!registryVars)
  <2>1. /\ UNCHANGED <<agents, observations, checkIn>>
        /\ \A c \in Devices : device'[c].file = device[c].file
    BY <1>4 DEF Enroll, serverVars, RInv, IInv, TypeOK, Device
  <2>2. Credential' = Credential /\ Answers' = Answers
    BY <2>1, SameCredential DEF Answers
  <2>. QED
    BY <2>1, <2>2 DEF Registry!registryVars
<1>5. ASSUME NEW c \in CheckIns, CommitCheckIn(c)
      PROVE  [Registry!Next]_(Registry!registryVars)
  BY <1>5, CheckInStep DEF Registry!Next
<1>6. ASSUME NEW c \in CheckIns,
             \/ \E d \in Devices, k \in Keys : Post(d, c, k)
             \/ InsertObservation(c) \/ CrashCheckIn(c)
      PROVE  [Registry!Next]_(Registry!registryVars)
  <2>1. UNCHANGED <<agents, observations, device>>
    BY <1>6 DEF Post, InsertObservation, CrashCheckIn, serverVars
  <2>2. \A b \in CheckIns :
            \/ checkIn'[b] = checkIn[b]
            \/ checkIn[b].pc # "answered" /\ checkIn'[b].pc # "answered"
    <3>1. CASE \E d \in Devices, k \in Keys : Post(d, c, k)
      BY <3>1 DEF Post, NoCheckIn, RInv, IInv, TypeOK
    <3>2. CASE InsertObservation(c)
      BY <3>2 DEF InsertObservation, RInv, IInv, TypeOK, CheckIn
    <3>3. CASE CrashCheckIn(c)
      BY <3>3 DEF CrashCheckIn, NoCheckIn, RInv, IInv, TypeOK
    <3>. QED
      BY <1>6, <3>1, <3>2, <3>3
  <2>3. Credential' = Credential
    BY <2>1 DEF Credential
  <2>4. Answers' = Answers
    BY <2>2, SameAnswers
  <2>. QED
    BY <2>1, <2>3, <2>4 DEF Registry!registryVars
<1>. QED
  BY <1>1, <1>2, <1>3, <1>4, <1>5, <1>6 DEF Next, ServeCheckIn

\* However exchanges and check-ins overlap, crash and are repeated, what is committed,
\* saved and answered is a registry of agents.
THEOREM Implements == Spec => ImplementsRegistry
<1>1. Init => Registry!Init
  <2>. SUFFICES ASSUME Init PROVE Registry!Init
    OBVIOUS
  <2>1. Credential = [d \in Devices |-> {}]
    BY FileStates DEF Init, Credential
  <2>2. Answers = {}
    BY DEF Init, Answers, NoCheckIn
  <2>. QED
    BY <2>1, <2>2 DEF Init, Registry!Init
<1>. QED
  BY <1>1, RegistryInductive, RegistryNext, PTL DEF Spec, ImplementsRegistry, Registry!Spec

-----------------------------------------------------------------------------
\* Agents, observations and the answers that acknowledged them stay.
RecordKept ==
    agents \subseteq agents' /\ observations \subseteq observations' /\ Answers \subseteq Answers'

RecordsStay == [][RecordKept]_vars

\* An acknowledged observation is never lost or changed, whatever posts are repeated,
\* time out or crash after it.
THEOREM RecordsStayAlways == Spec => RecordsStay
<1>1. ASSUME [Registry!Next]_(Registry!registryVars)
      PROVE  RecordKept
  BY <1>1 DEF Registry!Next, Registry!registryVars, Registry!Enlist, Registry!Save,
              Registry!Lose, Registry!CheckIn, RecordKept
<1>2. RInv /\ [Next]_vars => [RecordKept]_vars
  BY <1>1, RegistryNext
<1>. QED
  BY <1>2, RegistryInductive, PTL DEF Spec, RecordsStay
=============================================================================
