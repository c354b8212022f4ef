---------------------------- MODULE EndpointAgents ----------------------------
(***************************************************************************)
(* Enrollment and check-in of endpoint agents: automation.py's             *)
(* exchange_agent_enrollment and agent_check_in, the functions and tables  *)
(* of migration 0005, and the collector that calls them (agent's main.go). *)
(*                                                                         *)
(* Both handlers open a transaction of their own and commit before they    *)
(* answer.  An agent row is named by the exchange that inserted it, and    *)
(* its credential is known to whoever has that exchange's answer.          *)
(***************************************************************************)
EXTENDS Naturals, FiniteSets

CONSTANTS
    Devices,    \* endpoints on which the collector runs
    Exchanges,  \* calls that exchange the enrollment token
    CheckIns,   \* check-in calls
    Keys,       \* idempotency keys of observations
    MaxUses,    \* max_uses of the enrollment token
    Torn,       \* a credential file that was truncated and not written
    None        \* no exchange, key, device or file

ASSUME UsesPositive == MaxUses \in Nat \ {0}
ASSUME FileStates == Torn # None /\ {Torn, None} \cap Exchanges = {}

VARIABLES
    uses,           \* committed use_count of the token
    lapsed,         \* whether expires_at of the token has passed
    agents,         \* committed rows of agents
    observations,   \* committed rows of agent_observations
    exchange,       \* exchange calls
    checkIn,        \* check-in calls
    device          \* the collector and its credential file

serverVars == <<uses, agents, observations>>
vars == <<uses, lapsed, agents, observations, exchange, checkIn, device>>

-----------------------------------------------------------------------------
\* fresh: the token had not expired at the transaction's now().  "consumed": the
\* token row is updated and locked; "committed": the answer is on its way.
Exchange == [pc : {"idle", "begun", "consumed", "committed", "ended"},
             fresh : BOOLEAN]

\* "inserted": the row of its key is there, by this transaction if "mine".
\* receipt: the call whose receipt time was answered.
CheckIn == [pc : {"idle", "begun", "inserted", "answered", "ended"},
            agent : Exchanges \cup {None}, key : Keys \cup {None},
            mine : BOOLEAN, receipt : CheckIns \cup {None}]

\* received: the call at whose transaction start the row was received.
Observation == [agent : Exchanges, key : Keys, received : CheckIns]

\* call: the exchange the collector waits for or whose answer it saves.
Device == [pc : {"idle", "waiting", "saving", "writing"},
           call : Exchanges \cup {None}, file : Exchanges \cup {Torn, None}]

TypeOK ==
    /\ uses \in 0 .. MaxUses
    /\ lapsed \in BOOLEAN
    /\ agents \subseteq Exchanges
    /\ observations \subseteq Observation
    /\ exchange \in [Exchanges -> Exchange]
    /\ checkIn \in [CheckIns -> CheckIn]
    /\ device \in [Devices -> Device]

NoCheckIn == [pc |-> "idle", agent |-> None, key |-> None, mine |-> FALSE,
              receipt |-> None]

\* create_agent_enrollment_token has committed a token.
Init ==
    /\ uses = 0
    /\ lapsed = FALSE
    /\ agents = {}
    /\ observations = {}
    /\ exchange = [e \in Exchanges |-> [pc |-> "idle", fresh |-> FALSE]]
    /\ checkIn = [c \in CheckIns |-> NoCheckIn]
    /\ device = [d \in Devices |-> [pc |-> "idle", call |-> None, file |-> None]]

-----------------------------------------------------------------------------
\* The exchange, on the server

TokenFree == \A e \in Exchanges : exchange[e].pc # "consumed"

\* A bug: the condition is not evaluated again after a wait for the row.
ConsumeUnchecked(e) ==
    /\ exchange[e].pc = "begun"
    /\ exchange[e].fresh
    /\ TokenFree
    /\ exchange' = [exchange EXCEPT ![e].pc = "consumed"]
    /\ UNCHANGED <<serverVars, lapsed, checkIn, device>>

\* consume_agent_enrollment: one that waited for the token row evaluates its
\* condition on the row the other transaction left.
Consume(e) ==
    /\ exchange[e].pc = "begun"
    /\ exchange[e].fresh
    /\ TokenFree
    /\ uses < MaxUses
    /\ exchange' = [exchange EXCEPT ![e].pc = "consumed"]
    /\ UNCHANGED <<serverVars, lapsed, checkIn, device>>

\* A bug: a call that ends without an answer leaves the collector waiting, as its
\* HTTP client would with no Timeout.
KeepsWaiting(e) == device

\* The collector has its answer, or none, and exits with an error.
Released(e) ==
    [d \in Devices |-> IF device[d].pc = "waiting" /\ device[d].call = e
                       THEN [device[d] EXCEPT !.pc = "idle", !.call = None]
                       ELSE device[d]]

\* 401: expired or used up.
RefuseExchange(e) ==
    /\ exchange[e].pc = "begun"
    /\ ~exchange[e].fresh \/ (TokenFree /\ uses = MaxUses)
    /\ exchange' = [exchange EXCEPT ![e].pc = "ended"]
    /\ device' = Released(e)
    /\ UNCHANGED <<serverVars, lapsed, checkIn>>

\* A bug: the use is never counted.
CommitUncounted(e) ==
    /\ exchange[e].pc = "consumed"
    /\ agents' = agents \cup {e}
    /\ exchange' = [exchange EXCEPT ![e].pc = "committed"]
    /\ UNCHANGED <<uses, lapsed, observations, checkIn, device>>

\* The use, the agent row and the audit row commit together.
CommitExchange(e) ==
    /\ exchange[e].pc = "consumed"
    /\ uses' = uses + 1
    /\ agents' = agents \cup {e}
    /\ exchange' = [exchange EXCEPT ![e].pc = "committed"]
    /\ UNCHANGED <<lapsed, observations, checkIn, device>>

\* The API process or its connection dies: nothing is written.
CrashExchange(e) ==
    /\ exchange[e].pc \in {"begun", "consumed"}
    /\ exchange' = [exchange EXCEPT ![e].pc = "ended"]
    /\ device' = Released(e)
    /\ UNCHANGED <<serverVars, lapsed, checkIn>>

ExpireToken ==
    /\ ~lapsed
    /\ lapsed' = TRUE
    /\ UNCHANGED <<serverVars, exchange, checkIn, device>>

-----------------------------------------------------------------------------
\* The collector

\* enroll posts the token.
Enroll(d, e) ==
    /\ device[d].pc = "idle"
    /\ exchange[e].pc = "idle"
    /\ exchange' = [exchange EXCEPT ![e] = [pc |-> "begun", fresh |-> ~lapsed]]
    /\ device' = [device EXCEPT ![d].pc = "waiting", ![d].call = e]
    /\ UNCHANGED <<serverVars, lapsed, checkIn>>

\* A bug: the answer is sent before the commit.
ReceiveEarly(d) ==
    /\ device[d].pc = "waiting"
    /\ exchange[device[d].call].pc \in {"consumed", "committed"}
    /\ device' = [device EXCEPT ![d].pc = "saving"]
    /\ UNCHANGED <<serverVars, lapsed, exchange, checkIn>>

\* The answer of the exchange arrives.
Receive(d) ==
    /\ device[d].pc = "waiting"
    /\ exchange[device[d].call].pc = "committed"
    /\ device' = [device EXCEPT ![d].pc = "saving"]
    /\ UNCHANGED <<serverVars, lapsed, exchange, checkIn>>

\* saveConfig: WriteFile truncates the file, then writes it.
Truncate(d) ==
    /\ device[d].pc = "saving"
    /\ device' = [device EXCEPT ![d].pc = "writing", ![d].file = Torn]
    /\ UNCHANGED <<serverVars, lapsed, exchange, checkIn>>

Write(d) ==
    /\ device[d].pc = "writing"
    /\ device' = [device EXCEPT ![d] =
            [pc |-> "idle", call |-> None, file |-> device[d].call]]
    /\ UNCHANGED <<serverVars, lapsed, exchange, checkIn>>

\* The collector dies, its 30 seconds are over or its answer is lost; the
\* exchange goes on.
GiveUp(d) ==
    /\ device[d].pc # "idle"
    /\ device' = [device EXCEPT ![d].pc = "idle", ![d].call = None]
    /\ UNCHANGED <<serverVars, lapsed, exchange, checkIn>>

\* uninstall removes the file; the agent row stays.
Uninstall(d) ==
    /\ device[d].pc = "idle"
    /\ device[d].file # None
    /\ device' = [device EXCEPT ![d].file = None]
    /\ UNCHANGED <<serverVars, lapsed, exchange, checkIn>>

\* check-in posts an observation with the credential that was saved.  A caller
\* that got no answer may post the observation again under its key.  (401, for a
\* credential of no active agent, changes nothing; no handler revokes an agent.)
Post(d, c, k) ==
    /\ checkIn[c].pc = "idle"
    /\ device[d].file \in Exchanges
    /\ checkIn' = [checkIn EXCEPT ![c] =
            [NoCheckIn EXCEPT !.pc = "begun", !.agent = device[d].file, !.key = k]]
    /\ UNCHANGED <<serverVars, lapsed, exchange, device>>

-----------------------------------------------------------------------------
\* The check-in, on the server

SameKey(c, a, k) == checkIn[c].agent = a /\ checkIn[c].key = k

Stored(a, k) == {x \in observations : x.agent = a /\ x.key = k}

\* A bug: the key is looked up before the insert, which then does not wait.
InsertUnconditionally(c) ==
    /\ checkIn[c].pc = "begun"
    /\ checkIn[c].agent \in agents
    /\ checkIn' = [checkIn EXCEPT ![c].pc = "inserted",
            ![c].mine = Stored(checkIn[c].agent, checkIn[c].key) = {}]
    /\ UNCHANGED <<serverVars, lapsed, exchange, device>>

\* "on conflict (agent_id, idempotency_key) do nothing": waits for an open
\* transaction that has inserted a row with the key.
InsertObservation(c) ==
    /\ checkIn[c].pc = "begun"
    /\ checkIn[c].agent \in agents
    /\ \A b \in CheckIns : SameKey(b, checkIn[c].agent, checkIn[c].key) =>
            ~(checkIn[b].pc = "inserted" /\ checkIn[b].mine)
    /\ checkIn' = [checkIn EXCEPT ![c].pc = "inserted",
            ![c].mine = Stored(checkIn[c].agent, checkIn[c].key) = {}]
    /\ UNCHANGED <<serverVars, lapsed, exchange, device>>

\* The observation and last_check_in_at commit, and the answer names the
\* received_at that is stored under the key.
CommitCheckIn(c) ==
    LET new == [agent |-> checkIn[c].agent, key |-> checkIn[c].key, received |-> c]
    IN  /\ checkIn[c].pc = "inserted"
        /\ observations' = observations \cup IF checkIn[c].mine THEN {new} ELSE {}
        /\ \E x \in observations' :
              /\ x.agent = checkIn[c].agent
              /\ x.key = checkIn[c].key
              /\ checkIn' = [checkIn EXCEPT ![c].pc = "answered", ![c].receipt = x.received]
        /\ UNCHANGED <<uses, lapsed, agents, exchange, device>>

\* The API process or its connection dies, or the call does.
CrashCheckIn(c) ==
    /\ checkIn[c].pc \in {"begun", "inserted"}
    /\ checkIn' = [checkIn EXCEPT ![c] = [NoCheckIn EXCEPT !.pc = "ended"]]
    /\ UNCHANGED <<serverVars, lapsed, exchange, device>>

-----------------------------------------------------------------------------
ServeExchange(e) == Consume(e) \/ RefuseExchange(e) \/ CommitExchange(e)

ServeCheckIn(c) == InsertObservation(c) \/ CommitCheckIn(c)

Save(d) == Receive(d) \/ Truncate(d) \/ Write(d)

Next ==
    \/ ExpireToken
    \/ \E e \in Exchanges : ServeExchange(e) \/ CrashExchange(e)
    \/ \E d \in Devices :
          \/ \E e \in Exchanges : Enroll(d, e)
          \/ \E c \in CheckIns, k \in Keys : Post(d, c, k)
          \/ Save(d) \/ GiveUp(d) \/ Uninstall(d)
    \/ \E c \in CheckIns : ServeCheckIn(c) \/ CrashCheckIn(c)

Spec == Init /\ [][Next]_vars

\* Handlers and the database make progress; a waiter gets a row, or an index key,
\* that stays free; a collector goes on or gives up.
Fairness ==
    /\ \A e \in Exchanges : WF_vars(ServeExchange(e))
    /\ \A c \in CheckIns : WF_vars(ServeCheckIn(c))
    /\ \A d \in Devices : WF_vars(Save(d))

FairSpec == Spec /\ Fairness

-----------------------------------------------------------------------------
\* Properties

\* "Atomically consume an enrollment use" (automation.py:275): however many calls
\* present the token at once, crash or are repeated because their answer was lost,
\* there is one agent row for each use counted, and never more than allowed.
UsesAreAgents == uses = Cardinality(agents) /\ uses <= MaxUses

\* A credential that reaches a device's file, or is presented at a check-in, is of a
\* committed agent, whatever crashed while it was issued: none is refused.
SavedCredentialAccepted ==
    /\ \A d \in Devices : device[d].file \in agents \cup {Torn, None}
    /\ \A c \in CheckIns : checkIn[c].agent \in agents \cup {None}

\* The registry that the committed rows, the files and the answers stand for.
Credential == [d \in Devices |-> {device[d].file} \cap Exchanges]

Answers ==
    {[call |-> c, observation |-> [agent |-> checkIn[c].agent, key |-> checkIn[c].key,
                                   received |-> checkIn[c].receipt]]
        : c \in {b \in CheckIns : checkIn[b].pc = "answered"}}

Registry == INSTANCE AgentRegistry WITH credential <- Credential, answers <- Answers

\* "Atomically consumes a token use", results come "with an idempotency key"
\* (docs/endpoint-collector.md): however calls overlap, crash and are repeated, each
\* step enlists one agent, saves or loses one credential, that no other device has, or
\* stores an observation and answers one post, or changes nothing of these.
ImplementsRegistry == Registry!Spec

\* Every call ends, and a collector that waits gets an answer or gives up.
CallsEnd ==
    /\ \A e \in Exchanges : exchange[e].pc = "begun" ~> exchange[e].pc \in {"committed", "ended"}
    /\ \A c \in CheckIns : checkIn[c].pc = "begun" ~> checkIn[c].pc \in {"answered", "ended"}
    /\ \A d \in Devices : device[d].pc = "waiting" ~> device[d].pc = "idle"
=============================================================================
