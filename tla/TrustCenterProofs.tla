------------------------- MODULE TrustCenterProofs -------------------------
(***************************************************************************)
(* Theorems about TrustCenter, for any sets of tenants, hostnames and      *)
(* requests and any limit: no hostname shows or is certified for a tenant  *)
(* that does not control it, and a tenant exceeds the limit only by        *)
(* registrations that did not count each other.                            *)
(***************************************************************************)
EXTENDS TrustCenter, FiniteSetTheorems, TLAPS

Open == {"begun", "looking", "answered"}
Registered == {h \in Hostnames : domain[h].status # "absent"}

\* What a request in progress has found about the row it is for.
RequestInv ==
    \A q \in Requests : request[q].pc \in Open =>
        /\ request[q].host \in Hostnames
        /\ request[q].kind \in {"register", "verify", "activate", "disable"}
        /\ request[q].pc = "looking" => request[q].kind \in {"verify", "activate"}
        /\ request[q].kind # "register" =>
              /\ domain[request[q].host].status # "absent"
              /\ domain[request[q].host].tenant = request[q].tenant

\* The row of a hostname has one holder, and is as its statement found it.
LockInv ==
    /\ \A p, q \in Requests :
          /\ request[p].pc \in {"looking", "answered"}
          /\ request[q].pc \in {"looking", "answered"}
          /\ request[p].host = request[q].host
          => p = q
    /\ \A q \in Requests : request[q].pc \in {"looking", "answered"} =>
          IF request[q].kind = "register"
          THEN domain[request[q].host].status = "absent"
          ELSE domain[request[q].host].status \in Found(request[q].kind)

\* A verification that found its record, and every row that was verified, is of
\* the owner of the zone; and so is every page that was read.
OwnerInv ==
    /\ \A q \in Requests : request[q].pc = "answered" /\ request[q].kind = "verify" =>
            request[q].tenant = Owner[request[q].host]
    /\ \A h \in Hostnames : domain[h].status \in {"verified", "active"} =>
            domain[h].tenant = Owner[h]
    /\ \A h \in Hostnames : {answer[h], page[h]} \subseteq {Owner[h], None}

\* A registration counts rows that are there, and fewer than the limit.
Counting(S) == IsFiniteSet(S) /\ S \subseteq Registered /\ Cardinality(S) < Limit

CountInv ==
    /\ IsFiniteSet(Registered)
    /\ \A h \in Hostnames : counted[h] \subseteq Registered
    /\ \A q \in Requests : request[q].pc \in Open /\ request[q].kind = "register" =>
            Counting(request[q].counted)

\* Among more rows of one tenant than the limit, whatever has been disabled since,
\* two did not count each other.
OverlapInv ==
    \A t \in Tenants : \A S \in SUBSET Enabled(t) :
        Cardinality(S) > Limit =>
            \E h, k \in S : h # k /\ h \notin counted[k] /\ k \notin counted[h]

\* The inductive invariant.
IInv == TypeOK /\ RequestInv /\ LockInv /\ OwnerInv /\ CountInv /\ OverlapInv

-----------------------------------------------------------------------------
LEMMA InitInv == Init => IInv
<1>. SUFFICES ASSUME Init PROVE IInv
  OBVIOUS
<1>1. /\ \A h \in Hostnames : domain[h] = [status |-> "absent", tenant |-> None]
      /\ \A q \in Requests : request[q] = Idle
      /\ \A h \in Hostnames : answer[h] = None /\ page[h] = None /\ counted[h] = {}
  BY DEF Init
<1>2. [status |-> "absent", tenant |-> None] \in Domain /\ Idle \in Request
  BY DEF Domain, Idle, Request
<1>3. TypeOK
  BY <1>2 DEF Init, TypeOK
<1>4. Idle.pc = "idle"
  BY DEF Idle
<1>5. RequestInv /\ LockInv
  BY <1>1, <1>4 DEF RequestInv, LockInv, Open
<1>6. OwnerInv
  BY <1>1, <1>4 DEF OwnerInv
<1>7. Registered = {} /\ \A t \in Tenants : Enabled(t) = {}
  BY <1>1 DEF Registered, Enabled
<1>8. IsFiniteSet({}) /\ Cardinality({}) = 0
  BY FS_EmptySet
<1>9. CountInv
  BY <1>1, <1>4, <1>7, <1>8 DEF CountInv, Open
<1>10. OverlapInv
  BY <1>7, <1>8, LimitPositive DEF OverlapInv
<1>. QED
  BY <1>3, <1>5, <1>6, <1>9, <1>10 DEF IInv

-----------------------------------------------------------------------------
\* Steps of a request that leave the rows alone

LEMMA RequestStep ==
    ASSUME IInv, NEW q \in Requests, NEW v \in Request,
           request' = [request EXCEPT ![q] = v],
           UNCHANGED <<domain, published, answer, page, counted>>,
           v.pc \in Open =>
              /\ v.host \in Hostnames
              /\ v.kind \in {"register", "verify", "activate", "disable"}
              /\ v.pc = "looking" => v.kind \in {"verify", "activate"}
              /\ v.kind # "register" => /\ domain[v.host].status # "absent"
                                        /\ domain[v.host].tenant = v.tenant
              /\ v.kind = "register" => Counting(v.counted),
           v.pc \in {"looking", "answered"} =>
              /\ IF v.kind = "register" THEN domain[v.host].status = "absent"
                                        ELSE domain[v.host].status \in Found(v.kind)
              /\ \A p \in Requests \ {q} : request[p].pc \in {"looking", "answered"} =>
                    request[p].host # v.host,
           v.pc = "answered" /\ v.kind = "verify" => v.tenant = Owner[v.host]
    PROVE  IInv'
<1>1. /\ request' \in [Requests -> Request]
      /\ request'[q] = v
      /\ \A p \in Requests \ {q} : request'[p] = request[p]
  BY DEF IInv, TypeOK
<1>2. TypeOK'
  BY <1>1 DEF IInv, TypeOK
<1>3. Registered' = Registered /\ \A t : Enabled(t)' = Enabled(t)
  BY DEF Registered, Enabled
<1>4. RequestInv'
  BY <1>1 DEF IInv, RequestInv
<1>5. LockInv'
  BY <1>1 DEF IInv, LockInv
<1>6. OwnerInv'
  BY <1>1 DEF IInv, OwnerInv
<1>7. CountInv'
  BY <1>1, <1>3 DEF IInv, CountInv, Counting
<1>8. OverlapInv'
  BY <1>3 DEF IInv, OverlapInv
<1>. QED
  BY <1>2, <1>4, <1>5, <1>6, <1>7, <1>8 DEF IInv

LEMMA CountStepInv ==
    ASSUME IInv, NEW q \in Requests, NEW t \in Tenants, NEW h \in Hostnames, Count(q, t, h)
    PROVE  IInv'
<1>. DEFINE v == [pc |-> "begun", kind |-> "register", tenant |-> t, host |-> h,
                  counted |-> Enabled(t)]
<1>1. /\ Cardinality(Enabled(t)) < Limit
      /\ request' = [request EXCEPT ![q] = v]
      /\ UNCHANGED <<domain, published, answer, page, counted>>
  BY DEF Count, Rows, Visits
<1>2. Enabled(t) \subseteq Registered /\ Registered \subseteq Hostnames
  BY DEF Enabled, Registered
<1>3. IsFiniteSet(Enabled(t))
  BY <1>2, FS_Subset DEF IInv, CountInv
<1>4. Counting(Enabled(t))
  BY <1>1, <1>2, <1>3 DEF Counting
<1>5. v \in Request
  BY <1>2 DEF Request
<1>6. /\ v.pc = "begun" /\ v.kind = "register" /\ v.tenant = t /\ v.host = h
      /\ v.counted = Enabled(t)
  OBVIOUS
<1>. HIDE DEF v
<1>. QED
  BY <1>1, <1>4, <1>5, <1>6, RequestStep DEF Open

LEMMA BeginInv ==
    ASSUME IInv, NEW q \in Requests, NEW kind \in {"verify", "activate", "disable"},
           NEW h \in Hostnames, Begin(q, kind, h)
    PROVE  IInv'
<1>. DEFINE v == [pc |-> "begun", kind |-> kind, tenant |-> domain[h].tenant, host |-> h,
                  counted |-> {}]
<1>1. /\ domain[h].status \in Found(kind)
      /\ request' = [request EXCEPT ![q] = v]
      /\ UNCHANGED <<domain, published, answer, page, counted>>
  BY DEF Begin, Rows, Visits
<1>2. domain[h].status # "absent"
  BY <1>1 DEF Found
<1>3. /\ v.pc = "begun" /\ v.kind = kind /\ v.host = h
      /\ v.tenant = domain[h].tenant
  OBVIOUS
<1>4. v \in Request
  BY DEF IInv, TypeOK, Domain, Request
<1>. HIDE DEF v
<1>. QED
  BY <1>1, <1>2, <1>3, <1>4, RequestStep DEF Open

\* A request whose record becomes free, or that crashes.
LEMMA EndInv ==
    ASSUME IInv, NEW q \in Requests,
           Duplicate(q) \/ RefuseChange(q) \/ LookupFails(q) \/ Crash(q)
    PROVE  IInv'
<1>1. PICK v \in Request :
          /\ v.pc \in {"idle", "ended"}
          /\ request' = [request EXCEPT ![q] = v]
          /\ UNCHANGED <<domain, published, answer, page, counted>>
  <2>1. Idle \in Request /\ Idle.pc = "idle"
    BY DEF Idle, Request
  <2>2. [Idle EXCEPT !.pc = "ended"] \in Request /\ [Idle EXCEPT !.pc = "ended"].pc = "ended"
    BY DEF Idle, Request
  <2>3. CASE Duplicate(q) \/ RefuseChange(q) \/ LookupFails(q)
    BY <2>1, <2>3 DEF Duplicate, RefuseChange, LookupFails, Done, Rows, Visits
  <2>4. CASE Crash(q)
    BY <2>2, <2>4 DEF Crash, Rows, Visits
  <2>. QED
    BY <2>3, <2>4
<1>. QED
  BY <1>1, RequestStep DEF Open

\* The statement of a request gets its row.
LEMMA LockStepInv ==
    ASSUME IInv, NEW q \in Requests, NEW pc \in {"looking", "answered"},
           request[q].pc = "begun", ~Busy(request[q].host),
           request' = [request EXCEPT ![q].pc = pc],
           UNCHANGED <<domain, published, answer, page, counted>>,
           IF request[q].kind = "register"
           THEN pc = "answered" /\ domain[request[q].host].status = "absent"
           ELSE domain[request[q].host].status \in Found(request[q].kind),
           pc = "looking" => request[q].kind \in {"verify", "activate"},
           pc = "answered" => request[q].kind # "verify"
    PROVE  IInv'
<1>. DEFINE v == [request[q] EXCEPT !.pc = pc]
<1>1. /\ v \in Request /\ v.pc = pc /\ v.kind = request[q].kind /\ v.host = request[q].host
      /\ v.tenant = request[q].tenant /\ v.counted = request[q].counted
  BY DEF IInv, TypeOK, Request
<1>2. request' = [request EXCEPT ![q] = v]
  OBVIOUS
<1>. HIDE DEF v
<1>3. /\ v.host \in Hostnames
      /\ v.kind \in {"register", "verify", "activate", "disable"}
      /\ v.kind # "register" => /\ domain[v.host].status # "absent"
                                /\ domain[v.host].tenant = v.tenant
      /\ v.kind = "register" => Counting(v.counted)
  BY <1>1 DEF IInv, RequestInv, CountInv, Open
<1>4. \A p \in Requests \ {q} : request[p].pc \in {"looking", "answered"} =>
          request[p].host # v.host
  BY <1>1 DEF Busy
<1>. QED
  BY <1>1, <1>2, <1>3, <1>4, RequestStep

LEMMA InsertInv ==
    ASSUME IInv, NEW q \in Requests, Insert(q)
    PROVE  IInv'
  BY LockStepInv DEF Insert, Answered, Rows, Visits

LEMMA LockForLookupInv ==
    ASSUME IInv, NEW q \in Requests, LockForLookup(q)
    PROVE  IInv'
  BY LockStepInv DEF LockForLookup, Lock, Rows, Visits

LEMMA DisableInv ==
    ASSUME IInv, NEW q \in Requests, Disable(q)
    PROVE  IInv'
  BY LockStepInv DEF Disable, Lock, Answered, Rows, Visits

LEMMA RecordMatchesInv ==
    ASSUME IInv, NEW q \in Requests, RecordMatches(q)
    PROVE  IInv'
<1>. DEFINE v == [request[q] EXCEPT !.pc = "answered"]
<1>1. /\ v \in Request /\ v.pc = "answered" /\ v.kind = request[q].kind
      /\ v.host = request[q].host /\ v.tenant = request[q].tenant
      /\ v.counted = request[q].counted
  BY DEF IInv, TypeOK, Request
<1>2. /\ request[q].pc = "looking"
      /\ request[q].kind = "verify" => request[q].tenant = Owner[request[q].host]
      /\ request' = [request EXCEPT ![q] = v]
      /\ UNCHANGED <<domain, published, answer, page, counted>>
  BY DEF RecordMatches, MayMatch, Answered, Rows, Visits
<1>. HIDE DEF v
<1>3. /\ v.host \in Hostnames
      /\ v.kind \in {"verify", "activate"}
      /\ domain[v.host].status # "absent"
      /\ domain[v.host].tenant = v.tenant
  BY <1>1, <1>2 DEF IInv, RequestInv, Open
<1>4. domain[v.host].status \in Found(v.kind)
  BY <1>1, <1>2, <1>3 DEF IInv, LockInv
<1>5. \A p \in Requests \ {q} : request[p].pc \in {"looking", "answered"} =>
          request[p].host # v.host
  BY <1>1, <1>2 DEF IInv, LockInv
<1>. QED
  BY <1>1, <1>2, <1>3, <1>4, <1>5, RequestStep

-----------------------------------------------------------------------------
\* The commit of a request

\* What it does to the row of its hostname.
LEMMA CommitFacts ==
    ASSUME IInv, NEW q \in Requests, Commit(q)
    PROVE  LET h == request[q].host
               kind == request[q].kind
           IN  /\ h \in Hostnames
               /\ kind \in {"register", "verify", "activate", "disable"}
               /\ domain' \in [Hostnames -> Domain]
               /\ domain'[h].status = Result(kind) /\ domain'[h].tenant = request[q].tenant
               /\ \A k \in Hostnames \ {h} : domain'[k] = domain[k]
               /\ request' \in [Requests -> Request]
               /\ request'[q].pc = "idle"
               /\ \A p \in Requests \ {q} : request'[p] = request[p]
               /\ \A p \in Requests \ {q} :
                     request[p].pc \in {"looking", "answered"} => request[p].host # h
               /\ IF kind = "register"
                  THEN domain[h].status = "absent"
                  ELSE domain[h].tenant = request[q].tenant /\ domain[h].status \in Found(kind)
<1>. DEFINE h == request[q].host
            kind == request[q].kind
            row == [status |-> Result(kind), tenant |-> request[q].tenant]
<1>1. /\ request[q].pc = "answered"
      /\ domain' = [domain EXCEPT ![h] = row]
      /\ request' = [request EXCEPT ![q] = Idle]
  BY DEF Commit, Done
<1>2. h \in Hostnames /\ kind \in {"register", "verify", "activate", "disable"}
  BY <1>1 DEF IInv, RequestInv, Open
<1>3. Result(kind) \in {"pending", "verified", "active", "disabled"}
  BY <1>2 DEF Result
<1>4. row \in Domain /\ row.status = Result(kind) /\ row.tenant = request[q].tenant
  BY <1>3 DEF Domain, IInv, TypeOK, Request
<1>. HIDE DEF row
<1>5. /\ domain' \in [Hostnames -> Domain]
      /\ domain'[h] = row
      /\ \A k \in Hostnames \ {h} : domain'[k] = domain[k]
  BY <1>1, <1>2, <1>4 DEF IInv, TypeOK
<1>6. Idle \in Request /\ Idle.pc = "idle"
  BY DEF Idle, Request
<1>7. /\ request' \in [Requests -> Request]
      /\ request'[q].pc = "idle"
      /\ \A p \in Requests \ {q} : request'[p] = request[p]
  BY <1>1, <1>6 DEF IInv, TypeOK
<1>8. \A p \in Requests \ {q} : request[p].pc \in {"looking", "answered"} => request[p].host # h
  BY <1>1 DEF IInv, LockInv
<1>9. IF kind = "register" THEN domain[h].status = "absent"
      ELSE domain[h].tenant = request[q].tenant /\ domain[h].status \in Found(kind)
  BY <1>1 DEF IInv, LockInv, RequestInv, Open
<1>. QED
  BY <1>2, <1>4, <1>5, <1>7, <1>8, <1>9

LEMMA CommitLockInv ==
    ASSUME IInv, NEW q \in Requests, Commit(q)
    PROVE  RequestInv' /\ LockInv'
<1>1. RequestInv'
  <2>. SUFFICES ASSUME NEW p \in Requests, request'[p].pc \in Open
                PROVE  /\ request'[p].host \in Hostnames
                       /\ request'[p].kind \in {"register", "verify", "activate", "disable"}
                       /\ request'[p].pc = "looking" => request'[p].kind \in {"verify", "activate"}
                       /\ request'[p].kind # "register" =>
                             /\ domain'[request'[p].host].status # "absent"
                             /\ domain'[request'[p].host].tenant = request'[p].tenant
    BY DEF RequestInv, Open
  <2>1. p # q /\ request'[p] = request[p]
    BY CommitFacts DEF Open
  <2>2. CASE request[p].host # request[q].host
    BY <2>1, <2>2, CommitFacts DEF IInv, RequestInv
  <2>3. CASE request[p].host = request[q].host
    <3>1. Result(request[q].kind) # "absent"
      BY CommitFacts DEF Result
    <3>2. CASE request[q].kind = "register"
      BY <2>1, <2>3, <3>1, <3>2, CommitFacts DEF IInv, RequestInv
    <3>3. CASE request[q].kind # "register"
      BY <2>1, <2>3, <3>1, <3>3, CommitFacts DEF IInv, RequestInv
    <3>. QED
      BY <3>2, <3>3
  <2>. QED
    BY <2>2, <2>3
<1>2. LockInv'
  <2>1. \A p \in Requests : request'[p].pc \in {"looking", "answered"} =>
            /\ p # q /\ request'[p] = request[p]
            /\ request[p].host \in Hostnames
            /\ domain'[request[p].host] = domain[request[p].host]
    BY CommitFacts DEF IInv, RequestInv, Open
  <2>. QED
    BY <2>1 DEF IInv, LockInv
<1>. QED
  BY <1>1, <1>2

LEMMA CommitOwnerInv ==
    ASSUME IInv, NEW q \in Requests, Commit(q)
    PROVE  OwnerInv'
<1>1. request[q].pc = "answered" /\ UNCHANGED <<published, answer, page>>
  BY DEF Commit, Visits
<1>2. \A p \in Requests : request'[p].pc = "answered" => request'[p] = request[p]
  BY CommitFacts
<1>3. ASSUME NEW h \in Hostnames, domain'[h].status \in {"verified", "active"}
      PROVE  domain'[h].tenant = Owner[h]
  <2>1. CASE h # request[q].host
    BY <1>3, <2>1, CommitFacts DEF IInv, OwnerInv
  <2>2. CASE h = request[q].host
    <3>1. request[q].kind \in {"verify", "activate"}
      BY <1>3, <2>2, CommitFacts DEF Result
    <3>2. CASE request[q].kind = "verify"
      BY <1>1, <2>2, <3>2, CommitFacts DEF IInv, OwnerInv
    <3>3. CASE request[q].kind = "activate"
      <4>1. domain[h].status = "verified"
        BY <2>2, <3>3, CommitFacts DEF Found
      <4>. QED
        BY <2>2, <3>3, <4>1, CommitFacts DEF IInv, OwnerInv
    <3>. QED
      BY <3>1, <3>2, <3>3
  <2>. QED
    BY <2>1, <2>2
<1>. QED
  BY <1>1, <1>2, <1>3 DEF IInv, OwnerInv

\* A registration that commits stores what it counted; other commits count nothing.
LEMMA CommitCounted ==
    ASSUME IInv, NEW q \in Requests, Commit(q)
    PROVE  LET h == request[q].host
           IN  /\ counted' \in [Hostnames -> SUBSET Hostnames]
               /\ \A k \in Hostnames \ {h} : counted'[k] = counted[k]
               /\ IF request[q].kind = "register"
                  THEN counted'[h] = request[q].counted ELSE counted' = counted
               /\ Registered' = Registered \cup {h}
               /\ request[q].kind = "register" => h \notin Registered
<1>1. /\ request[q].pc = "answered"
      /\ counted' = IF request[q].kind = "register"
                    THEN [counted EXCEPT ![request[q].host] = request[q].counted] ELSE counted
  BY DEF Commit
<1>2. request[q].counted \subseteq Hostnames
  BY DEF IInv, TypeOK, Request
<1>3. Result(request[q].kind) # "absent"
  BY CommitFacts DEF Result
<1>4. Registered' = Registered \cup {request[q].host}
  BY <1>3, CommitFacts DEF Registered
<1>. QED
  BY <1>1, <1>2, <1>4, CommitFacts DEF IInv, TypeOK, Registered

LEMMA CommitCountInv ==
    ASSUME IInv, NEW q \in Requests, Commit(q)
    PROVE  CountInv'
<1>1. IsFiniteSet(Registered')
  BY CommitCounted, FS_AddElement DEF IInv, CountInv
<1>2. request[q].pc = "answered"
  BY DEF Commit
<1>3. request[q].kind = "register" => request[q].counted \subseteq Registered
  BY <1>2 DEF IInv, CountInv, Counting, Open
<1>4. \A h \in Hostnames : counted'[h] \subseteq Registered'
  BY <1>3, CommitCounted, CommitFacts DEF IInv, CountInv
<1>5. ASSUME NEW p \in Requests, request'[p].pc \in Open, request'[p].kind = "register"
      PROVE  /\ IsFiniteSet(request'[p].counted) /\ request'[p].counted \subseteq Registered'
             /\ Cardinality(request'[p].counted) < Limit
  <2>1. request'[p] = request[p]
    BY <1>5, CommitFacts DEF Open
  <2>2. /\ IsFiniteSet(request'[p].counted) /\ request'[p].counted \subseteq Registered
        /\ Cardinality(request'[p].counted) < Limit
    BY <1>5, <2>1 DEF IInv, CountInv, Counting
  <2>. QED
    BY <2>1, <2>2, CommitCounted
<1>. QED
  BY <1>1, <1>4, <1>5 DEF CountInv, Open, Counting

LEMMA CommitOverlapInv ==
    ASSUME IInv, NEW q \in Requests, Commit(q)
    PROVE  OverlapInv'
<1>. DEFINE h == request[q].host
            Overlap(S) == \E j, k \in S : j # k /\ j \notin counted'[k] /\ k \notin counted'[j]
<1>. SUFFICES ASSUME NEW t \in Tenants, NEW S \in SUBSET (Enabled(t)'), Cardinality(S) > Limit
              PROVE  Overlap(S)
  BY DEF OverlapInv
<1>1. ASSUME NEW T \in SUBSET Enabled(t), T \subseteq S, Cardinality(T) > Limit, h \notin T
      PROVE  Overlap(S)
  <2>1. PICK j \in T, k \in T : j # k /\ j \notin counted[k] /\ k \notin counted[j]
    BY <1>1 DEF IInv, OverlapInv
  <2>2. counted'[j] = counted[j] /\ counted'[k] = counted[k]
    BY <1>1, CommitCounted DEF Enabled
  <2>. QED
    BY <1>1, <2>1, <2>2
<1>2. CASE request[q].kind # "register"
  <2>1. \A k \in Enabled(t)' : k \in Enabled(t)
    BY <1>2, CommitFacts DEF Enabled, Found
  <2>2. counted' = counted
    BY <1>2, CommitCounted
  <2>. QED
    BY <2>1, <2>2 DEF IInv, OverlapInv
<1>3. CASE request[q].kind = "register" /\ h \notin S
  <2>1. S \in SUBSET Enabled(t)
    BY <1>3, CommitFacts DEF Enabled
  <2>. QED
    BY <1>1, <1>3, <2>1
<1>4. CASE request[q].kind = "register" /\ h \in S
  <2>. DEFINE T == S \ {h}
  <2>1. T \in SUBSET Enabled(t) /\ T \subseteq Registered
    BY CommitFacts DEF Enabled, Registered
  <2>2. IsFiniteSet(T) /\ Cardinality(T) \in Nat
    BY <2>1, FS_Subset, FS_CardinalityType DEF IInv, CountInv
  <2>3. h \notin T /\ S = T \cup {h}
    BY <1>4
  <2>4. Cardinality(S) = Cardinality(T) + 1
    BY <2>2, <2>3, FS_AddElement
  <2>5. CASE Cardinality(T) > Limit
    BY <1>1, <2>1, <2>3, <2>5
  <2>6. CASE ~(Cardinality(T) > Limit)
    <3>1. Cardinality(T) = Limit
      BY <2>2, <2>4, <2>6, LimitPositive
    <3>2. request[q].pc = "answered"
      BY DEF Commit
    <3>3. Counting(request[q].counted)
      BY <1>4, <3>2 DEF IInv, CountInv, Open
    <3>4. ~(T \subseteq request[q].counted)
      BY <2>2, <3>1, <3>3, LimitPositive, FS_Subset, FS_CardinalityType DEF Counting
    <3>5. PICK k \in T : k \notin request[q].counted
      BY <3>4
    <3>6. k \in Hostnames \ {h} /\ counted'[k] = counted[k] /\ counted'[h] = request[q].counted
      BY <1>4, <2>1, CommitCounted DEF Enabled
    <3>7. h \notin counted'[k]
      BY <1>4, <3>6, CommitCounted DEF IInv, CountInv
    <3>. QED
      BY <1>4, <3>5, <3>6, <3>7
  <2>. QED
    BY <2>5, <2>6
<1>. QED
  BY <1>2, <1>3, <1>4

LEMMA CommitInv ==
    ASSUME IInv, NEW q \in Requests, Commit(q)
    PROVE  IInv'
<1>1. UNCHANGED <<published, answer, page>>
  BY DEF Commit, Visits
<1>2. TypeOK'
  BY <1>1, CommitFacts, CommitCounted DEF IInv, TypeOK
<1>. QED
  BY <1>2, CommitLockInv, CommitOwnerInv, CommitCountInv, CommitOverlapInv DEF IInv

-----------------------------------------------------------------------------
\* Pages and profiles: the rows of the domains and the requests stay as they are

LEMMA PageInv ==
    ASSUME IInv, UNCHANGED <<domain, request, counted>>, published' \subseteq Tenants,
           answer' \in [Hostnames -> Tenants \cup {None}],
           page' \in [Hostnames -> Tenants \cup {None}],
           \A h \in Hostnames : {answer'[h], page'[h]} \subseteq {Owner[h], None}
    PROVE  IInv'
<1>1. TypeOK' /\ RequestInv' /\ LockInv'
  BY DEF IInv, TypeOK, RequestInv, LockInv
<1>2. OwnerInv'
  BY DEF IInv, OwnerInv
<1>3. Registered' = Registered /\ \A t : Enabled(t)' = Enabled(t)
  BY DEF Registered, Enabled
<1>4. CountInv'
  BY <1>3 DEF IInv, CountInv, Counting
<1>5. OverlapInv'
  BY <1>3 DEF IInv, OverlapInv
<1>. QED
  BY <1>1, <1>2, <1>4, <1>5 DEF IInv

LEMMA SaveProfileInv ==
    ASSUME IInv, NEW t \in Tenants, SaveProfile(t)
    PROVE  IInv'
<1>1. published' \subseteq Tenants /\ UNCHANGED <<domain, request, counted, answer, page>>
  BY DEF SaveProfile, Visits, IInv, TypeOK
<1>2. /\ answer' \in [Hostnames -> Tenants \cup {None}]
      /\ page' \in [Hostnames -> Tenants \cup {None}]
      /\ \A h \in Hostnames : {answer'[h], page'[h]} \subseteq {Owner[h], None}
  BY <1>1 DEF IInv, TypeOK, OwnerInv
<1>. QED
  BY <1>1, <1>2, PageInv

LEMMA VisitInv ==
    ASSUME IInv, NEW h \in Hostnames, Visit(h) \/ Cache(h) \/ ExpirePage(h)
    PROVE  IInv'
<1>1. UNCHANGED <<domain, request, counted, published>> /\ published \subseteq Tenants
  BY DEF Visit, Cache, ExpirePage, Rows, IInv, TypeOK
<1>2. Routed(h) \in {Owner[h], None} /\ Routed(h) \in Tenants \cup {None}
  BY DEF Routed, IInv, TypeOK, OwnerInv
<1>3. /\ answer \in [Hostnames -> Tenants \cup {None}]
      /\ page \in [Hostnames -> Tenants \cup {None}]
      /\ \A k \in Hostnames : answer[k] \in {Owner[k], None} /\ page[k] \in {Owner[k], None}
  BY DEF IInv, TypeOK, OwnerInv
<1>4. /\ answer' \in [Hostnames -> Tenants \cup {None}]
      /\ page' \in [Hostnames -> Tenants \cup {None}]
      /\ \A k \in Hostnames : answer'[k] \in {Owner[k], None} /\ page'[k] \in {Owner[k], None}
  <2>1. CASE Visit(h)
    BY <1>2, <1>3, <2>1 DEF Visit
  <2>2. CASE Cache(h)
    BY <1>3, <2>2 DEF Cache
  <2>3. CASE ExpirePage(h)
    BY <1>3, <2>3 DEF ExpirePage
  <2>. QED
    BY <2>1, <2>2, <2>3
<1>. QED
  BY <1>1, <1>4, PageInv

-----------------------------------------------------------------------------
LEMMA NextInv == IInv /\ [Next]_vars => IInv'
<1>. SUFFICES ASSUME IInv, [Next]_vars PROVE IInv'
  OBVIOUS
<1>1. CASE UNCHANGED vars
  <2>1. UNCHANGED <<domain, request, counted, published, answer, page>>
    BY <1>1 DEF vars
  <2>2. /\ published' \subseteq Tenants
        /\ answer' \in [Hostnames -> Tenants \cup {None}]
        /\ page' \in [Hostnames -> Tenants \cup {None}]
        /\ \A h \in Hostnames : {answer'[h], page'[h]} \subseteq {Owner[h], None}
    BY <2>1 DEF IInv, TypeOK, OwnerInv
  <2>. QED
    BY <2>1, <2>2, PageInv
<1>2. ASSUME NEW q \in Requests, NEW t \in Tenants, NEW h \in Hostnames, Count(q, t, h)
      PROVE  IInv'
  BY <1>2, CountStepInv
<1>3. ASSUME NEW q \in Requests, NEW kind \in {"verify", "activate", "disable"},
             NEW h \in Hostnames, Begin(q, kind, h)
      PROVE  IInv'
  BY <1>3, BeginInv
<1>4. ASSUME NEW q \in Requests, Serve(q) \/ Crash(q)
      PROVE  IInv'
  BY <1>4, InsertInv, LockForLookupInv, DisableInv, RecordMatchesInv, EndInv, CommitInv
     DEF Serve, GetRow
<1>5. ASSUME NEW t \in Tenants, SaveProfile(t)
      PROVE  IInv'
  BY <1>5, SaveProfileInv
<1>6. ASSUME NEW h \in Hostnames, Visit(h) \/ Cache(h) \/ ExpirePage(h)
      PROVE  IInv'
  BY <1>6, VisitInv
<1>. QED
  BY <1>1, <1>2, <1>3, <1>4, <1>5, <1>6 DEF Next

\* In every reachable state the inductive invariant holds.
THEOREM Inductive == Spec => []IInv
<1>. QED
  BY InitInv, NextInv, PTL DEF Spec

\* Every variable keeps its type.
THEOREM TypeCorrect == Spec => []TypeOK
<1>1. IInv => TypeOK
  BY DEF IInv
<1>. QED
  BY <1>1, Inductive, PTL

\* No hostname shows, or is certified for, a tenant that does not control its zone.
THEOREM OwnerAlwaysRouted == Spec => []OwnerRouted
<1>1. IInv => OwnerRouted
  <2>. SUFFICES ASSUME IInv, NEW h \in Hostnames
                PROVE  {answer[h], page[h]} \cup Authorized(h) \subseteq {Owner[h], None}
    BY DEF OwnerRouted
  <2>1. \A t \in Authorized(h) : t = Owner[h]
    BY DEF Authorized, IInv, OwnerInv
  <2>. QED
    BY <2>1 DEF IInv, OwnerInv
<1>. QED
  BY <1>1, Inductive, PTL

\* A tenant has more enabled domains than the limit only where two of them were
\* registered together.
THEOREM LimitAlwaysUnlessOverlapping == Spec => []LimitUnlessOverlapping
<1>1. IInv => LimitUnlessOverlapping
  BY DEF IInv, OverlapInv, LimitUnlessOverlapping
<1>. QED
  BY <1>1, Inductive, PTL

-----------------------------------------------------------------------------
\* The custom domains implement the registry of hostnames

\* Requests in progress, and rows that are there, are of a tenant.
TenantInv ==
    /\ \A q \in Requests : request[q].pc \in Open => request[q].tenant \in Tenants
    /\ \A h \in Hostnames : domain[h].status # "absent" => domain[h].tenant \in Tenants

LEMMA TenantInit == Init => TenantInv
  BY DEF Init, Idle, TenantInv, Open

\* Only a registration brings in a tenant; the others have the one of their row.
LEMMA TenantNext == IInv /\ TenantInv /\ [Next]_vars => TenantInv'
<1>. SUFFICES ASSUME IInv, TenantInv, [Next]_vars PROVE TenantInv'
  OBVIOUS
<1>. USE DEF TenantInv
<1>1. ASSUME NEW q \in Requests, UNCHANGED domain,
             \A p \in Requests \ {q} : request'[p] = request[p],
             request'[q].pc \in Open => request'[q].tenant \in Tenants
      PROVE  TenantInv'
  BY <1>1
<1>2. request \in [Requests -> Request] /\ domain \in [Hostnames -> Domain]
  BY DEF IInv, TypeOK
<1>3. CASE UNCHANGED <<domain, request>>
  BY <1>3
<1>4. ASSUME NEW q \in Requests, NEW t \in Tenants, NEW h \in Hostnames, Count(q, t, h)
      PROVE  TenantInv'
  BY <1>1, <1>2, <1>4 DEF Count, Rows
<1>5. ASSUME NEW q \in Requests, NEW kind \in {"verify", "activate", "disable"},
             NEW h \in Hostnames, Begin(q, kind, h)
      PROVE  TenantInv'
  BY <1>1, <1>2, <1>5 DEF Begin, Rows, Found
<1>6. ASSUME NEW q \in Requests,
             \/ Insert(q) \/ Duplicate(q) \/ GetRow(q) \/ RecordMatches(q)
             \/ LookupFails(q) \/ Crash(q)
      PROVE  TenantInv'
  <2>1. request[q] \in Request /\ Idle \in Request /\ Idle.pc = "idle"
    BY <1>2 DEF Idle, Request
  <2>2. /\ UNCHANGED domain
        /\ \/ request[q].pc \in Open /\ \E pc \in Open : request' = [request EXCEPT ![q].pc = pc]
           \/ \E pc \in {"idle", "ended"} : request' = [request EXCEPT ![q] = [Idle EXCEPT !.pc = pc]]
    <3>1. CASE Insert(q) \/ LockForLookup(q) \/ Disable(q) \/ RecordMatches(q)
      BY <3>1 DEF Insert, LockForLookup, Disable, RecordMatches, Lock, Answered, Rows, Open
    <3>2. CASE Duplicate(q) \/ RefuseChange(q) \/ LookupFails(q)
      <4>1. request' = [request EXCEPT ![q] = Idle] /\ UNCHANGED domain
        BY <3>2 DEF Duplicate, RefuseChange, LookupFails, Done, Rows
      <4>2. Idle = [Idle EXCEPT !.pc = "idle"]
        BY DEF Idle
      <4>. QED
        BY <4>1, <4>2
    <3>3. CASE Crash(q)
      BY <3>3 DEF Crash, Rows
    <3>. QED
      BY <1>6, <3>1, <3>2, <3>3 DEF GetRow
  <2>3. CASE \E pc \in Open : request' = [request EXCEPT ![q].pc = pc]
    BY <1>1, <1>2, <2>1, <2>2, <2>3 DEF Request, Open
  <2>4. CASE \E pc \in {"idle", "ended"} : request' = [request EXCEPT ![q] = [Idle EXCEPT !.pc = pc]]
    <3>1. request'[q].pc \notin Open /\ \A p \in Requests \ {q} : request'[p] = request[p]
      BY <1>2, <2>1, <2>4 DEF Request, Open
    <3>. QED
      BY <1>1, <2>2, <3>1
  <2>. QED
    BY <2>2, <2>3, <2>4
<1>7. ASSUME NEW q \in Requests, Commit(q)
      PROVE  TenantInv'
  <2>1. request[q].tenant \in Tenants
    BY <1>7 DEF Commit, Open
  <2>. QED
    BY <1>7, <2>1, CommitFacts DEF Open
<1>8. ASSUME NEW h \in Hostnames, Visit(h) \/ Cache(h) \/ ExpirePage(h)
      PROVE  TenantInv'
  BY <1>3, <1>8 DEF Visit, Cache, ExpirePage, Rows
<1>. QED
  BY <1>3, <1>4, <1>5, <1>6, <1>7, <1>8 DEF Next, Serve, SaveProfile, vars

\* The row of a hostname is written: a step of the registry.
LEMMA CommitMoves ==
    ASSUME IInv, TenantInv, NEW q \in Requests, Commit(q)
    PROVE  [Registry!Next]_(Registry!registryVars)
<1>. DEFINE h == request[q].host
            kind == request[q].kind
<1>1. /\ request[q].pc = "answered"
      /\ UNCHANGED <<published, answer, page>>
      /\ domain' = [domain EXCEPT ![h] = [status |-> Result(kind), tenant |-> request[q].tenant]]
  BY DEF Commit, Visits
<1>2. UNCHANGED <<published, Showing>>
  BY <1>1 DEF Showing
<1>3. /\ h \in Hostnames /\ request[q].tenant \in Tenants /\ domain \in [Hostnames -> Domain]
      /\ kind \in {"register", "verify", "activate", "disable"}
  BY <1>1, CommitFacts DEF TenantInv, Open, IInv, TypeOK
<1>4. CASE kind = "register"
  <2>1. domain[h].status = "absent"
    BY <1>4, CommitFacts
  <2>2. Registry!Claim(h, request[q].tenant)
    BY <1>1, <1>2, <1>4, <2>1 DEF Registry!Claim, Result
  <2>. QED
    BY <1>3, <2>2 DEF Registry!Next
<1>5. CASE kind # "register"
  <2>1. domain[h].tenant = request[q].tenant /\ domain[h].status \in Found(kind)
    BY <1>5, CommitFacts
  <2>2. domain' = [domain EXCEPT ![h].status = Result(kind)]
    BY <1>1, <1>3, <2>1 DEF Domain
  <2>3. CASE domain[h].status = Result(kind)
    <3>1. domain' = domain
      BY <1>3, <2>2, <2>3 DEF Domain
    <3>. QED
      BY <1>2, <3>1 DEF Registry!registryVars
  <2>4. CASE domain[h].status # Result(kind)
    <3>1. kind = "verify" => domain[h].tenant = Owner[h] /\ domain[h].status = "pending"
      BY <1>1, <2>1, <2>4 DEF Found, Result, IInv, OwnerInv
    <3>2. Registry!Verify(h) \/ Registry!Activate(h) \/ Registry!GiveUp(h)
      BY <1>2, <1>3, <1>5, <2>1, <2>2, <3>1
         DEF Registry!Verify, Registry!Activate, Registry!GiveUp, Registry!Move, Found, Result
    <3>. QED
      BY <1>3, <3>2 DEF Registry!Next
  <2>. QED
    BY <2>3, <2>4
<1>. QED
  BY <1>4, <1>5

\* A page is read, kept or dropped.
LEMMA PageMoves ==
    ASSUME IInv, NEW h \in Hostnames, Visit(h) \/ Cache(h) \/ ExpirePage(h)
    PROVE  [Registry!Next]_(Registry!registryVars)
<1>1. /\ UNCHANGED <<domain, published>> /\ published \subseteq Tenants
      /\ answer \in [Hostnames -> Tenants \cup {None}] /\ page \in [Hostnames -> Tenants \cup {None}]
  BY DEF Visit, Cache, ExpirePage, Rows, IInv, TypeOK
<1>2. \A k \in Hostnames : answer[k] \in {Owner[k], None} /\ page[k] \in {Owner[k], None}
  BY DEF IInv, OwnerInv
<1>3. Owner[h] \in Tenants /\ Owner[h] # None
  BY ZonesOwned, NobodyIsATenant
<1>4. ASSUME NEW S, \A k \in Hostnames : {answer'[k], page'[k]} \ {None} = IF k = h THEN S ELSE Showing[k]
      PROVE  Showing' = [Showing EXCEPT ![h] = S]
  BY <1>4 DEF Showing
<1>5. CASE Visit(h)
  <2>1. /\ domain[h].status = "active" /\ domain[h].tenant \in published
        /\ answer[h] = None /\ UNCHANGED page
        /\ answer' = [answer EXCEPT ![h] = domain[h].tenant]
    BY <1>5 DEF Visit, Routed
  <2>2. \A k \in Hostnames : {answer'[k], page'[k]} \ {None} =
            IF k = h THEN Showing[h] \cup {domain[h].tenant} ELSE Showing[k]
    BY <1>1, <2>1, NobodyIsATenant DEF Showing
  <2>3. Showing' = [Showing EXCEPT ![h] = Showing[h] \cup {domain[h].tenant}]
    BY <1>4, <2>2
  <2>4. Registry!Show(h)
    BY <1>1, <2>1, <2>3 DEF Registry!Show
  <2>. QED
    BY <2>4 DEF Registry!Next
<1>6. CASE Cache(h)
  <2>1. /\ answer[h] # None
        /\ page' = [page EXCEPT ![h] = answer[h]] /\ answer' = [answer EXCEPT ![h] = None]
    BY <1>6 DEF Cache
  <2>2. Showing' = Showing
    BY <1>1, <1>2, <2>1 DEF Showing
  <2>. QED
    BY <1>1, <2>2 DEF Registry!registryVars
<1>7. CASE ExpirePage(h)
  <2>1. page[h] = Owner[h] /\ page' = [page EXCEPT ![h] = None] /\ UNCHANGED answer
    BY <1>2, <1>7 DEF ExpirePage
  <2>2. CASE answer[h] = page[h]
    <3>1. Showing' = Showing
      BY <1>1, <2>1, <2>2 DEF Showing
    <3>. QED
      BY <1>1, <3>1 DEF Registry!registryVars
  <2>3. CASE answer[h] # page[h]
    <3>1. \A k \in Hostnames : {answer'[k], page'[k]} \ {None} =
              IF k = h THEN Showing[h] \ {Owner[h]} ELSE Showing[k]
      BY <1>1, <2>1, <2>3 DEF Showing
    <3>2. Showing' = [Showing EXCEPT ![h] = Showing[h] \ {Owner[h]}]
      BY <1>4, <3>1
    <3>3. Registry!Fade(h, Owner[h])
      BY <1>1, <3>2 DEF Registry!Fade
    <3>. QED
      BY <1>3, <3>3 DEF Registry!Next
  <2>. QED
    BY <2>2, <2>3
<1>. QED
  BY <1>5, <1>6, <1>7

LEMMA RegistryNext == IInv /\ TenantInv /\ [Next]_vars => [Registry!Next]_(Registry!registryVars)
<1>. SUFFICES ASSUME IInv, TenantInv, [Next]_vars PROVE [Registry!Next]_(Registry!registryVars)
  OBVIOUS
<1>1. CASE UNCHANGED <<domain, published, answer, page>>
  BY <1>1 DEF Registry!registryVars, Showing
<1>2. ASSUME NEW q \in Requests, Commit(q)
      PROVE  [Registry!Next]_(Registry!registryVars)
  BY <1>2, CommitMoves
<1>3. ASSUME NEW h \in Hostnames, Visit(h) \/ Cache(h) \/ ExpirePage(h)
      PROVE  [Registry!Next]_(Registry!registryVars)
  BY <1>3, PageMoves
<1>4. ASSUME NEW t \in Tenants, SaveProfile(t)
      PROVE  [Registry!Next]_(Registry!registryVars)
  <2>1. UNCHANGED <<domain, Showing>>
    BY <1>4 DEF SaveProfile, Visits, Showing
  <2>2. Registry!Publish(t)
    BY <1>4, <2>1 DEF SaveProfile, Registry!Publish
  <2>. QED
    BY <2>2 DEF Registry!Next
<1>5. ASSUME NEW q \in Requests,
             \/ \E t \in Tenants, h \in Hostnames : Count(q, t, h)
             \/ \E kind \in {"verify", "activate", "disable"}, h \in Hostnames : Begin(q, kind, h)
             \/ Insert(q) \/ Duplicate(q) \/ GetRow(q)
             \/ RecordMatches(q) \/ LookupFails(q) \/ Crash(q)
      PROVE  UNCHANGED <<domain, published, answer, page>>
  BY <1>5 DEF Count, Begin, Insert, Duplicate, GetRow, LockForLookup, Disable, Lock,
              RefuseChange, RecordMatches, LookupFails, Crash, Rows, Visits
<1>. QED
  BY <1>1, <1>2, <1>3, <1>4, <1>5 DEF Next, Serve, vars

\* Whatever requests wait, look up and crash together, every step is one of the
\* registry's or a stutter: a hostname is claimed once, verified for its owner
\* alone, shown from an active claim only, and never taken up again once disabled.
THEOREM Implements == Spec => ImplementsRegistry
<1>1. Init => Registry!Init
  BY DEF Init, Registry!Init, Showing
<1>. QED
  BY <1>1, InitInv, NextInv, TenantInit, TenantNext, RegistryNext, PTL
     DEF Spec, ImplementsRegistry, Registry!Spec

\* A hostname that was disabled, and of which no page is under way or cached.
Dark(h) == domain[h].status = "disabled" /\ Showing[h] = {}

\* Once dark, a hostname stays dark: no request that found the row before, and no
\* answer that was late, makes it show or be certified again.  And a hostname
\* that was claimed once never passes to another tenant.
StaysDark == [][\A h \in Hostnames :
                   /\ Dark(h) => Dark(h)' /\ Authorized(h)' = {}
                   /\ domain[h].status # "absent" => domain'[h].tenant = domain[h].tenant]_vars

\* The safety part of HostGoesDark, from the registry alone.
THEOREM DarkForGood == Spec => StaysDark
<1>1. IInv /\ [Registry!Next]_(Registry!registryVars) =>
          \A h \in Hostnames :
              /\ Dark(h) => Dark(h)' /\ Authorized(h)' = {}
              /\ domain[h].status # "absent" => domain'[h].tenant = domain[h].tenant
  <2>. SUFFICES ASSUME IInv, [Registry!Next]_(Registry!registryVars), NEW h \in Hostnames
                PROVE  /\ Dark(h) => Dark(h)' /\ Authorized(h)' = {}
                       /\ domain[h].status # "absent" => domain'[h].tenant = domain[h].tenant
    OBVIOUS
  <2>1. domain \in [Hostnames -> Domain]
    BY DEF IInv, TypeOK
  <2>2. /\ domain[h].status # "absent" => domain'[h].tenant = domain[h].tenant
        /\ domain[h].status = "disabled" => domain'[h].status = "disabled"
        /\ domain[h].status = "disabled" => Showing'[h] \subseteq Showing[h]
    <3>1. CASE UNCHANGED Registry!registryVars
      BY <3>1 DEF Registry!registryVars
    <3>2. ASSUME NEW k \in Hostnames, NEW t \in Tenants, Registry!Claim(k, t) \/ Registry!Fade(k, t)
          PROVE  <2>2
      BY <2>1, <3>2 DEF Registry!Claim, Registry!Fade, Domain, Showing
    <3>3. ASSUME NEW k \in Hostnames, Registry!Verify(k) \/ Registry!Activate(k) \/ Registry!GiveUp(k)
          PROVE  <2>2
      <4>1. /\ UNCHANGED Showing
            /\ \E to \in {"verified", "active", "disabled"} :
                  /\ domain' = [domain EXCEPT ![k].status = to]
                  /\ domain[k].status = "disabled" => to = "disabled"
        BY <3>3 DEF Registry!Verify, Registry!Activate, Registry!GiveUp, Registry!Move
      <4>. QED
        BY <2>1, <4>1 DEF Domain
    <3>4. ASSUME NEW k \in Hostnames, Registry!Show(k)
          PROVE  <2>2
      <4>1. /\ UNCHANGED domain /\ domain[k].status = "active"
            /\ Showing' = [Showing EXCEPT ![k] = Showing[k] \cup {domain[k].tenant}]
        BY <3>4 DEF Registry!Show
      <4>2. k # h => Showing'[h] = Showing[h]
        BY <4>1 DEF Showing
      <4>. QED
        BY <4>1, <4>2
    <3>5. ASSUME NEW t \in Tenants, Registry!Publish(t)
          PROVE  <2>2
      BY <3>5 DEF Registry!Publish
    <3>. QED
      BY <3>1, <3>2, <3>3, <3>4, <3>5 DEF Registry!Next
  <2>3. Dark(h) => Dark(h)'
    BY <2>2 DEF Dark
  <2>4. Dark(h)' => Authorized(h)' = {}
    BY DEF Dark, Authorized
  <2>. QED
    BY <2>2, <2>3, <2>4
<1>2. IInv /\ TenantInv /\ [Next]_vars =>
          [\A h \in Hostnames :
              /\ Dark(h) => Dark(h)' /\ Authorized(h)' = {}
              /\ domain[h].status # "absent" => domain'[h].tenant = domain[h].tenant]_vars
  BY <1>1, RegistryNext
<1>. QED
  BY <1>2, InitInv, NextInv, TenantInit, TenantNext, PTL DEF Spec, StaysDark
=============================================================================
