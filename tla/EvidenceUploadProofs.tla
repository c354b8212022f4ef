------------------------ MODULE EvidenceUploadProofs ------------------------
(***************************************************************************)
(* Theorems about EvidenceUpload, for any sets of uploads, requests,       *)
(* bodies, users and policies: what evidence is, the ledger it implements, *)
(* and that it never changes.                                              *)
(***************************************************************************)
EXTENDS EvidenceUpload, TLAPS

LEMMA InitType == Init => TypeOK
  BY DefaultPolicy DEF Init, TypeOK, NoSession, Session, IdleRequest, Request,
                       SessionStatus, Steps, Answers

\* Changing the control state of a request, its inspected object or its answer
\* yields a request.
LEMMA RequestFields ==
    ASSUME NEW q \in Request, NEW s \in Steps, NEW x \in Object \cup {None},
           NEW a \in Answers
    PROVE  /\ [q EXCEPT !.pc = s] \in Request
           /\ [q EXCEPT !.pc = s, !.seen = x] \in Request
           /\ [q EXCEPT !.pc = s, !.answer = a] \in Request
  BY DEF Request

\* The steps of a request that change its record only by these fields.
LEMMA RequestStep ==
    ASSUME TypeOK, NEW r \in Requests, NEW s \in Steps,
           NEW x \in Object \cup {None}, NEW a \in Answers,
           \/ req' = [req EXCEPT ![r].pc = s]
           \/ req' = [req EXCEPT ![r].pc = s, ![r].seen = x]
           \/ req' = [req EXCEPT ![r].pc = s, ![r].answer = a]
    PROVE  req' \in [Requests -> Request]
  <1>1. req[r] \in Request
    BY DEF TypeOK
  <1>2. /\ [req[r] EXCEPT !.pc = s] \in Request
        /\ [req[r] EXCEPT !.pc = s, !.seen = x] \in Request
        /\ [req[r] EXCEPT !.pc = s, !.answer = a] \in Request
    BY <1>1, RequestFields
  <1> QED
    BY <1>2 DEF TypeOK

LEMMA EndType ==
    ASSUME TypeOK, NEW r \in Requests, NEW a \in Answers, End(r, a)
    PROVE  /\ req' \in [Requests -> Request]
           /\ rowLock' \in [Uploads -> Requests \cup {None}]
  BY DefaultPolicy DEF TypeOK, End, Ended, IdleRequest, Request, Steps

\* The parts of the inductive invariant, as facts about one request.
LEMMA RequestFacts ==
    ASSUME IInv, NEW r \in Requests
    PROVE  /\ req[r] \in Request
           /\ objects[r] \in Object \cup {None}
           /\ Active(r) => /\ req[r].upload \in Uploads
                           /\ objects[req[r].upload] \in Object \cup {None}
                           /\ Visible(req[r].upload)
                           /\ sessions[req[r].upload] \in Session
                           /\ sessions[req[r].upload].claim \in Bodies
                           /\ sessions[req[r].upload].creator \in Users
  BY DEF IInv, TypeOK, ClaimInv, LockInv, Visible

-----------------------------------------------------------------------------
\* Steps of the clients, of time and of the tenant's administrators

LEMMA CreateUploadInv ==
    ASSUME IInv, NEW u \in Uploads, NEW w \in Users, NEW b \in Bodies,
           CreateUpload(u, w, b)
    PROVE  IInv'
  <1>1. /\ sessions' \in [Uploads -> Session]
        /\ sessions'[u].status = "answered"
        /\ sessions'[u].claim = b
        /\ sessions'[u].creator = w
        /\ \A v \in Uploads : v # u => sessions'[v] = sessions[v]
        /\ sessions[u].status = "absent"
    BY DEF CreateUpload, IInv, TypeOK, Session, SessionStatus
  <1>2. UNCHANGED <<expired, evidence, objects, policy, rowLock, req>>
    BY DEF CreateUpload
  <1>3. TypeOK'
    BY <1>1, <1>2 DEF IInv, TypeOK
  <1>4. ClaimInv'
    BY <1>1, <1>2 DEF IInv, ClaimInv
  <1>5. LockInv'
    BY <1>1, <1>2 DEF IInv, LockInv, Active, Visible
  <1>6. \A r \in Requests : Active(r) => sessions'[req[r].upload] = sessions[req[r].upload]
    BY <1>1 DEF IInv, LockInv, Visible
  <1>7. WorkInv'
    BY <1>2, <1>6 DEF IInv, WorkInv, Preserved, Matches, Active, Holding
  <1>8. StagingInv'
    BY <1>2 DEF IInv, StagingInv
  <1>9. RowInv'
    <2>1. \A r \in Requests : evidence[r] # None =>
            evidence[r].upload \in Uploads /\ evidence[r].upload # u
      BY <1>1, NoneIsFresh DEF IInv, RowInv, TypeOK, Evidence
    <2> QED
      BY <1>1, <1>2, <2>1 DEF IInv, RowInv, Matches
  <1> QED
    BY <1>3, <1>4, <1>5, <1>7, <1>8, <1>9 DEF IInv

LEMMA CommitUploadInv ==
    ASSUME IInv, NEW u \in Uploads, CommitUpload(u)
    PROVE  IInv'
  <1>1. /\ sessions' \in [Uploads -> Session]
        /\ sessions'[u].status \in {"pending", "lost"}
        /\ sessions'[u].claim = sessions[u].claim
        /\ sessions'[u].creator = sessions[u].creator
        /\ \A v \in Uploads : v # u => sessions'[v] = sessions[v]
        /\ sessions[u].status = "answered"
    BY DEF CommitUpload, IInv, TypeOK, Session, SessionStatus
  <1>2. UNCHANGED <<expired, evidence, objects, policy, rowLock, req>>
    BY DEF CommitUpload
  <1>3. TypeOK'
    BY <1>1, <1>2 DEF IInv, TypeOK
  <1>4. ClaimInv'
    BY <1>1, <1>2 DEF IInv, ClaimInv
  <1>5. LockInv'
    BY <1>1, <1>2 DEF IInv, LockInv, Active, Visible
  <1>6. \A r \in Requests : Active(r) => sessions'[req[r].upload] = sessions[req[r].upload]
    BY <1>1 DEF IInv, LockInv, Visible
  <1>7. WorkInv'
    BY <1>2, <1>6 DEF IInv, WorkInv, Preserved, Matches, Active, Holding
  <1>8. StagingInv'
    BY <1>2 DEF IInv, StagingInv
  <1>9. RowInv'
    <2>1. \A r \in Requests : evidence[r] # None =>
            evidence[r].upload \in Uploads /\ evidence[r].upload # u
      BY <1>1, NoneIsFresh DEF IInv, RowInv, TypeOK, Evidence
    <2> QED
      BY <1>1, <1>2, <2>1 DEF IInv, RowInv, Matches
  <1> QED
    BY <1>3, <1>4, <1>5, <1>7, <1>8, <1>9 DEF IInv

LEMMA ExpireInv ==
    ASSUME IInv, NEW u \in Uploads, Expire(u)
    PROVE  IInv'
  BY DEF Expire, IInv, TypeOK, ClaimInv, LockInv, WorkInv, StagingInv, RowInv,
         Active, Preserved, Visible, Matches

LEMMA SetRetentionPolicyInv ==
    ASSUME IInv, NEW w \in Users, NEW p \in Policies, SetRetentionPolicy(w, p)
    PROVE  IInv'
  BY DEF SetRetentionPolicy, IInv, TypeOK, ClaimInv, LockInv, WorkInv,
         StagingInv, RowInv, Active, Preserved, Visible, Matches

\* A client only reaches the staging key: final objects keep their content.
LEMMA PutStagedInv ==
    ASSUME IInv, NEW u \in Uploads, PutStaged(u)
    PROVE  IInv'
  <1>1. /\ objects' \in [Uploads \cup Requests -> Object \cup {None}]
        /\ objects'[u].lock = Unlocked
        /\ \A k \in Uploads \cup Requests : k # u => objects'[k] = objects[k]
    BY DefaultPolicy DEF PutStaged, IInv, TypeOK, Object
  <1>2. UNCHANGED <<sessions, expired, evidence, policy, rowLock, req>>
    BY DEF PutStaged
  <1>3. \A r \in Requests : objects'[r] = objects[r]
    BY <1>1, KeysDisjoint
  <1>4. TypeOK' /\ ClaimInv' /\ LockInv'
    BY <1>1, <1>2 DEF IInv, TypeOK, ClaimInv, LockInv, Active, Visible
  <1>5. WorkInv'
    BY <1>2, <1>3 DEF IInv, WorkInv, Preserved, Matches
  <1>6. StagingInv'
    BY <1>1 DEF IInv, StagingInv
  <1>7. RowInv'
    BY <1>2, <1>3 DEF IInv, RowInv, Matches
  <1> QED
    BY <1>4, <1>5, <1>6, <1>7 DEF IInv

-----------------------------------------------------------------------------
\* Steps of a completion

LEMMA EndFacts ==
    ASSUME IInv, NEW r \in Requests, NEW a \in Answers, End(r, a)
    PROVE  /\ req' \in [Requests -> Request]
           /\ rowLock' \in [Uploads -> Requests \cup {None}]
           /\ req'[r].pc = "done"
           /\ \A s \in Requests : s # r => req'[s] = req[s]
           /\ \A u \in Uploads :
                rowLock'[u] = IF rowLock[u] = r THEN None ELSE rowLock[u]
  <1>1. /\ req' \in [Requests -> Request]
        /\ rowLock' \in [Uploads -> Requests \cup {None}]
    BY EndType DEF IInv
  <1>2. req'[r] = Ended(req[r].upload, a)
    BY DEF End, IInv, TypeOK
  <1>3. req'[r].pc = "done"
    BY <1>2 DEF Ended, IdleRequest
  <1> QED
    BY <1>1, <1>3 DEF End, IInv, TypeOK

\* A transaction that ends without committing a row leaves at most an object
\* under its own final key, which no evidence row names.
LEMMA RollbackInv ==
    ASSUME IInv, NEW r \in Requests, NEW a \in Answers, End(r, a), Active(r),
           UNCHANGED <<sessions, expired, evidence, policy>>,
           objects' \in [Uploads \cup Requests -> Object \cup {None}],
           \A k \in Uploads \cup Requests : k # r => objects'[k] = objects[k]
    PROVE  IInv'
  <1>1. /\ req' \in [Requests -> Request]
        /\ rowLock' \in [Uploads -> Requests \cup {None}]
        /\ req'[r].pc = "done"
        /\ \A s \in Requests : s # r => req'[s] = req[s]
        /\ \A u \in Uploads :
             rowLock'[u] = IF rowLock[u] = r THEN None ELSE rowLock[u]
    BY EndFacts
  <1>2. evidence[r] = None
    BY DEF IInv, RowInv, Active, Holding
  <1>3. TypeOK' /\ ClaimInv'
    BY <1>1 DEF IInv, TypeOK, ClaimInv
  <1>4. LockInv'
    <2>1. \A s \in Requests : Active(s)' => s # r /\ Active(s)
      BY <1>1 DEF Active, Holding
    <2>2. \A s \in Requests : req'[s].pc \in Holding =>
            req[s].pc \in Holding /\ s # r /\ req'[s] = req[s]
      BY <1>1 DEF Holding
    <2>3. \A u \in Uploads : rowLock'[u] # None =>
            rowLock'[u] = rowLock[u] /\ rowLock[u] # r /\ rowLock[u] \in Requests
      BY <1>1 DEF IInv, TypeOK
    <2>4. \A s \in Requests : Active(s)' =>
            req'[s].upload \in Uploads /\ Visible(req[s].upload)'
      BY <1>1, <2>1 DEF IInv, LockInv, Visible
    <2>5. \A s \in Requests : req'[s].pc \in Holding => rowLock'[req'[s].upload] = s
      <3> SUFFICES ASSUME NEW s \in Requests, req'[s].pc \in Holding
                   PROVE  rowLock'[req'[s].upload] = s
        OBVIOUS
      <3>1. /\ req'[s] = req[s]
            /\ req[s].pc \in Holding
            /\ s # r
        BY <2>2
      <3>2. rowLock[req[s].upload] = s /\ req[s].upload \in Uploads
        BY <3>1 DEF IInv, LockInv, Active
      <3> QED
        BY <1>1, <3>1, <3>2
    <2>6. \A u \in Uploads : rowLock'[u] # None =>
            req'[rowLock'[u]].pc \in Holding /\ req'[rowLock'[u]].upload = u
      BY <1>1, <2>3 DEF IInv, LockInv
    <2> QED
      BY <2>4, <2>5, <2>6 DEF LockInv
  <1>5. WorkInv'
    BY <1>1, KeysDisjoint DEF IInv, WorkInv, Preserved, Matches
  <1>6. StagingInv'
    BY KeysDisjoint DEF IInv, StagingInv
  <1>7. RowInv'
    BY <1>1, <1>2, KeysDisjoint DEF IInv, RowInv, Matches
  <1> QED
    BY <1>3, <1>4, <1>5, <1>6, <1>7 DEF IInv

LEMMA SelectRefusedInv ==
    ASSUME IInv, NEW r \in Requests, NEW u \in Uploads, NEW w \in Users,
           SelectRefused(r, u, w)
    PROVE  IInv'
  <1>1. req'[r] = Ended(u, "refused")
    BY DEF SelectRefused, IInv, TypeOK
  <1>2. /\ req'[r] \in Request
        /\ req'[r].pc = "done"
    BY <1>1, DefaultPolicy DEF Ended, IdleRequest, Request, Steps, Answers
  <1>3. /\ req' \in [Requests -> Request]
        /\ \A s \in Requests : s # r => req'[s] = req[s]
        /\ req[r].pc = "idle"
        /\ UNCHANGED <<sessions, expired, evidence, objects, policy, rowLock>>
    BY <1>1, <1>2 DEF SelectRefused, IInv, TypeOK
  <1>4. evidence[r] = None /\ ~Active(r)
    BY <1>3 DEF IInv, RowInv, Active, Holding
  <1>5. TypeOK' /\ ClaimInv' /\ StagingInv'
    BY <1>3 DEF IInv, TypeOK, ClaimInv, StagingInv
  <1>6. LockInv'
    BY <1>2, <1>3, <1>4 DEF IInv, LockInv, Active, Holding, Visible, TypeOK
  <1>7. WorkInv'
    BY <1>2, <1>3 DEF IInv, WorkInv, Preserved, Matches
  <1>8. RowInv'
    BY <1>2, <1>3, <1>4 DEF IInv, RowInv, Matches
  <1> QED
    BY <1>5, <1>6, <1>7, <1>8 DEF IInv

LEMMA SelectUploadInv ==
    ASSUME IInv, NEW r \in Requests, NEW u \in Uploads, NEW w \in Users,
           SelectUpload(r, u, w)
    PROVE  IInv'
  <1>1. /\ req[r].pc = "idle"
        /\ Visible(u)
        /\ rowLock' = IF rowLock[u] = None THEN [rowLock EXCEPT ![u] = r]
                                           ELSE rowLock
        /\ UNCHANGED <<sessions, expired, evidence, objects, policy>>
    BY DEF SelectUpload
  <1>2. /\ req' \in [Requests -> Request]
        /\ req'[r].pc = IF rowLock[u] = None THEN "locked" ELSE "blocked"
        /\ req'[r].upload = u
        /\ \A s \in Requests : s # r => req'[s] = req[s]
    BY DefaultPolicy DEF SelectUpload, IInv, TypeOK, IdleRequest, Request,
                         Steps, Holding, Answers
  <1>3. evidence[r] = None /\ ~Active(r)
    BY <1>1 DEF IInv, RowInv, Active, Holding
  <1>4. TypeOK' /\ ClaimInv' /\ StagingInv'
    BY <1>1, <1>2 DEF IInv, TypeOK, ClaimInv, StagingInv
  <1>5. LockInv'
    BY <1>1, <1>2, <1>3, NoneIsFresh DEF IInv, LockInv, Active, Holding, Visible, TypeOK
  <1>6. WorkInv'
    BY <1>1, <1>2 DEF IInv, WorkInv, Preserved, Matches
  <1>7. RowInv'
    BY <1>1, <1>2, <1>3 DEF IInv, RowInv, Matches
  <1> QED
    BY <1>4, <1>5, <1>6, <1>7 DEF IInv

LEMMA AcquireRowInv ==
    ASSUME IInv, NEW r \in Requests, AcquireRow(r)
    PROVE  IInv'
  <1> DEFINE u == req[r].upload
  <1>1. /\ req[r].pc = "blocked"
        /\ u \in Uploads
        /\ rowLock[u] = None
        /\ rowLock' = [rowLock EXCEPT ![u] = r]
        /\ UNCHANGED <<sessions, expired, evidence, objects, policy>>
    BY DEF AcquireRow, IInv, LockInv, Active
  <1>2. /\ req' \in [Requests -> Request]
        /\ req'[r].pc = "locked"
        /\ req'[r].upload = u
        /\ \A s \in Requests : s # r => req'[s] = req[s]
    <2>1. req' \in [Requests -> Request]
      BY RequestStep DEF AcquireRow, IInv, Steps, Holding, Answers
    <2> QED
      BY <2>1 DEF AcquireRow, IInv, TypeOK, Request
  <1>3. evidence[r] = None /\ Active(r)
    BY <1>1 DEF IInv, RowInv, Active
  <1>4. TypeOK' /\ ClaimInv' /\ StagingInv'
    BY <1>1, <1>2 DEF IInv, TypeOK, ClaimInv, StagingInv
  <1>5. LockInv'
    BY <1>1, <1>2, <1>3, NoneIsFresh DEF IInv, LockInv, Active, Holding, Visible, TypeOK
  <1>6. WorkInv'
    BY <1>1, <1>2 DEF IInv, WorkInv, Preserved, Matches
  <1>7. RowInv'
    BY <1>1, <1>2, <1>3 DEF IInv, RowInv, Matches
  <1> QED
    BY <1>4, <1>5, <1>6, <1>7 DEF IInv

LEMMA RefuseInv ==
    ASSUME IInv, NEW r \in Requests, Refuse(r)
    PROVE  IInv'
  <1>1. /\ Active(r)
        /\ "refused" \in Answers
        /\ objects' \in [Uploads \cup Requests -> Object \cup {None}]
    BY DEF Refuse, Active, Holding, Answers, IInv, TypeOK
  <1> QED
    BY <1>1, RollbackInv DEF Refuse

\* Steps of a request that keep its row lock and change no row: what they owe
\* is the work invariant of the request itself.
LEMMA HeldStep ==
    ASSUME IInv, NEW r \in Requests, req[r].pc \in Holding,
           UNCHANGED <<sessions, expired, evidence, policy, rowLock>>,
           objects' \in [Uploads \cup Requests -> Object \cup {None}],
           \A k \in Uploads \cup Requests : k # r => objects'[k] = objects[k],
           req' \in [Requests -> Request],
           req'[r].pc \in Holding,
           req'[r].upload = req[r].upload,
           \A s \in Requests : s # r => req'[s] = req[s],
           req'[r].pc \in {"finalizing", "verified"} \/ Preserved(r)' =>
              sessions[req[r].upload].status = "pending",
           req'[r].pc = "verified" =>
              Matches(req'[r].seen, req[r].upload) /\ req'[r].seen.lock = Unlocked,
           Preserved(r)' =>
              /\ Matches(objects'[r], req[r].upload)
              /\ objects'[r].lock = IF req'[r].pc = "preserved" THEN Unlocked
                                                                ELSE req'[r].policy
    PROVE  IInv'
  <1>1. evidence[r] = None
    BY DEF IInv, RowInv, Holding
  <1>2. TypeOK' /\ ClaimInv'
    BY DEF IInv, TypeOK, ClaimInv
  <1>3. LockInv'
    BY DEF IInv, TypeOK, LockInv, Active, Visible
  <1>4. WorkInv'
    BY DEF IInv, WorkInv, Preserved, Matches
  <1>5. StagingInv'
    BY KeysDisjoint DEF IInv, StagingInv
  <1>6. RowInv'
    BY <1>1 DEF IInv, RowInv, Matches
  <1> QED
    BY <1>2, <1>3, <1>4, <1>5, <1>6 DEF IInv

LEMMA ReturnExistingInv ==
    ASSUME IInv, NEW r \in Requests, ReturnExisting(r)
    PROVE  IInv'
  <1>1. /\ req[r].pc = "locked"
        /\ objects' \in [Uploads \cup Requests -> Object \cup {None}]
        /\ UNCHANGED <<sessions, expired, evidence, objects, policy>>
        /\ req[r] \in Request
    BY DEF ReturnExisting, IInv, TypeOK
  <1>2. CASE req[r].joined
    <2>1. /\ req' = [req EXCEPT ![r].pc = "answered", ![r].answer = "existing"]
          /\ UNCHANGED rowLock
      BY <1>2 DEF ReturnExisting
    <2>2. req' \in [Requests -> Request]
      BY <2>1, RequestStep DEF IInv, Steps, Holding, Answers
    <2>3. /\ req'[r].pc = "answered"
          /\ req'[r].answer = "existing"
          /\ req'[r].upload = req[r].upload
          /\ \A s \in Requests : s # r => req'[s] = req[s]
      BY <1>1, <2>1 DEF IInv, TypeOK, Request
    <2>4. ~Preserved(r)'
      BY <2>3 DEF Preserved
    <2> QED
      BY <1>1, <2>1, <2>2, <2>3, <2>4, HeldStep DEF Holding
  <1>3. CASE ~req[r].joined
    <2>1. End(r, "failed") /\ "failed" \in Answers /\ Active(r)
      BY <1>1, <1>3 DEF ReturnExisting, Answers, Active, Holding
    <2> QED
      BY <1>1, <2>1, RollbackInv
  <1> QED
    BY <1>2, <1>3

LEMMA AdmitInv ==
    ASSUME IInv, NEW r \in Requests, Admit(r)
    PROVE  IInv'
  <1>1. /\ req[r].pc = "locked"
        /\ req[r] \in Request
        /\ sessions[req[r].upload].status = "pending"
        /\ objects' \in [Uploads \cup Requests -> Object \cup {None}]
        /\ UNCHANGED <<sessions, expired, evidence, objects, policy, rowLock>>
    BY DEF Admit, IInv, TypeOK
  <1>2. /\ req' \in [Requests -> Request]
        /\ req'[r].pc = "finalizing"
        /\ req'[r].upload = req[r].upload
        /\ \A s \in Requests : s # r => req'[s] = req[s]
    BY <1>1 DEF Admit, IInv, TypeOK, IdleRequest, Request, Steps, Holding, Answers
  <1>3. ~Preserved(r)'
    BY <1>2 DEF Preserved
  <1> QED
    BY <1>1, <1>2, <1>3, HeldStep DEF Holding

LEMMA InspectInv ==
    ASSUME IInv, NEW r \in Requests, Inspect(r)
    PROVE  IInv'
  <1> DEFINE u == req[r].upload
  <1>1. /\ req[r].pc = "finalizing"
        /\ req[r] \in Request
        /\ Matches(objects[u], u)
        /\ req' = [req EXCEPT ![r].pc = "verified", ![r].seen = objects[u]]
        /\ objects' \in [Uploads \cup Requests -> Object \cup {None}]
        /\ UNCHANGED <<sessions, expired, evidence, objects, policy, rowLock>>
    BY DEF Inspect, IInv, TypeOK
  <1>2. /\ u \in Uploads
        /\ objects[u] \in Object \cup {None}
        /\ sessions[u].status = "pending"
        /\ objects[u].lock = Unlocked
    BY <1>1, RequestFacts DEF IInv, WorkInv, StagingInv, Active, Holding, Matches
  <1>3. req' \in [Requests -> Request]
    <2>1. "verified" \in Steps /\ "none" \in Answers /\ TypeOK
      BY DEF IInv, Steps, Holding, Answers
    <2> QED
      BY <1>1, <1>2, <2>1, RequestStep
  <1>4. /\ req'[r].pc = "verified"
        /\ req'[r].seen = objects[u]
        /\ req'[r].upload = u
        /\ \A s \in Requests : s # r => req'[s] = req[s]
    BY <1>1 DEF IInv, TypeOK, Request
  <1>5. ~Preserved(r)'
    BY <1>4 DEF Preserved
  <1> QED
    BY <1>1, <1>2, <1>3, <1>4, <1>5, HeldStep DEF Holding

\* The copy is made of the version that was inspected: it matches the session.
LEMMA PreserveInv ==
    ASSUME IInv, NEW r \in Requests, Preserve(r)
    PROVE  IInv'
  <1> DEFINE u == req[r].upload
  <1>1. /\ req[r].pc = "verified"
        /\ req[r] \in Request
        /\ objects[u] = req[r].seen
        /\ objects' = [objects EXCEPT ![r] = objects[u]]
        /\ req' = [req EXCEPT ![r].pc = "preserved", ![r].seen = None]
        /\ UNCHANGED <<sessions, expired, evidence, policy, rowLock>>
    BY DEF Preserve, CopyOf, IInv, TypeOK
  <1>2. /\ u \in Uploads
        /\ objects[u] \in Object \cup {None}
        /\ sessions[u].status = "pending"
        /\ Matches(objects[u], u)
        /\ objects[u].lock = Unlocked
    BY <1>1, RequestFacts DEF IInv, WorkInv, Active, Holding
  <1>3. /\ objects' \in [Uploads \cup Requests -> Object \cup {None}]
        /\ objects'[r] = objects[u]
        /\ \A k \in Uploads \cup Requests : k # r => objects'[k] = objects[k]
    BY <1>1, <1>2 DEF IInv, TypeOK
  <1>4. req' \in [Requests -> Request]
    <2>1. "preserved" \in Steps /\ "none" \in Answers /\ TypeOK
      BY DEF IInv, Steps, Holding, Answers
    <2> QED
      BY <1>1, <2>1, RequestStep
  <1>5. /\ req'[r].pc = "preserved"
        /\ req'[r].upload = u
        /\ \A s \in Requests : s # r => req'[s] = req[s]
    BY <1>1 DEF IInv, TypeOK, Request
  <1> QED
    BY <1>1, <1>2, <1>3, <1>4, <1>5, HeldStep DEF Holding

LEMMA SetRetentionInv ==
    ASSUME IInv, NEW r \in Requests, SetRetention(r)
    PROVE  IInv'
  <1> DEFINE u == req[r].upload
  <1>1. /\ req[r].pc = "preserved"
        /\ req[r] \in Request
        /\ req[r].policy \in Policies
        /\ objects' = IF req[r].policy = Unlocked THEN objects
                      ELSE [objects EXCEPT ![r].lock = req[r].policy]
        /\ req' = [req EXCEPT ![r].pc = "retained"]
        /\ UNCHANGED <<sessions, expired, evidence, policy, rowLock>>
    BY DEF SetRetention, RetentionOn, IInv, TypeOK, Request
  <1>2. /\ u \in Uploads
        /\ sessions[u].status = "pending"
        /\ objects[r] \in Object
        /\ objects[r].body = sessions[u].claim
        /\ objects[r].lock = Unlocked
    BY <1>1, RequestFacts DEF IInv, WorkInv, Active, Holding, Preserved, Matches
  <1>3. /\ objects' \in [Uploads \cup Requests -> Object \cup {None}]
        /\ objects'[r] \in Object
        /\ objects'[r].body = sessions[u].claim
        /\ objects'[r].lock = req[r].policy
        /\ \A k \in Uploads \cup Requests : k # r => objects'[k] = objects[k]
    BY <1>1, <1>2 DEF IInv, TypeOK, Object
  <1>4. req' \in [Requests -> Request]
    <2>1. "retained" \in Steps /\ "none" \in Answers /\ TypeOK
      BY DEF IInv, Steps, Holding, Answers
    <2> QED
      BY <1>1, <2>1, RequestStep
  <1>5. /\ req'[r].pc = "retained"
        /\ req'[r].upload = u
        /\ req'[r].policy = req[r].policy
        /\ \A s \in Requests : s # r => req'[s] = req[s]
    BY <1>1 DEF IInv, TypeOK, Request
  <1>6. Matches(objects'[r], u)
    BY <1>3, NoneIsFresh DEF Matches
  <1>7. /\ req[r].pc \in Holding
        /\ req'[r].pc \in Holding
        /\ req'[r].pc \notin {"verified", "preserved"}
        /\ UNCHANGED <<sessions, expired, evidence, policy, rowLock>>
    BY <1>1, <1>5 DEF Holding
  <1> QED
    BY <1>2, <1>3, <1>4, <1>5, <1>6, <1>7, HeldStep

LEMMA AnswerInv ==
    ASSUME IInv, NEW r \in Requests, Answer(r)
    PROVE  IInv'
  <1> DEFINE u == req[r].upload
  <1>1. /\ req[r].pc = "retained"
        /\ req[r] \in Request
        /\ sessions[u].status = "pending"
        /\ objects' \in [Uploads \cup Requests -> Object \cup {None}]
        /\ req' = [req EXCEPT ![r].pc = "answered", ![r].answer = "created"]
        /\ UNCHANGED <<sessions, expired, evidence, objects, policy, rowLock>>
    BY DEF Answer, IInv, TypeOK
  <1>2. /\ Matches(objects[r], u)
        /\ objects[r].lock = req[r].policy
    BY <1>1 DEF IInv, WorkInv, Preserved
  <1>3. req' \in [Requests -> Request]
    <2>1. "answered" \in Steps /\ "created" \in Answers /\ TypeOK
      BY DEF IInv, Steps, Holding, Answers
    <2> QED
      BY <1>1, <2>1, RequestStep
  <1>4. /\ req'[r].pc = "answered"
        /\ req'[r].upload = u
        /\ req'[r].policy = req[r].policy
        /\ \A s \in Requests : s # r => req'[s] = req[s]
    BY <1>1 DEF IInv, TypeOK, Request
  <1> QED
    BY <1>1, <1>2, <1>3, <1>4, HeldStep DEF Holding

\* A provider call that did not return leaves at most the final object of r.
LEMMA InFlightFacts ==
    ASSUME IInv, NEW r \in Requests, InFlight(r)
    PROVE  /\ objects' \in [Uploads \cup Requests -> Object \cup {None}]
           /\ \A k \in Uploads \cup Requests : k # r => objects'[k] = objects[k]
  <1>1. /\ req[r] \in Request
        /\ req[r].policy \in Policies
        /\ req[r].seen \in Object \cup {None}
    BY DEF IInv, TypeOK, Request
  <1>2. CASE objects' = objects
    BY <1>2 DEF IInv, TypeOK
  <1>3. CASE objects[req[r].upload] = req[r].seen /\ objects' = CopyOf(r)
    BY <1>1, <1>3 DEF IInv, TypeOK, CopyOf
  <1>4. CASE req[r].pc = "preserved" /\ objects' = RetentionOn(r)
    <2>1. objects[r] \in Object
      BY <1>4, RequestFacts DEF IInv, WorkInv, Preserved, Matches
    <2> QED
      BY <1>1, <1>4, <2>1 DEF IInv, TypeOK, RetentionOn, Object
  <1> QED
    BY <1>2, <1>3, <1>4 DEF InFlight

LEMMA FinalizeFailsInv ==
    ASSUME IInv, NEW r \in Requests, FinalizeFails(r)
    PROVE  IInv'
  <1>1. Active(r) /\ "refused" \in Answers
    BY DEF FinalizeFails, Active, Holding, Answers
  <1> QED
    BY <1>1, InFlightFacts, RollbackInv DEF FinalizeFails

LEMMA CrashInv ==
    ASSUME IInv, NEW r \in Requests, Crash(r)
    PROVE  IInv'
  <1>1. Active(r) /\ req[r].answer \in Answers
    BY DEF Crash, Active, IInv, TypeOK, Request
  <1> QED
    BY <1>1, InFlightFacts, RollbackInv DEF Crash

\* The commit of a completion that created its evidence.
LEMMA CommitCreatedInv ==
    ASSUME IInv, NEW r \in Requests, Commit(r), req[r].answer = "created"
    PROVE  IInv'
  <1> DEFINE u == req[r].upload
  <1>1. /\ req[r].pc = "answered"
        /\ req[r] \in Request
        /\ req[r].policy \in Policies
        /\ End(r, "created")
        /\ "created" \in Answers
        /\ evidence' = [evidence EXCEPT ![r] = EvidenceOf(r)]
        /\ sessions' = [sessions EXCEPT ![u].status = "completed",
                                        ![u].completed = r]
        /\ UNCHANGED <<expired, objects, policy>>
    BY DEF Commit, IInv, TypeOK, Request, Answers
  <1>2. /\ Active(r)
        /\ u \in Uploads
        /\ rowLock[u] = r
        /\ sessions[u] \in Session
        /\ sessions[u].status = "pending"
        /\ sessions[u].claim \in Bodies
        /\ sessions[u].creator \in Users
        /\ Matches(objects[r], u)
        /\ objects[r].lock = req[r].policy
    BY <1>1, RequestFacts DEF IInv, LockInv, WorkInv, Active, Holding, Preserved
  <1>3. /\ req' \in [Requests -> Request]
        /\ rowLock' \in [Uploads -> Requests \cup {None}]
        /\ req'[r].pc = "done"
        /\ \A s \in Requests : s # r => req'[s] = req[s]
        /\ \A v \in Uploads :
             rowLock'[v] = IF rowLock[v] = r THEN None ELSE rowLock[v]
    BY <1>1, EndFacts
  <1>4. /\ sessions' \in [Uploads -> Session]
        /\ sessions'[u].status = "completed"
        /\ sessions'[u].completed = r
        /\ sessions'[u].claim = sessions[u].claim
        /\ sessions'[u].creator = sessions[u].creator
        /\ \A v \in Uploads : v # u => sessions'[v] = sessions[v]
    BY <1>1, <1>2 DEF IInv, TypeOK, Session, SessionStatus
  <1>5. /\ EvidenceOf(r) \in Evidence
        /\ EvidenceOf(r).upload = u
        /\ EvidenceOf(r).key = r
        /\ EvidenceOf(r).policy = req[r].policy
    BY <1>1, <1>2 DEF EvidenceOf, Evidence
  <1>6. /\ evidence' \in [Requests -> Evidence \cup {None}]
        /\ evidence'[r] = EvidenceOf(r)
        /\ evidence'[r] # None
        /\ \A s \in Requests : s # r => evidence'[s] = evidence[s]
    BY <1>1, <1>5, NoneIsFresh DEF IInv, TypeOK
  \* No other request works on this session: it would hold the same row lock.
  <1>7. \A s \in Requests : s # r /\ req[s].pc \in Holding => req[s].upload # u
    BY <1>2 DEF IInv, LockInv
  <1>8. TypeOK' /\ ClaimInv' /\ StagingInv'
    <2>1. TypeOK'
      BY <1>1, <1>3, <1>4, <1>6 DEF IInv, TypeOK
    <2>2. ClaimInv'
      BY <1>2, <1>4 DEF IInv, ClaimInv
    <2>3. StagingInv'
      BY <1>1 DEF IInv, StagingInv
    <2> QED
      BY <2>1, <2>2, <2>3
  <1>9. LockInv'
    <2>1. \A s \in Requests : Active(s)' =>
            req'[s].upload \in Uploads /\ Visible(req[s].upload)'
      <3> SUFFICES ASSUME NEW s \in Requests, Active(s)'
                   PROVE  req'[s].upload \in Uploads /\ Visible(req[s].upload)'
        OBVIOUS
      <3>1. s # r /\ req'[s] = req[s] /\ Active(s)
        BY <1>3 DEF Active, Holding
      <3> QED
        BY <1>4, <3>1 DEF IInv, LockInv, Visible
    <2>2. \A s \in Requests : req'[s].pc \in Holding => rowLock'[req'[s].upload] = s
      <3> SUFFICES ASSUME NEW s \in Requests, req'[s].pc \in Holding
                   PROVE  rowLock'[req'[s].upload] = s
        OBVIOUS
      <3>1. /\ s # r
            /\ req'[s] = req[s]
            /\ req[s].pc \in Holding
        BY <1>3 DEF Holding
      <3>2. rowLock[req[s].upload] = s /\ req[s].upload \in Uploads
        BY <3>1 DEF IInv, LockInv, Active
      <3> QED
        BY <1>3, <3>1, <3>2
    <2>3. \A v \in Uploads : rowLock'[v] # None =>
            req'[rowLock'[v]].pc \in Holding /\ req'[rowLock'[v]].upload = v
      BY <1>3 DEF IInv, LockInv, TypeOK
    <2> QED
      BY <2>1, <2>2, <2>3 DEF LockInv
  <1>10. WorkInv'
    <2>1. \A s \in Requests :
            req'[s].pc \in {"finalizing", "verified"} \/ Preserved(s)' =>
               /\ s # r
               /\ req'[s] = req[s]
               /\ sessions'[req[s].upload] = sessions[req[s].upload]
      <3> SUFFICES ASSUME NEW s \in Requests,
                          req'[s].pc \in {"finalizing", "verified"} \/ Preserved(s)'
                   PROVE  /\ s # r
                          /\ req'[s] = req[s]
                          /\ sessions'[req[s].upload] = sessions[req[s].upload]
        OBVIOUS
      <3>1. s # r /\ req'[s] = req[s] /\ req[s].pc \in Holding
        BY <1>3 DEF Preserved, Holding
      <3> QED
        BY <1>4, <1>7, <3>1, RequestFacts DEF Active
    <2>2. objects' = objects
      BY <1>1
    <2> QED
      BY <2>1, <2>2 DEF IInv, WorkInv, Preserved, Matches
  <1>11. RowInv'
    <2>1. \A s \in Requests : evidence[s] # None =>
            evidence[s].upload \in Uploads /\ evidence[s].upload # u /\ s # r
      BY <1>1, <1>2, NoneIsFresh DEF IInv, RowInv, TypeOK, Evidence
    <2>2. objects'[r] # None /\ objects'[r].body = sessions'[u].claim
      BY <1>1, <1>2, <1>4 DEF Matches
    <2>3. \A s \in Requests : evidence'[s] # None =>
            /\ req'[s].pc = "done"
            /\ evidence'[s].key = s
            /\ Matches(objects[s], evidence[s].upload)'
            /\ objects'[s].lock = evidence'[s].policy
            /\ sessions'[evidence'[s].upload].status = "completed"
            /\ sessions'[evidence'[s].upload].completed = s
      <3> SUFFICES ASSUME NEW s \in Requests, evidence'[s] # None
                   PROVE  /\ req'[s].pc = "done"
                          /\ evidence'[s].key = s
                          /\ Matches(objects[s], evidence[s].upload)'
                          /\ objects'[s].lock = evidence'[s].policy
                          /\ sessions'[evidence'[s].upload].status = "completed"
                          /\ sessions'[evidence'[s].upload].completed = s
        OBVIOUS
      <3>1. CASE s = r
        BY <1>1, <1>2, <1>3, <1>4, <1>5, <1>6, <2>2, <3>1 DEF Matches
      <3>2. CASE s # r
        BY <1>1, <1>3, <1>4, <1>6, <2>1, <3>2 DEF IInv, RowInv, Matches
      <3> QED
        BY <3>1, <3>2
    <2>4. \A v \in Uploads : sessions'[v].status = "completed" =>
            /\ sessions'[v].completed \in Requests
            /\ evidence'[sessions'[v].completed] # None
            /\ evidence'[sessions'[v].completed].upload = v
      <3> SUFFICES ASSUME NEW v \in Uploads, sessions'[v].status = "completed"
                   PROVE  /\ sessions'[v].completed \in Requests
                          /\ evidence'[sessions'[v].completed] # None
                          /\ evidence'[sessions'[v].completed].upload = v
        OBVIOUS
      <3>1. CASE v = u
        BY <1>4, <1>5, <1>6, <3>1
      <3>2. CASE v # u
        BY <1>4, <1>6, <2>1, <3>2 DEF IInv, RowInv
      <3> QED
        BY <3>1, <3>2
    <2> QED
      BY <2>3, <2>4 DEF RowInv
  <1> QED
    BY <1>8, <1>9, <1>10, <1>11 DEF IInv

LEMMA CommitInv ==
    ASSUME IInv, NEW r \in Requests, Commit(r)
    PROVE  IInv'
  <1>1. CASE req[r].answer = "created"
    BY <1>1, CommitCreatedInv
  <1>2. CASE req[r].answer # "created"
    <2>1. /\ Active(r)
          /\ req[r].answer \in Answers
          /\ End(r, req[r].answer)
          /\ UNCHANGED <<sessions, expired, evidence, objects, policy>>
          /\ objects' \in [Uploads \cup Requests -> Object \cup {None}]
      BY <1>2 DEF Commit, Active, Holding, IInv, TypeOK, Request
    <2> QED
      BY <2>1, RollbackInv
  <1> QED
    BY <1>1, <1>2

-----------------------------------------------------------------------------
LEMMA InitInv == Init => IInv
  <1> SUFFICES ASSUME Init PROVE IInv
    OBVIOUS
  <1>1. TypeOK
    BY InitType
  <1>2. \A r \in Requests : req[r].pc = "idle" /\ evidence[r] = None
    BY DEF Init, IdleRequest
  <1>3. \A u \in Uploads : /\ sessions[u].status = "absent"
                           /\ sessions[u].claim = None
                           /\ rowLock[u] = None
                           /\ objects[u] = None
    BY DEF Init, NoSession
  <1> QED
    BY <1>1, <1>2, <1>3 DEF IInv, ClaimInv, LockInv, WorkInv, StagingInv,
                            RowInv, Active, Holding, Preserved

LEMMA NextInv == IInv /\ [Next]_vars => IInv'
  <1> SUFFICES ASSUME IInv, [Next]_vars PROVE IInv'
    OBVIOUS
  <1>1. ASSUME NEW u \in Uploads,
               \/ \E w \in Users, b \in Bodies : CreateUpload(u, w, b)
               \/ CommitUpload(u) \/ Expire(u) \/ PutStaged(u)
        PROVE  IInv'
    BY <1>1, CreateUploadInv, CommitUploadInv, ExpireInv, PutStagedInv
  <1>2. ASSUME NEW w \in Users, NEW p \in Policies, SetRetentionPolicy(w, p)
        PROVE  IInv'
    BY <1>2, SetRetentionPolicyInv
  <1>3. ASSUME NEW r \in Requests, Start(r) PROVE IInv'
    BY <1>3, SelectRefusedInv, SelectUploadInv DEF Start
  <1>4. ASSUME NEW r \in Requests, Serve(r) PROVE IInv'
    BY <1>4, AcquireRowInv, RefuseInv, ReturnExistingInv, AdmitInv, InspectInv,
       PreserveInv, SetRetentionInv, FinalizeFailsInv, AnswerInv, CommitInv
    DEF Serve
  <1>5. ASSUME NEW r \in Requests, Crash(r) PROVE IInv'
    BY <1>5, CrashInv
  <1>6. CASE UNCHANGED vars
    BY <1>6 DEF vars, IInv, TypeOK, ClaimInv, LockInv, WorkInv, StagingInv,
                RowInv, Active, Preserved, Visible, Matches
  <1> QED
    BY <1>1, <1>2, <1>3, <1>4, <1>5, <1>6 DEF Next

\* The inductive invariant holds in every reachable state.
THEOREM Invariance == Spec => []IInv
  BY InitInv, NextInv, PTL DEF Spec

\* Every variable keeps its type: a row, an object and a request never hold a
\* value the schema or the handlers could not have written.
THEOREM TypeCorrect == Spec => []TypeOK
  <1>1. IInv => TypeOK
    BY DEF IInv
  <1> QED
    BY <1>1, Invariance, PTL

\* Whatever a client sends to its staging key, evidence holds the bytes its
\* session authorized.
THEOREM VerifiedEvidenceAlways == Spec => []VerifiedEvidence
  <1>1. IInv => VerifiedEvidence
    BY DEF IInv, RowInv, VerifiedEvidence
  <1> QED
    BY <1>1, Invariance, PTL

\* A session becomes at most one evidence row, and names it when completed.
THEOREM OneEvidenceAlways == Spec => []OneEvidencePerSession
  <1>1. IInv => OneEvidencePerSession
    <2> SUFFICES ASSUME IInv PROVE OneEvidencePerSession
      OBVIOUS
    <2>1. \A r, s \in Requests :
            evidence[r] # None /\ evidence[s] # None /\ r # s =>
              evidence[r].upload # evidence[s].upload
      BY DEF IInv, RowInv
    <2>2. \A u \in Uploads, r \in Requests :
            sessions[u].status # "completed" /\ evidence[r] # None =>
              evidence[r].upload # u
      BY DEF IInv, RowInv
    <2> QED
      BY <2>1, <2>2 DEF IInv, RowInv, OneEvidencePerSession
  <1> QED
    BY <1>1, Invariance, PTL

\* The provider enforces the retention that the lifecycle row records.
THEOREM RetentionAlwaysEnforced == Spec => []RetentionEnforced
  <1>1. IInv => RetentionEnforced
    BY DEF IInv, RowInv, RetentionEnforced
  <1> QED
    BY <1>1, Invariance, PTL

\* At most one completion of a session is between its select and the end of
\* its transaction, and that one holds the row lock.
CompletionsExclude ==
    \A r \in Requests : req[r].pc \in Holding =>
        /\ rowLock[req[r].upload] = r
        /\ \A s \in Requests : s # r /\ req[s].pc \in Holding =>
              req[s].upload # req[r].upload

\* Completions of one session exclude each other.
THEOREM CompletionsAlwaysExclude == Spec => []CompletionsExclude
  <1>1. IInv => CompletionsExclude
    BY DEF IInv, LockInv, CompletionsExclude
  <1> QED
    BY <1>1, Invariance, PTL

-----------------------------------------------------------------------------
\* The protocol implements the ledger

\* A step that keeps claims, completed sessions and the final objects of
\* evidence is a stuttering step of the ledger.
LEMMA LedgerStutters ==
    ASSUME IInv,
           \A u \in Uploads :
              /\ sessions'[u].claim = sessions[u].claim
              /\ (sessions'[u].status = "completed") <=> (sessions[u].status = "completed")
              /\ sessions[u].status = "completed" =>
                    sessions'[u].completed = sessions[u].completed,
           \A r \in Requests : evidence[r] # None =>
              evidence'[r] = evidence[r] /\ objects'[r] = objects[r]
    PROVE  UNCHANGED <<LedgerClaim, LedgerRecord>>
  <1>1. UNCHANGED LedgerClaim
    BY DEF LedgerClaim
  <1>2. \A u \in Uploads : LedgerRecord'[u] = LedgerRecord[u]
    BY DEF LedgerRecord, IInv, RowInv
  <1>3. UNCHANGED LedgerRecord
    BY <1>2 DEF LedgerRecord
  <1> QED
    BY <1>1, <1>3

\* The same for the steps of a request that does not commit new evidence: they
\* touch at most its own final object.
LEMMA RequestStutters ==
    ASSUME IInv, NEW r \in Requests, evidence[r] = None,
           UNCHANGED <<sessions, evidence>>,
           \A k \in Uploads \cup Requests : k # r => objects'[k] = objects[k]
    PROVE  UNCHANGED <<LedgerClaim, LedgerRecord>>
  BY LedgerStutters

LEMMA LedgerInit == Init => Ledger!Init
  BY DEF Init, NoSession, Ledger!Init, LedgerClaim, LedgerRecord

LEMMA LedgerOpen ==
    ASSUME IInv, NEW u \in Uploads, NEW w \in Users, NEW b \in Bodies,
           CreateUpload(u, w, b)
    PROVE  Ledger!Open(u, b)
  <1>1. LedgerClaim[u] = None
    BY DEF LedgerClaim, CreateUpload, IInv, ClaimInv
  <1>2. LedgerClaim' = [LedgerClaim EXCEPT ![u] = b]
    BY DEF LedgerClaim, CreateUpload, IInv, TypeOK, Session
  <1>3. UNCHANGED LedgerRecord
    BY DEF LedgerRecord, CreateUpload, IInv, TypeOK
  <1> QED
    BY <1>1, <1>2, <1>3 DEF Ledger!Open

LEMMA LedgerCommit ==
    ASSUME IInv, NEW r \in Requests, Commit(r), req[r].answer = "created"
    PROVE  \E u \in Uploads, p \in Policies : Ledger!Commit(u, p)
  <1> DEFINE u == req[r].upload
  <1>1. /\ Active(r)
        /\ Preserved(r)
        /\ sessions[u].status = "pending"
        /\ u \in Uploads
        /\ sessions[u].claim \in Bodies
        /\ req[r].policy \in Policies
        /\ objects[r] # None
        /\ objects[r].body = sessions[u].claim
        /\ objects[r].lock = req[r].policy
        /\ req[r].pc = "answered"
    BY RequestFacts DEF Commit, IInv, TypeOK, Request, WorkInv, Active, Holding,
                        Preserved, Matches
  <1>2. /\ evidence' = [evidence EXCEPT ![r] = EvidenceOf(r)]
        /\ sessions' = [sessions EXCEPT ![u].status = "completed", ![u].completed = r]
        /\ objects' = objects
    BY DEF Commit
  <1>3. /\ sessions'[u].status = "completed"
        /\ sessions'[u].completed = r
        /\ \A v \in Uploads : sessions'[v].claim = sessions[v].claim
        /\ \A v \in Uploads : v # u => sessions'[v] = sessions[v]
    BY <1>1, <1>2 DEF IInv, TypeOK, Session
  <1>4. /\ evidence'[r].key = r
        /\ \A s \in Requests : evidence[s] # None => evidence'[s] = evidence[s]
    BY <1>1, <1>2 DEF EvidenceOf, IInv, TypeOK, RowInv
  <1>5. UNCHANGED LedgerClaim
    BY <1>3 DEF LedgerClaim
  <1>6. LedgerRecord[u] = None
    BY <1>1 DEF LedgerRecord
  <1>7. LedgerRecord'[u] = [body |-> LedgerClaim[u], policy |-> req[r].policy]
    BY <1>1, <1>2, <1>3, <1>4 DEF LedgerRecord, LedgerClaim
  <1>8. \A v \in Uploads : v # u => LedgerRecord'[v] = LedgerRecord[v]
    <2> SUFFICES ASSUME NEW v \in Uploads, v # u
                 PROVE  LedgerRecord'[v] = LedgerRecord[v]
      OBVIOUS
    <2>1. sessions'[v] = sessions[v]
      BY <1>3
    <2>2. CASE sessions[v].status = "completed"
      <3>1. evidence'[sessions[v].completed] = evidence[sessions[v].completed]
        BY <1>4, <2>2 DEF IInv, RowInv
      <3> QED
        BY <1>2, <2>1, <3>1 DEF LedgerRecord
    <2>3. CASE sessions[v].status # "completed"
      BY <2>1, <2>3 DEF LedgerRecord
    <2> QED
      BY <2>2, <2>3
  <1>9. LedgerRecord' = [LedgerRecord EXCEPT
                           ![u] = [body |-> LedgerClaim[u], policy |-> req[r].policy]]
    BY <1>1, <1>7, <1>8 DEF LedgerRecord
  <1>10. LedgerClaim[u] # None
    BY <1>1, NoneIsFresh DEF LedgerClaim
  <1>11. Ledger!Commit(u, req[r].policy)
    BY <1>5, <1>6, <1>9, <1>10 DEF Ledger!Commit
  <1> QED
    BY <1>1, <1>11

\* Every step of the protocol is a step of the ledger or leaves it alone.
LEMMA LedgerNext == IInv /\ [Next]_vars => [Ledger!Next]_Ledger!ledgerVars
  <1> SUFFICES ASSUME IInv, [Next]_vars
               PROVE  Ledger!Next \/ UNCHANGED <<LedgerClaim, LedgerRecord>>
    BY DEF Ledger!ledgerVars
  <1>1. ASSUME NEW u \in Uploads, NEW w \in Users, NEW b \in Bodies,
               CreateUpload(u, w, b)
        PROVE  Ledger!Next
    BY <1>1, LedgerOpen DEF Ledger!Next
  <1>2. ASSUME NEW u \in Uploads, CommitUpload(u)
        PROVE  UNCHANGED <<LedgerClaim, LedgerRecord>>
    <2>1. /\ UNCHANGED <<evidence, objects>>
          /\ sessions[u].status = "answered"
          /\ \E status \in {"pending", "lost"} :
                sessions' = [sessions EXCEPT ![u].status = status]
      BY <1>2 DEF CommitUpload
    <2>2. \A v \in Uploads :
              /\ sessions'[v].claim = sessions[v].claim
              /\ (sessions'[v].status = "completed") <=> (sessions[v].status = "completed")
              /\ sessions'[v].completed = sessions[v].completed
      BY <2>1 DEF IInv, TypeOK, Session
    <2> QED
      BY <2>1, <2>2, LedgerStutters
  <1>3. ASSUME NEW u \in Uploads, Expire(u) \/ PutStaged(u)
        PROVE  UNCHANGED <<LedgerClaim, LedgerRecord>>
    <2>1. UNCHANGED <<sessions, evidence>>
      BY <1>3 DEF Expire, PutStaged
    <2>2. \A r \in Requests : objects'[r] = objects[r]
      BY <1>3, KeysDisjoint DEF Expire, PutStaged, IInv, TypeOK
    <2> QED
      BY <2>1, <2>2, LedgerStutters
  <1>4. ASSUME NEW w \in Users, NEW p \in Policies, SetRetentionPolicy(w, p)
        PROVE  UNCHANGED <<LedgerClaim, LedgerRecord>>
    BY <1>4, LedgerStutters DEF SetRetentionPolicy
  <1>5. ASSUME NEW r \in Requests, Start(r)
        PROVE  UNCHANGED <<LedgerClaim, LedgerRecord>>
    BY <1>5, LedgerStutters DEF Start, SelectRefused, SelectUpload
  <1>6. ASSUME NEW r \in Requests,
               \/ AcquireRow(r) \/ Refuse(r) \/ ReturnExisting(r) \/ Admit(r)
               \/ Inspect(r) \/ Answer(r)
        PROVE  UNCHANGED <<LedgerClaim, LedgerRecord>>
    BY <1>6, LedgerStutters DEF AcquireRow, Refuse, ReturnExisting, Admit,
                                Inspect, Answer
  <1>7. ASSUME NEW r \in Requests,
               Preserve(r) \/ SetRetention(r) \/ FinalizeFails(r) \/ Crash(r)
        PROVE  UNCHANGED <<LedgerClaim, LedgerRecord>>
    <2>1. req[r].pc # "done"
      BY <1>7 DEF Preserve, SetRetention, FinalizeFails, Crash, Holding
    <2>2. evidence[r] = None
      BY <2>1 DEF IInv, RowInv
    <2>3. UNCHANGED <<sessions, evidence>>
      BY <1>7 DEF Preserve, SetRetention, FinalizeFails, Crash
    <2>4. \A k \in Uploads \cup Requests : k # r => objects'[k] = objects[k]
      BY <1>7 DEF Preserve, SetRetention, FinalizeFails, Crash, InFlight,
                  CopyOf, RetentionOn, IInv, TypeOK
    <2> QED
      BY <2>2, <2>3, <2>4, RequestStutters
  <1>8. ASSUME NEW r \in Requests, Commit(r)
        PROVE  Ledger!Next \/ UNCHANGED <<LedgerClaim, LedgerRecord>>
    <2>1. CASE req[r].answer = "created"
      BY <1>8, <2>1, LedgerCommit DEF Ledger!Next
    <2>2. CASE req[r].answer # "created"
      BY <1>8, <2>2, LedgerStutters DEF Commit
    <2> QED
      BY <2>1, <2>2
  <1>9. CASE UNCHANGED vars
    BY <1>9, LedgerStutters DEF vars
  <1> QED
    BY <1>1, <1>2, <1>3, <1>4, <1>5, <1>6, <1>7, <1>8, <1>9
    DEF Next, Serve

\* The upload protocol implements the ledger: what evidence says and how its
\* object is protected appear in one step and never change.
THEOREM Implements == Spec => ImplementsLedger
  BY LedgerInit, LedgerNext, Invariance, PTL
  DEF Spec, ImplementsLedger, Ledger!Spec

-----------------------------------------------------------------------------
\* What is committed stays

\* A row of evidence, and the object it names, never change again.
EvidenceStays ==
    [][\A r \in Requests : evidence[r] # None =>
            /\ evidence'[r] = evidence[r]
            /\ objects'[evidence[r].key] = objects[evidence[r].key]]_vars

\* "An immutable observation" (main.py:666): whatever clients put to the staging key, whichever
\* completions are repeated, fail or crash in a call to the provider, the bytes and the
\* lock of committed evidence are those it was committed with.
THEOREM EvidenceImmutable == Spec => EvidenceStays
  <1>1. ASSUME IInv, [Next]_vars, NEW s \in Requests, evidence[s] # None
        PROVE  evidence'[s] = evidence[s] /\ objects'[s] = objects[s]
    <2>1. s \in Uploads \cup Requests /\ s \notin Uploads /\ req[s].pc = "done"
      BY <1>1, KeysDisjoint DEF IInv, RowInv
    <2>2. /\ objects \in [Uploads \cup Requests -> Object \cup {None}]
          /\ evidence \in [Requests -> Evidence \cup {None}]
      BY <1>1 DEF IInv, TypeOK
    <2>3. CASE UNCHANGED <<evidence, objects>>
      BY <2>3
    <2>4. ASSUME NEW u \in Uploads, PutStaged(u)
          PROVE  evidence'[s] = evidence[s] /\ objects'[s] = objects[s]
      BY <2>1, <2>2, <2>4 DEF PutStaged
    <2>5. ASSUME NEW r \in Requests,
                 Preserve(r) \/ SetRetention(r) \/ FinalizeFails(r) \/ Crash(r)
          PROVE  evidence'[s] = evidence[s] /\ objects'[s] = objects[s]
      <3>1. r # s /\ evidence' = evidence
        BY <2>1, <2>5 DEF Preserve, SetRetention, FinalizeFails, Crash, Holding
      <3>2. \A k \in Uploads \cup Requests : k # r => objects'[k] = objects[k]
        BY <2>2, <2>5 DEF Preserve, SetRetention, FinalizeFails, Crash, InFlight, CopyOf,
                          RetentionOn
      <3>. QED
        BY <2>1, <3>1, <3>2
    <2>6. ASSUME NEW r \in Requests, Commit(r)
          PROVE  evidence'[s] = evidence[s] /\ objects'[s] = objects[s]
      BY <2>1, <2>2, <2>6 DEF Commit
    <2>7. ASSUME NEW u \in Uploads,
                 \/ \E w \in Users, b \in Bodies : CreateUpload(u, w, b)
                 \/ CommitUpload(u) \/ Expire(u)
          PROVE  UNCHANGED <<evidence, objects>>
      BY <2>7 DEF CreateUpload, CommitUpload, Expire
    <2>8. ASSUME NEW r \in Requests,
                 \/ Start(r) \/ AcquireRow(r) \/ Refuse(r) \/ ReturnExisting(r) \/ Admit(r)
                 \/ Inspect(r) \/ Answer(r)
          PROVE  UNCHANGED <<evidence, objects>>
      BY <2>8 DEF Start, SelectRefused, SelectUpload, AcquireRow, Refuse, ReturnExisting,
                  Admit, Inspect, Answer
    <2>9. ASSUME NEW w \in Users, NEW p \in Policies, SetRetentionPolicy(w, p)
          PROVE  UNCHANGED <<evidence, objects>>
      BY <2>9 DEF SetRetentionPolicy
    <2>10. CASE UNCHANGED vars
      BY <2>10 DEF vars
    <2>. QED
      BY <1>1, <2>3, <2>4, <2>5, <2>6, <2>7, <2>8, <2>9, <2>10 DEF Next, Serve
  <1>2. IInv /\ [Next]_vars =>
          [\A r \in Requests : evidence[r] # None =>
              /\ evidence'[r] = evidence[r]
              /\ objects'[evidence[r].key] = objects[evidence[r].key]]_vars
    BY <1>1 DEF IInv, RowInv
  <1>. QED
    BY <1>2, Invariance, PTL DEF Spec, EvidenceStays
=============================================================================
