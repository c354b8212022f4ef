----------------------- MODULE PolicyAgreementsProofs -----------------------
(***************************************************************************)
(* Theorems about PolicyAgreements, for any number of requests, calls,     *)
(* recipients and versions.                                                *)
(***************************************************************************)
EXTENDS PolicyAgreements, TLAPS

Holders == Agreements \cup Signings \cup Revocations

DocumentInv == document.status = "approved" => document.current \in approved

\* A request that is not issued has no successor, one that is being issued pins an
\* approved version, and what is renewed is a request that is due and stays so.
FieldInv ==
    \A g \in Agreements :
        /\ agreement[g].status \in InProgress \cup Issued =>
              agreement[g].recipient \in Recipients /\ agreement[g].version \in approved
        /\ agreement[g].status \notin Issued => agreement[g].successor = None
        /\ agreement[g].status = "inserted" => agreement[g].source # None
        /\ agreement[g].status \in {"absent", "lost"} => agreement[g].source = None
        /\ agreement[g].source # None =>
              /\ agreement[g].source # g
              /\ agreement[agreement[g].source].status = "due"

\* Nobody else has linked the predecessor of a renewal that is about to commit.
LinkInv ==
    \A g \in Agreements :
        agreement[g].status = "answered" /\ agreement[g].source # None =>
            agreement[agreement[g].source].successor = None

\* Calls that hold a request hold one that is open.
SigningInv ==
    \A s \in Signings :
        /\ signing[s].pc \in {"begun", "consumed"} => signing[s].agreement \in Agreements
        /\ signing[s].pc = "consumed" => agreement[signing[s].agreement].status \in Open

RevocationInv ==
    \A v \in Revocations :
        /\ revocation[v].pc \in {"begun", "taken", "answered", "revoked"} =>
              revocation[v].agreement \in Agreements
        /\ revocation[v].pc \in {"taken", "answered"} =>
              agreement[revocation[v].agreement].status \in Open

\* What each kind of call holds: a renewal its predecessor, an acknowledgement its
\* request, a revocation its request and then the predecessor.
IssueLocks ==
    \A h, g \in Agreements :
        rowLock[h] = g <=> agreement[g].status = "answered" /\ agreement[g].source = h

SigningLocks ==
    \A h \in Agreements, s \in Signings :
        rowLock[h] = s <=> signing[s].pc = "consumed" /\ signing[s].agreement = h

RevocationLocks ==
    \A h \in Agreements, v \in Revocations :
        rowLock[h] = v <=>
            \/ revocation[v].pc \in {"taken", "answered"} /\ revocation[v].agreement = h
            \/ revocation[v].pc = "answered" /\ agreement[h].successor = revocation[v].agreement

\* The inductive invariant.
IInv ==
    /\ TypeOK
    /\ DocumentInv
    /\ FieldInv
    /\ LinkInv
    /\ SigningInv
    /\ RevocationInv
    /\ IssueLocks
    /\ SigningLocks
    /\ RevocationLocks
    /\ OneReceipt
    /\ OneSuccessor

-----------------------------------------------------------------------------
\* Lemmas about locks

\* The end of a transaction frees what it holds and nothing else.
LEMMA UnlockedFacts ==
    ASSUME TypeOK, NEW t \in Holders, rowLock' = Unlocked(t)
    PROVE  /\ rowLock' \in [Agreements -> Holders \cup {None}]
           /\ \A h \in Agreements, u \in Holders : rowLock'[h] = u <=> u # t /\ rowLock[h] = u
  BY HoldersDisjoint DEF TypeOK, Unlocked, Holders

\* Taking a free row gives it to the taker and leaves the others alone.
LEMMA LockedFacts ==
    ASSUME TypeOK, NEW t \in Holders, NEW g \in Agreements, rowLock[g] = None,
           rowLock' = [rowLock EXCEPT ![g] = t]
    PROVE  /\ rowLock' \in [Agreements -> Holders \cup {None}]
           /\ \A h \in Agreements, u \in Holders :
                 rowLock'[h] = u <=> (u = t /\ h = g) \/ rowLock[h] = u
  BY HoldersDisjoint DEF TypeOK, Holders

LEMMA InitInv == Init => IInv
<1>. SUFFICES ASSUME Init PROVE IInv
  OBVIOUS
<1>1. /\ document = [current |-> 1, status |-> "draft"] /\ approved = {}
      /\ \A g \in Agreements : agreement[g] = NoAgreement
      /\ receipts = {}
      /\ \A g \in Agreements : rowLock[g] = None
      /\ \A s \in Signings : signing[s] = IdleSigning
      /\ \A v \in Revocations : revocation[v] = IdleRevocation
  BY DEF Init, Document!Init
<1>2. NoAgreement \in Agreement
  BY BoundsArePositive DEF NoAgreement, Agreement
<1>3. TypeOK
  BY <1>2, DraftKnown, BoundsArePositive
     DEF Init, Document!Init, TypeOK, IdleSigning, IdleRevocation, Signing, Revocation
<1>4. DocumentInv /\ FieldInv /\ LinkInv /\ SigningInv /\ RevocationInv
  BY <1>1 DEF DocumentInv, FieldInv, LinkInv, SigningInv, RevocationInv, NoAgreement,
              IdleSigning, IdleRevocation, Issued, InProgress, Open, Signed
<1>5. IssueLocks /\ SigningLocks /\ RevocationLocks
  BY <1>1, HoldersDisjoint
     DEF IssueLocks, SigningLocks, RevocationLocks, NoAgreement, IdleSigning, IdleRevocation
<1>6. OneReceipt /\ OneSuccessor
  BY <1>1 DEF OneReceipt, OneSuccessor, NoAgreement, IdleRevocation, Open, Signed
<1>. QED
  BY <1>3, <1>4, <1>5, <1>6 DEF IInv

-----------------------------------------------------------------------------
\* Issuing

\* What is never visible changes: no receipt, link or call is about it.
LEMMA UnissuedStep ==
    ASSUME IInv, NEW g \in Agreements, NEW x \in Agreement,
           agreement' = [agreement EXCEPT ![g] = x],
           UNCHANGED Issuing,
           agreement[g].status \notin Issued, x.status \notin Issued,
           x.successor = None,
           x.status \in InProgress => x.recipient \in Recipients /\ x.version \in approved,
           x.status = "inserted" => x.source # None,
           x.status \in {"absent", "lost"} => x.source = None,
           x.source # None => x.source # g /\ agreement[x.source].status = "due"
    PROVE  /\ rowLock' \in [Agreements -> Holders \cup {None}] => TypeOK'
           /\ DocumentInv' /\ FieldInv' /\ SigningInv' /\ RevocationInv'
           /\ OneReceipt' /\ OneSuccessor'
<1>1. /\ agreement' \in [Agreements -> Agreement]
      /\ agreement'[g] = x
      /\ \A h \in Agreements \ {g} : agreement'[h] = agreement[h]
      /\ \A h \in Agreements : h # g => agreement'[h] = agreement[h]
  BY DEF IInv, TypeOK
<1>2. UNCHANGED <<document, approved, receipts, signing, revocation>>
  BY DEF Issuing, docVars
<1>3. rowLock' \in [Agreements -> Holders \cup {None}] => TypeOK'
  BY <1>1, <1>2 DEF IInv, TypeOK, Holders
<1>4. DocumentInv'
  BY <1>2 DEF IInv, DocumentInv
<1>5. agreement[g].successor = None
  BY DEF IInv, FieldInv
<1>6. \A h \in Agreements : agreement[h].source # g
  BY HoldersDisjoint DEF IInv, FieldInv, Issued, Signed
<1>7. FieldInv'
  <2>. SUFFICES ASSUME NEW h \in Agreements
                PROVE  /\ agreement'[h].status \in InProgress \cup Issued =>
                             agreement'[h].recipient \in Recipients /\ agreement'[h].version \in approved
                       /\ agreement'[h].status \notin Issued => agreement'[h].successor = None
                       /\ agreement'[h].status = "inserted" => agreement'[h].source # None
                       /\ agreement'[h].status \in {"absent", "lost"} => agreement'[h].source = None
                       /\ agreement'[h].source # None =>
                             /\ agreement'[h].source # h
                             /\ agreement'[agreement'[h].source].status = "due"
    BY <1>2 DEF FieldInv
  <2>1. CASE h = g
    <3>1. x.source \in Agreements \cup {None}
      BY DEF Agreement
    <3>. QED
      BY <1>1, <2>1, <3>1
  <2>2. CASE h # g
    <3>1. agreement[h].source \in Agreements \cup {None}
      BY DEF IInv, TypeOK, Agreement
    <3>. QED
      BY <1>1, <1>6, <2>2, <3>1 DEF IInv, FieldInv
  <2>. QED
    BY <2>1, <2>2
<1>8. SigningInv' /\ RevocationInv'
  BY <1>1, <1>2 DEF IInv, SigningInv, RevocationInv, Issued
<1>9. OneReceipt'
  BY <1>1, <1>2 DEF IInv, OneReceipt, Issued, Signed
<1>10. OneSuccessor'
  <2>. SUFFICES ASSUME NEW h \in Agreements
                PROVE  {k \in Agreements : /\ agreement'[k].source = h
                                           /\ agreement'[k].status \in Open \cup Signed}
                       = {agreement'[h].successor} \ {None}
    BY DEF OneSuccessor
  <2>1. agreement'[h].successor = agreement[h].successor
    BY <1>1, <1>5
  <2>2. \A k \in Agreements :
            /\ agreement'[k].source = h
            /\ agreement'[k].status \in Open \cup Signed
            <=> /\ agreement[k].source = h
                /\ agreement[k].status \in Open \cup Signed
    BY <1>1 DEF Issued
  <2>. QED
    BY <2>1, <2>2 DEF IInv, OneSuccessor
<1>. QED
  BY <1>3, <1>4, <1>7, <1>8, <1>9, <1>10

\* Locks after a step that takes and frees none and leaves what they rest on.
LEMMA SameLocks ==
    ASSUME IInv, UNCHANGED rowLock,
           \A g \in Agreements : /\ agreement'[g].successor = agreement[g].successor
                                 /\ agreement'[g].status = "answered" <=> agreement[g].status = "answered"
                                 /\ agreement[g].status = "answered" => agreement'[g].source = agreement[g].source,
           UNCHANGED <<signing, revocation>>
    PROVE  IssueLocks' /\ SigningLocks' /\ RevocationLocks'
<1>1. IssueLocks'
  BY DEF IInv, IssueLocks
<1>2. SigningLocks'
  BY DEF IInv, SigningLocks
<1>3. RevocationLocks'
  BY DEF IInv, RevocationLocks
<1>. QED
  BY <1>1, <1>2, <1>3

\* A step of an issuing call g that does not answer and holds nothing.
LEMMA UnansweredStep ==
    ASSUME IInv, NEW g \in Agreements, NEW x \in Agreement,
           agreement' = [agreement EXCEPT ![g] = x],
           UNCHANGED <<Issuing, rowLock>>,
           agreement[g].status \notin Issued \cup {"answered"},
           x.status \notin Issued \cup {"answered"},
           x.successor = None,
           x.status \in InProgress => x.recipient \in Recipients /\ x.version \in approved,
           x.status = "inserted" => x.source # None,
           x.status \in {"absent", "lost"} => x.source = None,
           x.source # None => x.source # g /\ agreement[x.source].status = "due"
    PROVE  IInv'
<1>1. /\ rowLock' \in [Agreements -> Holders \cup {None}] => TypeOK'
      /\ DocumentInv' /\ FieldInv' /\ SigningInv' /\ RevocationInv'
      /\ OneReceipt' /\ OneSuccessor'
  BY UnissuedStep
<1>2. TypeOK'
  BY <1>1 DEF IInv, TypeOK, Holders
<1>3. /\ agreement'[g] = x
      /\ \A h \in Agreements : h # g => agreement'[h] = agreement[h]
  BY DEF IInv, TypeOK
<1>4. agreement[g].successor = None
  BY DEF IInv, FieldInv
<1>5. IssueLocks' /\ SigningLocks' /\ RevocationLocks'
  <2>1. \A h \in Agreements : /\ agreement'[h].successor = agreement[h].successor
                              /\ agreement'[h].status = "answered" <=> agreement[h].status = "answered"
                              /\ agreement[h].status = "answered" => agreement'[h].source = agreement[h].source
    BY <1>3, <1>4
  <2>. QED
    BY <2>1, SameLocks DEF Issuing
<1>6. LinkInv'
  <2>. SUFFICES ASSUME NEW h \in Agreements,
                       agreement'[h].status = "answered", agreement'[h].source # None
                PROVE  agreement'[agreement'[h].source].successor = None
    BY DEF LinkInv
  <2>1. agreement'[h] = agreement[h]
    BY <1>3
  <2>2. agreement[h].source \in Agreements
    BY <2>1 DEF IInv, TypeOK, Agreement
  <2>. QED
    BY <1>3, <1>4, <2>1, <2>2 DEF IInv, LinkInv
<1>. QED
  BY <1>1, <1>2, <1>5, <1>6 DEF IInv

LEMMA ReadInv ==
    ASSUME IInv, NEW g \in Agreements, NEW w \in Users,
           \/ \E p \in Recipients, recurring \in BOOLEAN : ReadApproved(g, w, p, recurring)
           \/ \E h \in Agreements : ReadForRenewal(g, w, h)
    PROVE  IInv'
<1>1. /\ agreement[g].status = "absent"
      /\ document.status = "approved"
      /\ UNCHANGED <<Issuing, rowLock>>
  BY DEF ReadApproved, ReadForRenewal, Unissued
<1>2. document.current \in approved /\ document.current \in 0 .. MaxVersion
  BY <1>1, BoundsArePositive DEF IInv, TypeOK, DocumentInv
<1>3. PICK x \in Agreement :
          /\ agreement' = [agreement EXCEPT ![g] = x]
          /\ x.status = "read" /\ x.successor = None
          /\ x.recipient \in Recipients /\ x.version \in approved
          /\ x.source # None => x.source # g /\ agreement[x.source].status = "due"
  <2>1. CASE \E p \in Recipients, recurring \in BOOLEAN : ReadApproved(g, w, p, recurring)
    <3>1. PICK p \in Recipients, recurring \in BOOLEAN : ReadApproved(g, w, p, recurring)
      BY <2>1
    <3>. DEFINE x == [NoAgreement EXCEPT !.status = "read", !.recipient = p,
                        !.version = document.current, !.recurring = recurring]
    <3>2. agreement' = [agreement EXCEPT ![g] = x]
      BY <3>1 DEF ReadApproved
    <3>3. /\ x \in Agreement
          /\ x.status = "read" /\ x.successor = None
          /\ x.recipient \in Recipients /\ x.version \in approved
          /\ x.source = None
      BY <1>2 DEF NoAgreement, Agreement, InProgress
    <3>. HIDE DEF x
    <3>. QED
      BY <3>2, <3>3
  <2>2. CASE \E h \in Agreements : ReadForRenewal(g, w, h)
    <3>1. PICK h \in Agreements : ReadForRenewal(g, w, h)
      BY <2>2
    <3>. DEFINE x == [NoAgreement EXCEPT !.status = "read", !.recipient = agreement[h].recipient,
                        !.version = document.current, !.recurring = TRUE, !.source = h]
    <3>2. agreement' = [agreement EXCEPT ![g] = x] /\ agreement[h].status = "due"
      BY <3>1 DEF ReadForRenewal
    <3>3. agreement[h].recipient \in Recipients
      BY <3>2 DEF IInv, FieldInv, Issued, Signed
    <3>4. /\ x \in Agreement
          /\ x.status = "read" /\ x.successor = None
          /\ x.recipient \in Recipients /\ x.version \in approved
          /\ x.source = h
      BY <1>2, <3>3 DEF NoAgreement, Agreement, InProgress
    <3>5. h # g
      BY <1>1, <3>2
    <3>. HIDE DEF x
    <3>. QED
      BY <3>2, <3>4, <3>5
  <2>. QED
    BY <2>1, <2>2
<1>. QED
  BY <1>1, <1>3, UnansweredStep DEF Issued, Open, Signed

\* A call that is refused leaves its number to the next one.
LEMMA RefusedInv ==
    ASSUME IInv, NEW g \in Agreements, Duplicate(g) \/ RenewedAlready(g)
    PROVE  IInv'
<1>1. /\ agreement[g].status \in {"read", "inserted"}
      /\ agreement' = [agreement EXCEPT ![g] = NoAgreement]
      /\ UNCHANGED <<Issuing, rowLock>>
  BY DEF Duplicate, RenewedAlready, Refused
<1>2. PICK x \in Agreement :
          /\ agreement' = [agreement EXCEPT ![g] = x]
          /\ x.status = "absent" /\ x.successor = None /\ x.source = None
  <2>1. NoAgreement \in Agreement
    BY BoundsArePositive DEF NoAgreement, Agreement
  <2>. QED
    BY <1>1, <2>1 DEF NoAgreement
<1>. QED
  BY <1>1, <1>2, UnansweredStep DEF Issued, Open, Signed, InProgress

\* The request with another status.
LEMMA StatusStep ==
    ASSUME IInv, NEW g \in Agreements, NEW s \in {"lost", "absent"} \cup InProgress \cup Issued,
           agreement' = [agreement EXCEPT ![g].status = s]
    PROVE  \E x \in Agreement :
              /\ agreement' = [agreement EXCEPT ![g] = x]
              /\ x.status = s
              /\ x.successor = agreement[g].successor
              /\ x.source = agreement[g].source
              /\ x.recipient = agreement[g].recipient
              /\ x.version = agreement[g].version
<1>. DEFINE x == [agreement[g] EXCEPT !.status = s]
<1>1. /\ x \in Agreement
      /\ x.status = s
      /\ x.successor = agreement[g].successor
      /\ x.source = agreement[g].source
      /\ x.recipient = agreement[g].recipient
      /\ x.version = agreement[g].version
  BY DEF IInv, TypeOK, Agreement
<1>2. agreement' = [agreement EXCEPT ![g] = x]
  OBVIOUS
<1>. HIDE DEF x
<1>. QED
  BY <1>1, <1>2

LEMMA InsertInv ==
    ASSUME IInv, NEW g \in Agreements, Insert(g)
    PROVE  IInv'
<1>1. /\ agreement[g].status = "read"
      /\ agreement' = [agreement EXCEPT ![g].status = AfterInsert(g)]
      /\ UNCHANGED <<Issuing, rowLock>>
  BY DEF Insert
<1>2. PICK x \in Agreement :
          /\ agreement' = [agreement EXCEPT ![g] = x]
          /\ x.status = AfterInsert(g)
          /\ x.successor = agreement[g].successor
          /\ x.source = agreement[g].source
          /\ x.recipient = agreement[g].recipient
          /\ x.version = agreement[g].version
  <2>1. PICK s \in {"lost", "absent"} \cup InProgress \cup Issued : s = AfterInsert(g)
    BY DEF AfterInsert, InProgress
  <2>2. agreement' = [agreement EXCEPT ![g].status = s]
    BY <1>1, <2>1
  <2>3. \E x \in Agreement :
            /\ agreement' = [agreement EXCEPT ![g] = x]
            /\ x.status = s
            /\ x.successor = agreement[g].successor
            /\ x.source = agreement[g].source
            /\ x.recipient = agreement[g].recipient
            /\ x.version = agreement[g].version
    BY <2>2, StatusStep
  <2>. QED
    BY <2>1, <2>3
<1>3. /\ x.successor = None
      /\ x.recipient \in Recipients /\ x.version \in approved
      /\ x.source # None => x.source # g /\ agreement[x.source].status = "due"
  BY <1>1, <1>2 DEF IInv, FieldInv, Issued, Open, Signed, InProgress
<1>4. CASE agreement[g].source # None
  <2>1. x.status = "inserted"
    BY <1>2, <1>4 DEF AfterInsert
  <2>. QED
    BY <1>1, <1>2, <1>3, <1>4, <2>1, UnansweredStep DEF Issued, Open, Signed
<1>5. CASE agreement[g].source = None
  <2>1. x.status = "answered" /\ x.source = None
    BY <1>2, <1>5 DEF AfterInsert
  <2>2. agreement[g].status \notin Issued /\ x.status \notin Issued
    BY <1>1, <2>1 DEF Issued, Open, Signed
  <2>3. /\ rowLock' \in [Agreements -> Holders \cup {None}] => TypeOK'
        /\ DocumentInv' /\ FieldInv' /\ SigningInv' /\ RevocationInv'
        /\ OneReceipt' /\ OneSuccessor'
    BY <1>1, <1>2, <1>3, <2>1, <2>2, UnissuedStep
  <2>4. TypeOK'
    BY <1>1, <2>3 DEF IInv, TypeOK, Holders
  <2>5. /\ agreement'[g] = x
        /\ \A h \in Agreements : h # g => agreement'[h] = agreement[h]
    BY <1>2 DEF IInv, TypeOK
  <2>6. UNCHANGED <<rowLock, signing, revocation>>
    BY <1>1 DEF Issuing
  <2>7. IssueLocks'
    BY <1>1, <1>5, <2>1, <2>5, <2>6, HoldersDisjoint DEF IInv, IssueLocks
  <2>8. SigningLocks'
    BY <2>6 DEF IInv, SigningLocks
  <2>9. RevocationLocks'
    BY <1>2, <2>5, <2>6 DEF IInv, RevocationLocks
  <2>10. LinkInv'
    <3>. SUFFICES ASSUME NEW h \in Agreements,
                         agreement'[h].status = "answered", agreement'[h].source # None
                  PROVE  agreement'[agreement'[h].source].successor = None
      BY DEF LinkInv
    <3>1. agreement'[h] = agreement[h]
      BY <2>1, <2>5
    <3>2. agreement[h].source \in Agreements
      BY <3>1 DEF IInv, TypeOK, Agreement
    <3>. QED
      BY <1>3, <2>5, <3>1, <3>2 DEF IInv, LinkInv
  <2>. QED
    BY <2>3, <2>4, <2>7, <2>8, <2>9, <2>10 DEF IInv
<1>. QED
  BY <1>4, <1>5

LEMMA SupersedeInv ==
    ASSUME IInv, NEW g \in Agreements, Supersede(g)
    PROVE  IInv'
<1>1. /\ agreement[g].status = "inserted"
      /\ agreement' = [agreement EXCEPT ![g].status = "answered"]
      /\ rowLock[agreement[g].source] = None
      /\ agreement[agreement[g].source].successor = None
      /\ rowLock' = [rowLock EXCEPT ![agreement[g].source] = g]
      /\ UNCHANGED Issuing
  BY DEF Supersede
<1>2. PICK x \in Agreement :
          /\ agreement' = [agreement EXCEPT ![g] = x]
          /\ x.status = "answered"
          /\ x.successor = agreement[g].successor
          /\ x.source = agreement[g].source
          /\ x.recipient = agreement[g].recipient
          /\ x.version = agreement[g].version
  <2>1. "answered" \in {"lost", "absent"} \cup InProgress \cup Issued
    BY DEF InProgress
  <2>2. agreement' = [agreement EXCEPT ![g].status = "answered"]
    BY <1>1
  <2>. QED
    BY <2>1, <2>2, StatusStep
<1>3. /\ x.successor = None
      /\ x.recipient \in Recipients /\ x.version \in approved
      /\ x.source # None /\ x.source # g /\ agreement[x.source].status = "due"
  BY <1>1, <1>2 DEF IInv, FieldInv, Issued, Open, Signed, InProgress
<1>4. PICK p \in Agreements : p = agreement[g].source /\ p = x.source
  BY <1>2, <1>3 DEF Agreement
<1>5. agreement[g].status \notin Issued /\ x.status \notin Issued
  BY <1>1, <1>2 DEF Issued, Open, Signed
<1>6. /\ rowLock' \in [Agreements -> Holders \cup {None}]
      /\ \A h \in Agreements, u \in Holders :
            rowLock'[h] = u <=> (u = g /\ h = p) \/ rowLock[h] = u
  BY <1>1, <1>4, LockedFacts DEF IInv, Holders
<1>7. /\ TypeOK'
      /\ DocumentInv' /\ FieldInv' /\ SigningInv' /\ RevocationInv'
      /\ OneReceipt' /\ OneSuccessor'
  BY <1>1, <1>2, <1>3, <1>5, <1>6, UnissuedStep
<1>8. /\ agreement'[g] = x
      /\ \A h \in Agreements : h # g => agreement'[h] = agreement[h]
  BY <1>2 DEF IInv, TypeOK
<1>9. UNCHANGED <<signing, revocation>>
  BY <1>1 DEF Issuing
<1>10. IssueLocks'
  BY <1>1, <1>2, <1>4, <1>6, <1>8 DEF IInv, IssueLocks, Holders
<1>11. SigningLocks'
  BY <1>6, <1>9, HoldersDisjoint DEF IInv, SigningLocks, Holders
<1>12. RevocationLocks'
  BY <1>2, <1>6, <1>8, <1>9, HoldersDisjoint DEF IInv, RevocationLocks, Holders
<1>13. LinkInv'
  <2>. SUFFICES ASSUME NEW h \in Agreements,
                       agreement'[h].status = "answered", agreement'[h].source # None
                PROVE  agreement'[agreement'[h].source].successor = None
    BY DEF LinkInv
  <2>1. CASE h = g
    BY <1>1, <1>3, <1>4, <1>8, <2>1
  <2>2. CASE h # g
    <3>1. agreement[h].source \in Agreements
      BY <1>8, <2>2 DEF IInv, TypeOK, Agreement
    <3>. QED
      BY <1>3, <1>8, <2>2, <3>1 DEF IInv, LinkInv
  <2>. QED
    BY <2>1, <2>2
<1>. QED
  BY <1>7, <1>10, <1>11, <1>12, <1>13 DEF IInv

LEMMA CrashIssueInv ==
    ASSUME IInv, NEW g \in Agreements, CrashIssue(g)
    PROVE  IInv'
<1>1. /\ agreement[g].status \in {"read", "inserted", "answered"}
      /\ agreement' = [agreement EXCEPT ![g] = [NoAgreement EXCEPT !.status = "lost"]]
      /\ rowLock' = Unlocked(g)
      /\ UNCHANGED Issuing
  BY DEF CrashIssue
<1>2. PICK x \in Agreement :
          /\ agreement' = [agreement EXCEPT ![g] = x]
          /\ x.status = "lost" /\ x.successor = None /\ x.source = None
  <2>. DEFINE x == [NoAgreement EXCEPT !.status = "lost"]
  <2>1. NoAgreement \in Agreement /\ NoAgreement.successor = None /\ NoAgreement.source = None
    BY BoundsArePositive DEF NoAgreement, Agreement
  <2>3. x \in Agreement /\ x.status = "lost" /\ x.successor = None /\ x.source = None
    BY <2>1 DEF Agreement
  <2>. HIDE DEF x
  <2>2. agreement' = [agreement EXCEPT ![g] = x]
    BY <1>1 DEF x
  <2>. QED
    BY <2>2, <2>3
<1>3. agreement[g].status \notin Issued /\ x.status \notin Issued \cup InProgress
  BY <1>1, <1>2 DEF Issued, Open, Signed, InProgress
<1>4. /\ rowLock' \in [Agreements -> Holders \cup {None}]
      /\ \A h \in Agreements, u \in Holders : rowLock'[h] = u <=> u # g /\ rowLock[h] = u
  BY <1>1, UnlockedFacts DEF IInv, Holders
<1>5. /\ TypeOK'
      /\ DocumentInv' /\ FieldInv' /\ SigningInv' /\ RevocationInv'
      /\ OneReceipt' /\ OneSuccessor'
  BY <1>1, <1>2, <1>3, <1>4, UnissuedStep
<1>6. /\ agreement'[g] = x
      /\ \A h \in Agreements : h # g => agreement'[h] = agreement[h]
      /\ agreement[g].successor = None
  BY <1>2, <1>3 DEF IInv, TypeOK, FieldInv
<1>7. UNCHANGED <<signing, revocation>>
  BY <1>1 DEF Issuing
<1>8. IssueLocks'
  BY <1>2, <1>4, <1>6 DEF IInv, IssueLocks, Holders
<1>9. SigningLocks'
  BY <1>4, <1>7, HoldersDisjoint DEF IInv, SigningLocks, Holders
<1>10. RevocationLocks'
  BY <1>2, <1>4, <1>6, <1>7, HoldersDisjoint DEF IInv, RevocationLocks, Holders
<1>11. LinkInv'
  <2>. SUFFICES ASSUME NEW h \in Agreements,
                       agreement'[h].status = "answered", agreement'[h].source # None
                PROVE  agreement'[agreement'[h].source].successor = None
    BY DEF LinkInv
  <2>1. agreement'[h] = agreement[h]
    BY <1>2, <1>6
  <2>2. agreement[h].source \in Agreements
    BY <2>1 DEF IInv, TypeOK, Agreement
  <2>. QED
    BY <1>2, <1>6, <2>1, <2>2 DEF IInv, LinkInv
<1>. QED
  BY <1>5, <1>8, <1>9, <1>10, <1>11 DEF IInv

\* The clock: nothing rests on which of the open, or of the signed, statuses it is.
LEMMA ClockInv ==
    ASSUME IInv, NEW g \in Agreements, Expire(g) \/ ComeDue(g)
    PROVE  IInv'
<1>1. UNCHANGED <<Issuing, rowLock>>
  BY DEF Expire, ComeDue
<1>2. PICK s \in {"expired", "due"} :
          /\ agreement' = [agreement EXCEPT ![g].status = s]
          /\ agreement[g].status = IF s = "due" THEN "acknowledged" ELSE "pending"
  BY DEF Expire, ComeDue
<1>3. PICK x \in Agreement :
          /\ agreement' = [agreement EXCEPT ![g] = x]
          /\ x.status = s
          /\ x.successor = agreement[g].successor
          /\ x.source = agreement[g].source
          /\ x.recipient = agreement[g].recipient
          /\ x.version = agreement[g].version
  <2>1. s \in {"lost", "absent"} \cup InProgress \cup Issued
    BY DEF Issued, Open, Signed
  <2>. QED
    BY <1>2, <2>1, StatusStep
<1>4. /\ agreement' \in [Agreements -> Agreement]
      /\ agreement'[g] = x
      /\ \A h \in Agreements : h # g => agreement'[h] = agreement[h]
  BY <1>3 DEF IInv, TypeOK
<1>5. UNCHANGED <<document, approved, receipts, rowLock, signing, revocation>>
  BY <1>1 DEF Issuing, docVars
<1>6. \A h \in Agreements :
          /\ agreement'[h].successor = agreement[h].successor
          /\ agreement'[h].source = agreement[h].source
          /\ agreement'[h].recipient = agreement[h].recipient
          /\ agreement'[h].version = agreement[h].version
          /\ \A t \in InProgress \cup {"absent", "lost", "revoked"} :
                agreement'[h].status = t <=> agreement[h].status = t
          /\ agreement[h].status = "due" => agreement'[h].status = "due"
          /\ agreement'[h].status \in Open <=> agreement[h].status \in Open
          /\ agreement'[h].status \in Signed <=> agreement[h].status \in Signed
  BY <1>2, <1>3, <1>4 DEF Open, Signed, InProgress
<1>7. TypeOK'
  BY <1>4, <1>5 DEF IInv, TypeOK
<1>8. DocumentInv'
  BY <1>5 DEF IInv, DocumentInv
<1>9. FieldInv'
  <2>. SUFFICES ASSUME NEW h \in Agreements
                PROVE  /\ agreement'[h].status \in InProgress \cup Issued =>
                             agreement'[h].recipient \in Recipients /\ agreement'[h].version \in approved
                       /\ agreement'[h].status \notin Issued => agreement'[h].successor = None
                       /\ agreement'[h].status = "inserted" => agreement'[h].source # None
                       /\ agreement'[h].status \in {"absent", "lost"} => agreement'[h].source = None
                       /\ agreement'[h].source # None =>
                             /\ agreement'[h].source # h
                             /\ agreement'[agreement'[h].source].status = "due"
    BY <1>5 DEF FieldInv
  <2>1. agreement[h].source \in Agreements \cup {None}
    BY DEF IInv, TypeOK, Agreement
  <2>2. agreement'[h].status \in Issued <=> agreement[h].status \in Issued
    BY <1>6 DEF Issued
  <2>3. agreement'[h].status \in InProgress <=> agreement[h].status \in InProgress
    BY <1>6
  <2>4. /\ agreement'[h].status = "inserted" <=> agreement[h].status = "inserted"
        /\ agreement'[h].status \in {"absent", "lost"} <=> agreement[h].status \in {"absent", "lost"}
    BY <1>6 DEF InProgress
  <2>. QED
    BY <1>6, <2>1, <2>2, <2>3, <2>4 DEF IInv, FieldInv
<1>10. LinkInv'
  <2>. SUFFICES ASSUME NEW h \in Agreements,
                       agreement'[h].status = "answered", agreement'[h].source # None
                PROVE  agreement'[agreement'[h].source].successor = None
    BY DEF LinkInv
  <2>1. agreement[h].source \in Agreements /\ agreement[h].status = "answered"
    BY <1>6 DEF IInv, TypeOK, Agreement, InProgress
  <2>. QED
    BY <1>6, <2>1 DEF IInv, LinkInv
<1>11. SigningInv' /\ RevocationInv'
  BY <1>5, <1>6 DEF IInv, SigningInv, RevocationInv
<1>12. IssueLocks' /\ SigningLocks' /\ RevocationLocks'
  <2>1. \A h \in Agreements : /\ agreement'[h].successor = agreement[h].successor
                              /\ agreement'[h].status = "answered" <=> agreement[h].status = "answered"
                              /\ agreement[h].status = "answered" => agreement'[h].source = agreement[h].source
    BY <1>6 DEF InProgress
  <2>. QED
    BY <1>5, <2>1, SameLocks
<1>13. OneReceipt'
  BY <1>5, <1>6 DEF IInv, OneReceipt
<1>14. OneSuccessor'
  BY <1>6 DEF IInv, OneSuccessor
<1>. QED
  BY <1>7, <1>8, <1>9, <1>10, <1>11, <1>12, <1>13, <1>14 DEF IInv

\* The commit makes the request visible and the successor of the one it renews.
LEMMA CommitIssueInv ==
    ASSUME IInv, NEW g \in Agreements, CommitIssue(g)
    PROVE  IInv'
<1>1. /\ agreement[g].status = "answered"
      /\ rowLock' = Unlocked(g)
      /\ UNCHANGED <<document, approved, receipts, signing, revocation>>
  BY DEF CommitIssue, Issuing, docVars
<1>2. PICK p \in Agreements \cup {None} : p = agreement[g].source
  BY DEF IInv, TypeOK, Agreement
<1>3. /\ agreement[g].successor = None
      /\ agreement[g].recipient \in Recipients /\ agreement[g].version \in approved
      /\ p # None => /\ p # g
                     /\ agreement[p].status = "due"
                     /\ agreement[p].successor = None
  BY <1>1, <1>2 DEF IInv, FieldInv, LinkInv, Issued, Open, Signed, InProgress
<1>4. /\ agreement' \in [Agreements -> Agreement]
      /\ \A h \in Agreements :
            /\ agreement'[h].status = IF h = g THEN "pending" ELSE agreement[h].status
            /\ agreement'[h].successor = IF h = p THEN g ELSE agreement[h].successor
            /\ agreement'[h].source = agreement[h].source
            /\ agreement'[h].recipient = agreement[h].recipient
            /\ agreement'[h].version = agreement[h].version
  <2>1. agreement' = [h \in Agreements |->
            IF h = g THEN [agreement[g] EXCEPT !.status = "pending"]
            ELSE IF h = p THEN [agreement[h] EXCEPT !.successor = g]
            ELSE agreement[h]]
    BY <1>2 DEF CommitIssue
  <2>2. \A h \in Agreements : agreement[h] \in Agreement
    BY DEF IInv, TypeOK
  <2>3. "pending" \in Issued
    BY DEF Issued, Open
  <2>4. \A h \in Agreements :
            /\ [agreement[h] EXCEPT !.status = "pending"] \in Agreement
            /\ [agreement[h] EXCEPT !.successor = g] \in Agreement
    BY <2>2, <2>3 DEF Agreement
  <2>5. agreement' \in [Agreements -> Agreement]
    BY <2>1, <2>2, <2>4
  <2>6. ASSUME NEW h \in Agreements
        PROVE  /\ agreement'[h].status = IF h = g THEN "pending" ELSE agreement[h].status
               /\ agreement'[h].successor = IF h = p THEN g ELSE agreement[h].successor
               /\ agreement'[h].source = agreement[h].source
               /\ agreement'[h].recipient = agreement[h].recipient
               /\ agreement'[h].version = agreement[h].version
    <3>1. CASE h = g
      <4>1. agreement'[h] = [agreement[h] EXCEPT !.status = "pending"]
        BY <2>1, <3>1
      <4>2. h # p
        BY <1>3, <3>1, HoldersDisjoint
      <4>. QED
        BY <2>2, <3>1, <4>1, <4>2 DEF Agreement
    <3>2. CASE h # g /\ h = p
      <4>1. agreement'[h] = [agreement[h] EXCEPT !.successor = g]
        BY <2>1, <3>2
      <4>. QED
        BY <2>2, <3>2, <4>1 DEF Agreement
    <3>3. CASE h # g /\ h # p
      BY <2>1, <3>3
    <3>. QED
      BY <3>1, <3>2, <3>3
  <2>. QED
    BY <2>5, <2>6
<1>5. /\ rowLock' \in [Agreements -> Holders \cup {None}]
      /\ \A h \in Agreements, u \in Holders : rowLock'[h] = u <=> u # g /\ rowLock[h] = u
  BY <1>1, UnlockedFacts DEF IInv, Holders
<1>6. TypeOK'
  BY <1>1, <1>4, <1>5 DEF IInv, TypeOK, Holders
<1>7. DocumentInv'
  BY <1>1 DEF IInv, DocumentInv
<1>8. \A h \in Agreements : agreement[h].source \in Agreements \cup {None}
  BY DEF IInv, TypeOK, Agreement
<1>9. \A h \in Agreements : agreement[h].source # g
  BY <1>1, HoldersDisjoint DEF IInv, FieldInv
<1>10. FieldInv'
  <2>. SUFFICES ASSUME NEW h \in Agreements
                PROVE  /\ agreement'[h].status \in InProgress \cup Issued =>
                             agreement'[h].recipient \in Recipients /\ agreement'[h].version \in approved
                       /\ agreement'[h].status \notin Issued => agreement'[h].successor = None
                       /\ agreement'[h].status = "inserted" => agreement'[h].source # None
                       /\ agreement'[h].status \in {"absent", "lost"} => agreement'[h].source = None
                       /\ agreement'[h].source # None =>
                             /\ agreement'[h].source # h
                             /\ agreement'[agreement'[h].source].status = "due"
    BY <1>1 DEF FieldInv
  <2>1. CASE h = g
    BY <1>2, <1>3, <1>4, <1>8, <2>1 DEF Issued, Open
  <2>2. CASE h # g /\ h = p
    BY <1>3, <1>4, <1>8, <1>9, <2>2, HoldersDisjoint DEF IInv, FieldInv, Issued, Signed
  <2>3. CASE h # g /\ h # p
    BY <1>4, <1>8, <1>9, <2>3 DEF IInv, FieldInv
  <2>. QED
    BY <2>1, <2>2, <2>3
<1>11. LinkInv'
  <2>. SUFFICES ASSUME NEW h \in Agreements,
                       agreement'[h].status = "answered", agreement'[h].source # None
                PROVE  agreement'[agreement'[h].source].successor = None
    BY DEF LinkInv
  <2>1. h # g /\ agreement[h].status = "answered" /\ agreement[h].source \in Agreements
    BY <1>4, <1>8
  <2>2. agreement[h].source # p
    <3>1. rowLock[agreement[h].source] = h
      BY <2>1 DEF IInv, IssueLocks
    <3>2. p \in Agreements => rowLock[p] = g
      BY <1>1, <1>2 DEF IInv, IssueLocks
    <3>. QED
      BY <2>1, <3>1, <3>2
  <2>. QED
    BY <1>4, <2>1, <2>2 DEF IInv, LinkInv
<1>12. SigningInv' /\ RevocationInv'
  BY <1>1, <1>4 DEF IInv, SigningInv, RevocationInv, Open
<1>13. IssueLocks'
  BY <1>4, <1>5 DEF IInv, IssueLocks, Holders
<1>14. SigningLocks'
  BY <1>1, <1>5, HoldersDisjoint DEF IInv, SigningLocks, Holders
<1>15. RevocationLocks'
  <2>. SUFFICES ASSUME NEW h \in Agreements, NEW v \in Revocations
                PROVE  rowLock'[h] = v <=>
                           \/ revocation[v].pc \in {"taken", "answered"} /\ revocation[v].agreement = h
                           \/ revocation[v].pc = "answered" /\ agreement'[h].successor = revocation[v].agreement
    BY <1>1 DEF RevocationLocks
  <2>1. rowLock'[h] = v <=> rowLock[h] = v
    BY <1>5, HoldersDisjoint DEF Holders
  <2>2. revocation[v].pc = "answered" => revocation[v].agreement # g
    BY <1>1 DEF IInv, RevocationInv, Open
  <2>3. revocation[v].pc = "answered" => revocation[v].agreement # None
    BY HoldersDisjoint DEF IInv, RevocationInv
  <2>4. rowLock[h] = v <=>
            \/ revocation[v].pc \in {"taken", "answered"} /\ revocation[v].agreement = h
            \/ revocation[v].pc = "answered" /\ agreement[h].successor = revocation[v].agreement
    BY DEF IInv, RevocationLocks
  <2>5. CASE h = p
    <3>1. agreement'[h].successor = g /\ agreement[h].successor = None
      BY <1>3, <1>4, <2>5, HoldersDisjoint
    <3>. QED
      BY <2>1, <2>2, <2>3, <2>4, <3>1
  <2>6. CASE h # p
    BY <1>4, <2>1, <2>4, <2>6
  <2>. QED
    BY <2>5, <2>6
<1>16. OneReceipt'
  BY <1>1, <1>4 DEF IInv, OneReceipt, Signed
<1>17. OneSuccessor'
  <2>. SUFFICES ASSUME NEW h \in Agreements
                PROVE  {k \in Agreements : /\ agreement'[k].source = h
                                           /\ agreement'[k].status \in Open \cup Signed}
                       = {agreement'[h].successor} \ {None}
    BY DEF OneSuccessor
  <2>1. {k \in Agreements : agreement[k].source = h /\ agreement[k].status \in Open \cup Signed}
        = {agreement[h].successor} \ {None}
    BY DEF IInv, OneSuccessor
  <2>2. CASE h = p
    <3>1. \A k \in Agreements : /\ agreement'[k].source = h
                                /\ agreement'[k].status \in Open \cup Signed
                                <=> k = g
      BY <1>2, <1>3, <1>4, <2>1, <2>2, HoldersDisjoint DEF Open
    <3>2. agreement'[h].successor = g /\ g # None
      BY <1>4, <2>2, HoldersDisjoint
    <3>. QED
      BY <3>1, <3>2
  <2>3. CASE h # p
    <3>1. \A k \in Agreements : /\ agreement'[k].source = h
                                /\ agreement'[k].status \in Open \cup Signed
                                <=> /\ agreement[k].source = h
                                    /\ agreement[k].status \in Open \cup Signed
      BY <1>2, <1>4, <2>3
    <3>. QED
      BY <1>4, <2>1, <2>3, <3>1
  <2>. QED
    BY <2>2, <2>3
<1>. QED
  BY <1>6, <1>7, <1>10, <1>11, <1>12, <1>13, <1>14, <1>15, <1>16, <1>17 DEF IInv

-----------------------------------------------------------------------------
\* Acknowledgement

\* A step that leaves document, requests and receipts alone.
LEMMA QuietStep ==
    ASSUME IInv, UNCHANGED <<docVars, agreement, receipts>>
    PROVE  DocumentInv' /\ FieldInv' /\ LinkInv' /\ OneSuccessor'
<1>1. UNCHANGED <<document, approved, agreement>>
  BY DEF docVars
<1>2. DocumentInv' /\ FieldInv'
  BY <1>1 DEF IInv, DocumentInv, FieldInv
<1>3. LinkInv' /\ OneSuccessor'
  BY <1>1 DEF IInv, LinkInv, OneSuccessor
<1>. QED
  BY <1>2, <1>3

\* One acknowledgement takes a step after which it holds what it held before.
LEMMA SteadySigning ==
    ASSUME IInv, NEW s \in Signings, NEW x \in Signing,
           UNCHANGED <<docVars, agreement, receipts, rowLock, revocation>>,
           signing' = [signing EXCEPT ![s] = x],
           signing[s].pc = "consumed" <=> x.pc = "consumed",
           x.pc = "consumed" => x.agreement = signing[s].agreement,
           x.pc = "begun" => x.agreement \in Agreements
    PROVE  IInv'
<1>1. DocumentInv' /\ FieldInv' /\ LinkInv' /\ OneSuccessor'
  BY QuietStep
<1>2. /\ signing' \in [Signings -> Signing]
      /\ signing'[s] = x
      /\ \A u \in Signings : u # s => signing'[u] = signing[u]
  BY DEF IInv, TypeOK
<1>3. TypeOK'
  BY <1>2 DEF IInv, TypeOK, docVars
<1>4. SigningInv' /\ RevocationInv'
  BY <1>2 DEF IInv, SigningInv, RevocationInv
<1>5. IssueLocks' /\ SigningLocks' /\ RevocationLocks'
  BY <1>2 DEF IInv, IssueLocks, SigningLocks, RevocationLocks
<1>6. OneReceipt'
  BY DEF IInv, OneReceipt
<1>. QED
  BY <1>1, <1>3, <1>4, <1>5, <1>6 DEF IInv

LEMMA PresentInv ==
    ASSUME IInv, NEW s \in Signings, NEW g \in Agreements, Present(s, g)
    PROVE  IInv'
<1>1. /\ signing[s].pc = "idle"
      /\ UNCHANGED <<docVars, agreement, receipts, rowLock, revocation>>
  BY DEF Present
<1>2. PICK x \in Signing : /\ signing' = [signing EXCEPT ![s] = x]
                           /\ x.pc = "begun" /\ x.agreement = g
  <2>. DEFINE x == [IdleSigning EXCEPT !.pc = "begun", !.agreement = g,
                                       !.fresh = agreement[g].status # "expired"]
  <2>1. x \in Signing /\ x.pc = "begun" /\ x.agreement = g
    BY DEF Signing, IdleSigning
  <2>2. signing' = [signing EXCEPT ![s] = x]
    BY DEF Present
  <2>. HIDE DEF x
  <2>. QED
    BY <2>1, <2>2
<1>. QED
  BY <1>1, <1>2, SteadySigning

LEMMA RefuseSigningInv ==
    ASSUME IInv, NEW s \in Signings, RefuseSigning(s)
    PROVE  IInv'
<1>1. /\ signing[s].pc = "begun"
      /\ UNCHANGED <<docVars, agreement, receipts, rowLock, revocation>>
  BY DEF RefuseSigning
<1>2. PICK x \in Signing : signing' = [signing EXCEPT ![s] = x] /\ x.pc = "idle"
  <2>1. IdleSigning \in Signing /\ IdleSigning.pc = "idle"
    BY DEF IdleSigning, Signing
  <2>2. signing' = [signing EXCEPT ![s] = IdleSigning]
    BY DEF RefuseSigning
  <2>. QED
    BY <2>1, <2>2
<1>. QED
  BY <1>1, <1>2, SteadySigning

LEMMA ConsumeInv ==
    ASSUME IInv, NEW s \in Signings, Consume(s)
    PROVE  IInv'
<1>1. PICK g \in Agreements :
          /\ signing[s].pc = "begun" /\ signing[s].agreement = g
          /\ rowLock[g] = None
          /\ agreement[g].status \in Open
          /\ rowLock' = [rowLock EXCEPT ![g] = s]
          /\ signing' = [signing EXCEPT ![s].pc = "consumed"]
          /\ UNCHANGED <<docVars, agreement, receipts, revocation>>
  BY DEF Consume, IInv, SigningInv
<1>2. DocumentInv' /\ FieldInv' /\ LinkInv' /\ OneSuccessor'
  BY <1>1, QuietStep
<1>3. /\ signing' \in [Signings -> Signing]
      /\ signing'[s].pc = "consumed" /\ signing'[s].agreement = g
      /\ \A u \in Signings : u # s => signing'[u] = signing[u]
  BY <1>1 DEF IInv, TypeOK, Signing
<1>4. /\ rowLock' \in [Agreements -> Holders \cup {None}]
      /\ \A h \in Agreements, u \in Holders :
            rowLock'[h] = u <=> (u = s /\ h = g) \/ rowLock[h] = u
  BY <1>1, LockedFacts DEF IInv, Holders
<1>5. TypeOK'
  BY <1>1, <1>3, <1>4 DEF IInv, TypeOK, docVars, Holders
<1>6. SigningInv' /\ RevocationInv'
  BY <1>1, <1>3 DEF IInv, SigningInv, RevocationInv
<1>7. IssueLocks'
  BY <1>1, <1>4, HoldersDisjoint DEF IInv, IssueLocks, Holders
<1>8. SigningLocks'
  BY <1>1, <1>3, <1>4 DEF IInv, SigningLocks, Holders
<1>9. RevocationLocks'
  BY <1>1, <1>4, HoldersDisjoint DEF IInv, RevocationLocks, Holders
<1>10. OneReceipt'
  BY <1>1 DEF IInv, OneReceipt
<1>. QED
  BY <1>2, <1>5, <1>6, <1>7, <1>8, <1>9, <1>10 DEF IInv

LEMMA ResolveSignerInv ==
    ASSUME IInv, NEW s \in Signings, ResolveSigner(s)
    PROVE  IInv'
<1>. DEFINE p == agreement[signing[s].agreement].recipient
            x == [signing[s] EXCEPT !.signer = p]
<1>1. /\ signing[s].pc = "consumed"
      /\ signing' = [signing EXCEPT ![s] = x]
      /\ UNCHANGED <<docVars, agreement, receipts, rowLock, revocation>>
  BY DEF ResolveSigner
<1>2. p \in Recipients
  BY <1>1 DEF IInv, SigningInv, FieldInv, Issued
<1>3. x \in Signing /\ x.pc = "consumed" /\ x.agreement = signing[s].agreement
  BY <1>1, <1>2 DEF IInv, TypeOK, Signing
<1>. HIDE DEF x
<1>. QED
  BY <1>1, <1>3, SteadySigning

LEMMA CrashSigningInv ==
    ASSUME IInv, NEW s \in Signings, CrashSigning(s)
    PROVE  IInv'
<1>1. /\ rowLock' = Unlocked(s)
      /\ UNCHANGED <<docVars, agreement, receipts, revocation>>
  BY DEF CrashSigning
<1>2. DocumentInv' /\ FieldInv' /\ LinkInv' /\ OneSuccessor'
  BY <1>1, QuietStep
<1>3. /\ signing' \in [Signings -> Signing]
      /\ signing'[s].pc = "ended"
      /\ \A u \in Signings : u # s => signing'[u] = signing[u]
  BY DEF CrashSigning, IInv, TypeOK, Signing, IdleSigning
<1>4. /\ rowLock' \in [Agreements -> Holders \cup {None}]
      /\ \A h \in Agreements, u \in Holders : rowLock'[h] = u <=> u # s /\ rowLock[h] = u
  BY <1>1, UnlockedFacts DEF IInv, Holders
<1>5. TypeOK'
  BY <1>1, <1>3, <1>4 DEF IInv, TypeOK, docVars, Holders
<1>6. SigningInv' /\ RevocationInv'
  BY <1>1, <1>3 DEF IInv, SigningInv, RevocationInv
<1>7. IssueLocks'
  BY <1>1, <1>4, HoldersDisjoint DEF IInv, IssueLocks, Holders
<1>8. SigningLocks'
  BY <1>3, <1>4 DEF IInv, SigningLocks, Holders
<1>9. RevocationLocks'
  BY <1>1, <1>4, HoldersDisjoint DEF IInv, RevocationLocks, Holders
<1>10. OneReceipt'
  BY <1>1 DEF IInv, OneReceipt
<1>. QED
  BY <1>2, <1>5, <1>6, <1>7, <1>8, <1>9, <1>10 DEF IInv

\* The receipt appears with the status, in one commit.
LEMMA CommitSigningInv ==
    ASSUME IInv, NEW s \in Signings, CommitSigning(s)
    PROVE  IInv'
<1>1. PICK g \in Agreements :
          /\ signing[s].pc = "consumed" /\ signing[s].agreement = g
          /\ agreement[g].status \in Open
          /\ agreement' = [agreement EXCEPT ![g].status = "acknowledged"]
          /\ receipts' = receipts \cup {[agreement |-> g, version |-> agreement[g].version,
                                         signer |-> agreement[g].recipient]}
          /\ rowLock' = Unlocked(s)
          /\ signing' = [signing EXCEPT ![s] = IdleSigning]
          /\ UNCHANGED <<document, approved, revocation>>
  BY DEF CommitSigning, ReceiptOf, docVars, IInv, SigningInv
<1>2. PICK x \in Agreement :
          /\ agreement' = [agreement EXCEPT ![g] = x]
          /\ x.status = "acknowledged"
          /\ x.successor = agreement[g].successor
          /\ x.source = agreement[g].source
          /\ x.recipient = agreement[g].recipient
          /\ x.version = agreement[g].version
  <2>1. "acknowledged" \in {"lost", "absent"} \cup InProgress \cup Issued
    BY DEF Issued, Signed
  <2>2. agreement' = [agreement EXCEPT ![g].status = "acknowledged"]
    BY <1>1
  <2>. QED
    BY <2>1, <2>2, StatusStep
<1>3. /\ agreement' \in [Agreements -> Agreement]
      /\ \A h \in Agreements :
            /\ agreement'[h].status = IF h = g THEN "acknowledged" ELSE agreement[h].status
            /\ agreement'[h].successor = agreement[h].successor
            /\ agreement'[h].source = agreement[h].source
            /\ agreement'[h].recipient = agreement[h].recipient
            /\ agreement'[h].version = agreement[h].version
  BY <1>2 DEF IInv, TypeOK
<1>4. /\ agreement[g].recipient \in Recipients /\ agreement[g].version \in approved
      /\ approved \subseteq 1 .. MaxVersion
  BY <1>1 DEF IInv, TypeOK, FieldInv, Issued
<1>5. /\ signing' \in [Signings -> Signing]
      /\ signing'[s].pc = "idle"
      /\ \A u \in Signings : u # s => signing'[u] = signing[u]
  BY <1>1 DEF IInv, TypeOK, IdleSigning, Signing
<1>6. /\ rowLock' \in [Agreements -> Holders \cup {None}]
      /\ \A h \in Agreements, u \in Holders : rowLock'[h] = u <=> u # s /\ rowLock[h] = u
  BY <1>1, UnlockedFacts DEF IInv, Holders
<1>7. receipts' \subseteq Receipt
  BY <1>1, <1>4 DEF IInv, TypeOK, Receipt
<1>8. TypeOK'
  BY <1>1, <1>3, <1>5, <1>6, <1>7 DEF IInv, TypeOK, Holders
<1>9. DocumentInv'
  BY <1>1 DEF IInv, DocumentInv
<1>10. \A h \in Agreements : agreement[h].source \in Agreements \cup {None} /\ agreement[h].source # g
  BY <1>1, HoldersDisjoint DEF IInv, TypeOK, Agreement, FieldInv, Open
<1>11. FieldInv'
  <2>. SUFFICES ASSUME NEW h \in Agreements
                PROVE  /\ agreement'[h].status \in InProgress \cup Issued =>
                             agreement'[h].recipient \in Recipients /\ agreement'[h].version \in approved
                       /\ agreement'[h].status \notin Issued => agreement'[h].successor = None
                       /\ agreement'[h].status = "inserted" => agreement'[h].source # None
                       /\ agreement'[h].status \in {"absent", "lost"} => agreement'[h].source = None
                       /\ agreement'[h].source # None =>
                             /\ agreement'[h].source # h
                             /\ agreement'[agreement'[h].source].status = "due"
    BY <1>1 DEF FieldInv
  <2>1. CASE h = g
    BY <1>3, <1>4, <1>10, <2>1 DEF IInv, FieldInv, Issued, Signed
  <2>2. CASE h # g
    BY <1>3, <1>10, <2>2 DEF IInv, FieldInv
  <2>. QED
    BY <2>1, <2>2
<1>12. LinkInv'
  <2>. SUFFICES ASSUME NEW h \in Agreements,
                       agreement'[h].status = "answered", agreement'[h].source # None
                PROVE  agreement'[agreement'[h].source].successor = None
    BY DEF LinkInv
  <2>. QED
    BY <1>3, <1>10 DEF IInv, LinkInv
<1>13. SigningInv'
  <2>. SUFFICES ASSUME NEW u \in Signings
                PROVE  /\ signing'[u].pc \in {"begun", "consumed"} => signing'[u].agreement \in Agreements
                       /\ signing'[u].pc = "consumed" => agreement'[signing'[u].agreement].status \in Open
    BY DEF SigningInv
  <2>1. CASE u = s
    BY <1>5, <2>1
  <2>2. CASE u # s
    <3>1. signing[u].pc = "consumed" => signing[u].agreement # g
      BY <1>1, <2>2 DEF IInv, SigningLocks
    <3>. QED
      BY <1>3, <1>5, <2>2, <3>1 DEF IInv, SigningInv
  <2>. QED
    BY <2>1, <2>2
<1>14. RevocationInv'
  <2>1. \A v \in Revocations : revocation[v].pc \in {"taken", "answered"} => revocation[v].agreement # g
    <3>1. rowLock[g] = s
      BY <1>1 DEF IInv, SigningLocks
    <3>2. \A v \in Revocations : rowLock[g] # v
      BY <3>1, HoldersDisjoint
    <3>. QED
      BY <3>2 DEF IInv, RevocationLocks
  <2>. QED
    BY <1>1, <1>3, <2>1 DEF IInv, RevocationInv
<1>15. IssueLocks'
  BY <1>1, <1>3, <1>6, HoldersDisjoint DEF IInv, IssueLocks, Holders, Open
<1>16. SigningLocks'
  BY <1>5, <1>6 DEF IInv, SigningLocks, Holders
<1>17. RevocationLocks'
  BY <1>1, <1>3, <1>6, HoldersDisjoint DEF IInv, RevocationLocks, Holders
<1>18. OneReceipt'
  <2>. SUFFICES ASSUME NEW h \in Agreements
                PROVE  /\ {y \in receipts' : y.agreement = h} =
                              IF agreement'[h].status \in Signed
                              THEN {[agreement |-> h, version |-> agreement'[h].version,
                                     signer |-> agreement'[h].recipient]}
                              ELSE {}
                       /\ agreement'[h].status = "revoked" <=>
                              \E v \in Revocations : revocation[v] = [pc |-> "revoked", agreement |-> h]
    BY <1>1 DEF OneReceipt
  <2>1. /\ {y \in receipts : y.agreement = h} =
               IF agreement[h].status \in Signed
               THEN {[agreement |-> h, version |-> agreement[h].version,
                      signer |-> agreement[h].recipient]}
               ELSE {}
        /\ agreement[h].status = "revoked" <=>
               \E v \in Revocations : revocation[v] = [pc |-> "revoked", agreement |-> h]
    BY DEF IInv, OneReceipt
  <2>2. agreement'[h].status = "revoked" <=> agreement[h].status = "revoked"
    BY <1>1, <1>3 DEF Open
  <2>3. CASE h = g
    <3>1. {y \in receipts : y.agreement = h} = {}
      BY <1>1, <2>1, <2>3 DEF Open, Signed
    <3>2. {y \in receipts' : y.agreement = h} =
              {[agreement |-> h, version |-> agreement[h].version,
                signer |-> agreement[h].recipient]}
      BY <1>1, <2>3, <3>1
    <3>. QED
      BY <1>3, <2>1, <2>2, <2>3, <3>2 DEF Signed
  <2>4. CASE h # g
    <3>1. {y \in receipts' : y.agreement = h} = {y \in receipts : y.agreement = h}
      BY <1>1, <2>4
    <3>. QED
      BY <1>3, <2>1, <2>2, <2>4, <3>1
  <2>. QED
    BY <2>3, <2>4
<1>19. OneSuccessor'
  <2>1. \A k \in Agreements : agreement'[k].status \in Open \cup Signed <=>
                              agreement[k].status \in Open \cup Signed
    BY <1>1, <1>3 DEF Signed
  <2>. QED
    BY <1>3, <2>1 DEF IInv, OneSuccessor
<1>. QED
  BY <1>8, <1>9, <1>11, <1>12, <1>13, <1>14, <1>15, <1>16, <1>17, <1>18, <1>19 DEF IInv

-----------------------------------------------------------------------------
\* Revocation

\* One revocation changes its own record, and not to or from what revokes.
LEMMA ReceiptsUnmoved ==
    ASSUME IInv, NEW v \in Revocations,
           UNCHANGED <<agreement, receipts>>,
           \A u \in Revocations : u # v => revocation'[u] = revocation[u],
           revocation[v].pc # "revoked", revocation'[v].pc # "revoked"
    PROVE  OneReceipt'
<1>1. \A g \in Agreements :
          (\E u \in Revocations : revocation'[u] = [pc |-> "revoked", agreement |-> g])
          <=> (\E u \in Revocations : revocation[u] = [pc |-> "revoked", agreement |-> g])
  OBVIOUS
<1>. QED
  BY <1>1 DEF IInv, OneReceipt

LEMMA UnheldRevocation ==
    ASSUME IInv, NEW v \in Revocations, NEW x \in Revocation,
           UNCHANGED <<docVars, agreement, receipts, rowLock, signing>>,
           revocation' = [revocation EXCEPT ![v] = x],
           revocation[v].pc \in {"idle", "begun"}, x.pc \in {"idle", "begun"},
           x.pc = "begun" => x.agreement \in Agreements
    PROVE  IInv'
<1>1. DocumentInv' /\ FieldInv' /\ LinkInv' /\ OneSuccessor'
  BY QuietStep
<1>2. /\ revocation' \in [Revocations -> Revocation]
      /\ revocation'[v] = x
      /\ \A u \in Revocations : u # v => revocation'[u] = revocation[u]
  BY DEF IInv, TypeOK
<1>3. TypeOK'
  BY <1>2 DEF IInv, TypeOK, docVars
<1>4. SigningInv' /\ RevocationInv'
  BY <1>2 DEF IInv, SigningInv, RevocationInv
<1>5. IssueLocks' /\ SigningLocks' /\ RevocationLocks'
  BY <1>2 DEF IInv, IssueLocks, SigningLocks, RevocationLocks
<1>6. OneReceipt'
  BY <1>2, ReceiptsUnmoved
<1>. QED
  BY <1>1, <1>3, <1>4, <1>5, <1>6 DEF IInv

LEMMA BeginRevocationInv ==
    ASSUME IInv, NEW v \in Revocations, NEW w \in Users, NEW g \in Agreements,
           BeginRevocation(v, w, g)
    PROVE  IInv'
<1>1. /\ revocation[v].pc = "idle"
      /\ UNCHANGED <<docVars, agreement, receipts, rowLock, signing>>
  BY DEF BeginRevocation
<1>2. PICK x \in Revocation : /\ revocation' = [revocation EXCEPT ![v] = x]
                              /\ x.pc = "begun" /\ x.agreement = g
  <2>. DEFINE x == [pc |-> "begun", agreement |-> g]
  <2>1. x \in Revocation /\ x.pc = "begun" /\ x.agreement = g
    BY DEF Revocation
  <2>2. revocation' = [revocation EXCEPT ![v] = x]
    BY DEF BeginRevocation
  <2>. HIDE DEF x
  <2>. QED
    BY <2>1, <2>2
<1>. QED
  BY <1>1, <1>2, UnheldRevocation

LEMMA RefuseRevocationInv ==
    ASSUME IInv, NEW v \in Revocations, RefuseRevocation(v)
    PROVE  IInv'
<1>1. /\ revocation[v].pc = "begun"
      /\ UNCHANGED <<docVars, agreement, receipts, rowLock, signing>>
  BY DEF RefuseRevocation
<1>2. PICK x \in Revocation : revocation' = [revocation EXCEPT ![v] = x] /\ x.pc = "idle"
  <2>1. IdleRevocation \in Revocation /\ IdleRevocation.pc = "idle"
    BY DEF IdleRevocation, Revocation
  <2>2. revocation' = [revocation EXCEPT ![v] = IdleRevocation]
    BY DEF RefuseRevocation
  <2>. QED
    BY <2>1, <2>2
<1>. QED
  BY <1>1, <1>2, UnheldRevocation

LEMMA RevokeInv ==
    ASSUME IInv, NEW v \in Revocations, Revoke(v)
    PROVE  IInv'
<1>1. PICK g \in Agreements :
          /\ revocation[v].pc = "begun" /\ revocation[v].agreement = g
          /\ rowLock[g] = None
          /\ agreement[g].status \in Open
          /\ rowLock' = [rowLock EXCEPT ![g] = v]
          /\ revocation' = [revocation EXCEPT ![v].pc = "taken"]
          /\ UNCHANGED <<docVars, agreement, receipts, signing>>
  BY DEF Revoke, IInv, RevocationInv
<1>2. DocumentInv' /\ FieldInv' /\ LinkInv' /\ OneSuccessor'
  BY <1>1, QuietStep
<1>3. /\ revocation' \in [Revocations -> Revocation]
      /\ revocation'[v].pc = "taken" /\ revocation'[v].agreement = g
      /\ \A u \in Revocations : u # v => revocation'[u] = revocation[u]
  BY <1>1 DEF IInv, TypeOK, Revocation
<1>4. /\ rowLock' \in [Agreements -> Holders \cup {None}]
      /\ \A h \in Agreements, u \in Holders :
            rowLock'[h] = u <=> (u = v /\ h = g) \/ rowLock[h] = u
  BY <1>1, LockedFacts DEF IInv, Holders
<1>5. TypeOK'
  BY <1>1, <1>3, <1>4 DEF IInv, TypeOK, docVars, Holders
<1>6. SigningInv' /\ RevocationInv'
  BY <1>1, <1>3 DEF IInv, SigningInv, RevocationInv
<1>7. IssueLocks'
  BY <1>1, <1>4, HoldersDisjoint DEF IInv, IssueLocks, Holders
<1>8. SigningLocks'
  BY <1>1, <1>4, HoldersDisjoint DEF IInv, SigningLocks, Holders
<1>9. RevocationLocks'
  BY <1>1, <1>3, <1>4 DEF IInv, RevocationLocks, Holders
<1>10. OneReceipt'
  BY <1>1, <1>3, ReceiptsUnmoved
<1>. QED
  BY <1>2, <1>5, <1>6, <1>7, <1>8, <1>9, <1>10 DEF IInv

LEMMA ClearPredecessorInv ==
    ASSUME IInv, NEW v \in Revocations, ClearPredecessor(v)
    PROVE  IInv'
<1>1. PICK g \in Agreements :
          /\ revocation[v].pc = "taken" /\ revocation[v].agreement = g
          /\ \A h \in Agreements : agreement[h].successor = g => rowLock[h] = None
          /\ rowLock' = [h \in Agreements |-> IF agreement[h].successor = g THEN v ELSE rowLock[h]]
          /\ revocation' = [revocation EXCEPT ![v].pc = "answered"]
          /\ UNCHANGED <<docVars, agreement, receipts, signing>>
  BY DEF ClearPredecessor, Predecessors, IInv, RevocationInv
<1>2. DocumentInv' /\ FieldInv' /\ LinkInv' /\ OneSuccessor'
  BY <1>1, QuietStep
<1>3. /\ revocation' \in [Revocations -> Revocation]
      /\ revocation'[v].pc = "answered" /\ revocation'[v].agreement = g
      /\ \A u \in Revocations : u # v => revocation'[u] = revocation[u]
  BY <1>1 DEF IInv, TypeOK, Revocation
<1>4. /\ rowLock' \in [Agreements -> Holders \cup {None}]
      /\ \A h \in Agreements, u \in Holders :
            rowLock'[h] = u <=> (u = v /\ agreement[h].successor = g) \/ rowLock[h] = u
  BY <1>1, HoldersDisjoint DEF IInv, TypeOK, Holders
<1>5. TypeOK'
  BY <1>1, <1>3, <1>4 DEF IInv, TypeOK, docVars, Holders
<1>6. SigningInv' /\ RevocationInv'
  BY <1>1, <1>3 DEF IInv, SigningInv, RevocationInv
<1>7. IssueLocks'
  BY <1>1, <1>4, HoldersDisjoint DEF IInv, IssueLocks, Holders
<1>8. SigningLocks'
  BY <1>1, <1>4, HoldersDisjoint DEF IInv, SigningLocks, Holders
<1>9. RevocationLocks'
  BY <1>1, <1>3, <1>4 DEF IInv, RevocationLocks, Holders
<1>10. OneReceipt'
  BY <1>1, <1>3, ReceiptsUnmoved
<1>. QED
  BY <1>2, <1>5, <1>6, <1>7, <1>8, <1>9, <1>10 DEF IInv

LEMMA CrashRevocationInv ==
    ASSUME IInv, NEW v \in Revocations, CrashRevocation(v)
    PROVE  IInv'
<1>1. /\ revocation[v].pc \in {"begun", "taken", "answered"}
      /\ rowLock' = Unlocked(v)
      /\ UNCHANGED <<docVars, agreement, receipts, signing>>
  BY DEF CrashRevocation
<1>2. DocumentInv' /\ FieldInv' /\ LinkInv' /\ OneSuccessor'
  BY <1>1, QuietStep
<1>3. /\ revocation' \in [Revocations -> Revocation]
      /\ revocation'[v].pc = "ended"
      /\ \A u \in Revocations : u # v => revocation'[u] = revocation[u]
  BY DEF CrashRevocation, IInv, TypeOK, Revocation, IdleRevocation
<1>4. /\ rowLock' \in [Agreements -> Holders \cup {None}]
      /\ \A h \in Agreements, u \in Holders : rowLock'[h] = u <=> u # v /\ rowLock[h] = u
  BY <1>1, UnlockedFacts DEF IInv, Holders
<1>5. TypeOK'
  BY <1>1, <1>3, <1>4 DEF IInv, TypeOK, docVars, Holders
<1>6. SigningInv' /\ RevocationInv'
  BY <1>1, <1>3 DEF IInv, SigningInv, RevocationInv
<1>7. IssueLocks'
  BY <1>1, <1>4, HoldersDisjoint DEF IInv, IssueLocks, Holders
<1>8. SigningLocks'
  BY <1>1, <1>4, HoldersDisjoint DEF IInv, SigningLocks, Holders
<1>9. RevocationLocks'
  BY <1>1, <1>3, <1>4 DEF IInv, RevocationLocks, Holders
<1>10. OneReceipt'
  BY <1>1, <1>3, ReceiptsUnmoved
<1>. QED
  BY <1>2, <1>5, <1>6, <1>7, <1>8, <1>9, <1>10 DEF IInv

\* The revoked request and the freed link appear together.
LEMMA CommitRevocationInv ==
    ASSUME IInv, NEW v \in Revocations, CommitRevocation(v)
    PROVE  IInv'
<1>1. PICK g \in Agreements :
          /\ revocation[v].pc = "answered" /\ revocation[v].agreement = g
          /\ agreement' = [h \in Agreements |->
                IF h = g THEN [agreement[h] EXCEPT !.status = "revoked"]
                ELSE IF agreement[h].successor = g
                     THEN [agreement[h] EXCEPT !.successor = None]
                ELSE agreement[h]]
          /\ rowLock' = Unlocked(v)
          /\ revocation' = [revocation EXCEPT ![v].pc = "revoked"]
          /\ UNCHANGED <<document, approved, receipts, signing>>
  BY DEF CommitRevocation, Predecessors, docVars, IInv, RevocationInv
<1>2. /\ agreement[g].status \in Open
      /\ rowLock[g] = v
  BY <1>1 DEF IInv, RevocationInv, RevocationLocks
<1>3. \A h \in Agreements : agreement[h].source \in Agreements \cup {None} /\ agreement[h].source # g
  BY <1>2, HoldersDisjoint DEF IInv, TypeOK, Agreement, FieldInv, Open
<1>4. \A h \in Agreements :
          /\ agreement[h].successor = g <=> agreement[g].source = h
          /\ agreement[h].successor = g => h # g
  <2>. SUFFICES ASSUME NEW h \in Agreements
                PROVE  /\ agreement[h].successor = g <=> agreement[g].source = h
                       /\ agreement[h].successor = g => h # g
    OBVIOUS
  <2>1. {k \in Agreements : agreement[k].source = h /\ agreement[k].status \in Open \cup Signed}
        = {agreement[h].successor} \ {None}
    BY DEF IInv, OneSuccessor
  <2>2. g # None
    BY HoldersDisjoint
  <2>3. agreement[h].successor = g <=> agreement[g].source = h
    BY <1>2, <2>1, <2>2
  <2>. QED
    BY <1>3, <2>3
<1>5. /\ agreement' \in [Agreements -> Agreement]
      /\ \A h \in Agreements :
            /\ agreement'[h].status = IF h = g THEN "revoked" ELSE agreement[h].status
            /\ agreement'[h].successor = IF agreement[h].successor = g THEN None
                                         ELSE agreement[h].successor
            /\ agreement'[h].source = agreement[h].source
            /\ agreement'[h].recipient = agreement[h].recipient
            /\ agreement'[h].version = agreement[h].version
  <2>1. \A h \in Agreements : agreement[h] \in Agreement
    BY DEF IInv, TypeOK
  <2>2. "revoked" \in Issued
    BY DEF Issued
  <2>3. \A h \in Agreements :
            /\ [agreement[h] EXCEPT !.status = "revoked"] \in Agreement
            /\ [agreement[h] EXCEPT !.successor = None] \in Agreement
    BY <2>1, <2>2 DEF Agreement
  <2>4. agreement' \in [Agreements -> Agreement]
    BY <1>1, <2>1, <2>3
  <2>5. ASSUME NEW h \in Agreements
        PROVE  /\ agreement'[h].status = IF h = g THEN "revoked" ELSE agreement[h].status
               /\ agreement'[h].successor = IF agreement[h].successor = g THEN None
                                            ELSE agreement[h].successor
               /\ agreement'[h].source = agreement[h].source
               /\ agreement'[h].recipient = agreement[h].recipient
               /\ agreement'[h].version = agreement[h].version
    <3>1. CASE h = g
      <4>1. agreement'[h] = [agreement[h] EXCEPT !.status = "revoked"]
        BY <1>1, <3>1
      <4>. QED
        BY <1>4, <2>1, <3>1, <4>1 DEF Agreement
    <3>2. CASE h # g /\ agreement[h].successor = g
      <4>1. agreement'[h] = [agreement[h] EXCEPT !.successor = None]
        BY <1>1, <3>2
      <4>. QED
        BY <2>1, <3>2, <4>1 DEF Agreement
    <3>3. CASE h # g /\ agreement[h].successor # g
      BY <1>1, <3>3
    <3>. QED
      BY <3>1, <3>2, <3>3
  <2>. QED
    BY <2>4, <2>5
<1>6. /\ revocation' \in [Revocations -> Revocation]
      /\ revocation'[v] = [pc |-> "revoked", agreement |-> g]
      /\ \A u \in Revocations : u # v => revocation'[u] = revocation[u]
  BY <1>1 DEF IInv, TypeOK, Revocation
<1>7. /\ rowLock' \in [Agreements -> Holders \cup {None}]
      /\ \A h \in Agreements, u \in Holders : rowLock'[h] = u <=> u # v /\ rowLock[h] = u
  BY <1>1, UnlockedFacts DEF IInv, Holders
<1>8. TypeOK'
  BY <1>1, <1>5, <1>6, <1>7 DEF IInv, TypeOK, Holders
<1>9. DocumentInv'
  BY <1>1 DEF IInv, DocumentInv
<1>10. FieldInv'
  <2>. SUFFICES ASSUME NEW h \in Agreements
                PROVE  /\ agreement'[h].status \in InProgress \cup Issued =>
                             agreement'[h].recipient \in Recipients /\ agreement'[h].version \in approved
                       /\ agreement'[h].status \notin Issued => agreement'[h].successor = None
                       /\ agreement'[h].status = "inserted" => agreement'[h].source # None
                       /\ agreement'[h].status \in {"absent", "lost"} => agreement'[h].source = None
                       /\ agreement'[h].source # None =>
                             /\ agreement'[h].source # h
                             /\ agreement'[agreement'[h].source].status = "due"
    BY <1>1 DEF FieldInv
  <2>1. CASE h = g
    BY <1>2, <1>3, <1>5, <2>1 DEF IInv, FieldInv, Issued
  <2>2. CASE h # g
    BY <1>3, <1>5, <2>2 DEF IInv, FieldInv
  <2>. QED
    BY <2>1, <2>2
<1>11. LinkInv'
  <2>. SUFFICES ASSUME NEW h \in Agreements,
                       agreement'[h].status = "answered", agreement'[h].source # None
                PROVE  agreement'[agreement'[h].source].successor = None
    BY DEF LinkInv
  <2>1. agreement[h].status = "answered"
    BY <1>5
  <2>. QED
    BY <1>3, <1>5, <2>1 DEF IInv, LinkInv
<1>12. SigningInv'
  <2>1. \A s \in Signings : signing[s].pc = "consumed" => signing[s].agreement # g
    BY <1>2, HoldersDisjoint DEF IInv, SigningLocks
  <2>. QED
    BY <1>1, <1>5, <2>1 DEF IInv, SigningInv
<1>13. \A u \in Revocations \ {v} :
           revocation[u].pc \in {"taken", "answered"} => revocation[u].agreement # g
  BY <1>2 DEF IInv, RevocationLocks
<1>14. RevocationInv'
  <2>. SUFFICES ASSUME NEW u \in Revocations
                PROVE  /\ revocation'[u].pc \in {"begun", "taken", "answered", "revoked"} =>
                             revocation'[u].agreement \in Agreements
                       /\ revocation'[u].pc \in {"taken", "answered"} =>
                             agreement'[revocation'[u].agreement].status \in Open
    BY DEF RevocationInv
  <2>1. CASE u = v
    BY <1>6, <2>1
  <2>2. CASE u # v
    BY <1>5, <1>6, <1>13, <2>2 DEF IInv, RevocationInv
  <2>. QED
    BY <2>1, <2>2
<1>15. IssueLocks'
  <2>1. \A h \in Agreements : agreement'[h].status = "answered" <=> agreement[h].status = "answered"
    BY <1>2, <1>5 DEF Open
  <2>. QED
    BY <1>5, <1>7, <2>1, HoldersDisjoint DEF IInv, IssueLocks, Holders
<1>16. SigningLocks'
  BY <1>1, <1>7, HoldersDisjoint DEF IInv, SigningLocks, Holders
<1>17. RevocationLocks'
  <2>. SUFFICES ASSUME NEW h \in Agreements, NEW u \in Revocations
                PROVE  rowLock'[h] = u <=>
                           \/ revocation'[u].pc \in {"taken", "answered"} /\ revocation'[u].agreement = h
                           \/ revocation'[u].pc = "answered" /\ agreement'[h].successor = revocation'[u].agreement
    BY DEF RevocationLocks
  <2>1. rowLock'[h] = u <=> u # v /\ rowLock[h] = u
    BY <1>7 DEF Holders
  <2>2. CASE u = v
    BY <1>6, <2>1, <2>2
  <2>3. CASE u # v
    <3>1. revocation[u].pc = "answered" =>
              revocation[u].agreement # g /\ revocation[u].agreement # None
      BY <1>13, <2>3, HoldersDisjoint DEF IInv, RevocationInv
    <3>2. revocation[u].pc = "answered" =>
              (agreement'[h].successor = revocation[u].agreement
               <=> agreement[h].successor = revocation[u].agreement)
      BY <1>5, <3>1
    <3>3. rowLock[h] = u <=>
              \/ revocation[u].pc \in {"taken", "answered"} /\ revocation[u].agreement = h
              \/ revocation[u].pc = "answered" /\ agreement[h].successor = revocation[u].agreement
      BY DEF IInv, RevocationLocks
    <3>. QED
      BY <1>6, <2>1, <2>3, <3>2, <3>3
  <2>. QED
    BY <2>2, <2>3
<1>18. OneReceipt'
  <2>. SUFFICES ASSUME NEW h \in Agreements
                PROVE  /\ {y \in receipts : y.agreement = h} =
                              IF agreement'[h].status \in Signed
                              THEN {[agreement |-> h, version |-> agreement'[h].version,
                                     signer |-> agreement'[h].recipient]}
                              ELSE {}
                       /\ agreement'[h].status = "revoked" <=>
                              \E u \in Revocations : revocation'[u] = [pc |-> "revoked", agreement |-> h]
    BY <1>1 DEF OneReceipt
  <2>1. /\ {y \in receipts : y.agreement = h} =
               IF agreement[h].status \in Signed
               THEN {[agreement |-> h, version |-> agreement[h].version,
                      signer |-> agreement[h].recipient]}
               ELSE {}
        /\ agreement[h].status = "revoked" <=>
               \E u \in Revocations : revocation[u] = [pc |-> "revoked", agreement |-> h]
    BY DEF IInv, OneReceipt
  <2>2. agreement'[h].status \in Signed <=> agreement[h].status \in Signed
    BY <1>2, <1>5 DEF Open, Signed
  <2>3. CASE h = g
    BY <1>5, <1>6, <2>1, <2>2, <2>3
  <2>4. CASE h # g
    <3>1. (\E u \in Revocations : revocation'[u] = [pc |-> "revoked", agreement |-> h])
          <=> (\E u \in Revocations : revocation[u] = [pc |-> "revoked", agreement |-> h])
      BY <1>1, <1>6, <2>4
    <3>. QED
      BY <1>5, <2>1, <2>2, <2>4, <3>1
  <2>. QED
    BY <2>3, <2>4
<1>19. OneSuccessor'
  <2>. SUFFICES ASSUME NEW h \in Agreements
                PROVE  {k \in Agreements : /\ agreement'[k].source = h
                                           /\ agreement'[k].status \in Open \cup Signed}
                       = {agreement'[h].successor} \ {None}
    BY DEF OneSuccessor
  <2>1. {k \in Agreements : agreement[k].source = h /\ agreement[k].status \in Open \cup Signed}
        = {agreement[h].successor} \ {None}
    BY DEF IInv, OneSuccessor
  <2>2. \A k \in Agreements : agreement'[k].status \in Open \cup Signed <=>
                              k # g /\ agreement[k].status \in Open \cup Signed
    BY <1>5 DEF Open, Signed
  <2>3. CASE agreement[h].successor = g
    <3>1. \A k \in Agreements : ~(agreement'[k].source = h /\ agreement'[k].status \in Open \cup Signed)
      BY <1>5, <2>1, <2>2, <2>3
    <3>2. agreement'[h].successor = None
      BY <1>5, <2>3
    <3>. QED
      BY <3>1, <3>2
  <2>4. CASE agreement[h].successor # g
    <3>1. agreement[g].source # h
      BY <1>4, <2>4
    <3>2. \A k \in Agreements : /\ agreement'[k].source = h
                                /\ agreement'[k].status \in Open \cup Signed
                                <=> /\ agreement[k].source = h
                                    /\ agreement[k].status \in Open \cup Signed
      BY <1>5, <2>2, <3>1
    <3>. QED
      BY <1>5, <2>1, <2>4, <3>2
  <2>. QED
    BY <2>3, <2>4
<1>. QED
  BY <1>8, <1>9, <1>10, <1>11, <1>12, <1>14, <1>15, <1>16, <1>17, <1>18, <1>19 DEF IInv

-----------------------------------------------------------------------------
\* Approvals are never taken back, so a request stays pinned to one.
LEMMA EditInv ==
    ASSUME IInv, EditDocument
    PROVE  IInv'
<1>1. UNCHANGED <<agreement, receipts, rowLock, signing, revocation>>
  BY DEF EditDocument
<1>2. /\ document' \in [current : 1 .. MaxVersion, status : Decisions]
      /\ approved' \subseteq 1 .. MaxVersion
      /\ approved \subseteq approved'
      /\ DocumentInv'
  <2>1. CASE document.current < MaxVersion /\ Document!Revise
    <3>1. /\ document' = [current |-> document.current + 1, status |-> "draft"]
          /\ approved' = approved
      BY <2>1 DEF Document!Revise
    <3>2. document.current + 1 \in 1 .. MaxVersion
      BY <2>1, BoundsArePositive DEF IInv, TypeOK
    <3>. QED
      BY <3>1, <3>2, DraftKnown DEF IInv, TypeOK, DocumentInv
  <2>2. CASE \E decision \in Decisions : Document!Decide(decision)
    <3>1. PICK decision \in Decisions : Document!Decide(decision)
      BY <2>2
    <3>2. /\ document' = [document EXCEPT !.status = decision]
          /\ approved' = IF decision = "approved" THEN approved \cup {document.current}
                                                  ELSE approved
      BY <3>1 DEF Document!Decide
    <3>3. /\ document'.status = decision /\ document'.current = document.current
          /\ document' \in [current : 1 .. MaxVersion, status : Decisions]
      BY <3>2 DEF IInv, TypeOK
    <3>. QED
      BY <3>2, <3>3 DEF IInv, TypeOK, DocumentInv
  <2>. QED
    BY <2>1, <2>2 DEF EditDocument
<1>3. TypeOK'
  BY <1>1, <1>2 DEF IInv, TypeOK
<1>4. FieldInv'
  BY <1>1, <1>2 DEF IInv, FieldInv
<1>5. LinkInv' /\ OneSuccessor' /\ OneReceipt'
  BY <1>1 DEF IInv, LinkInv, OneSuccessor, OneReceipt
<1>6. SigningInv' /\ RevocationInv'
  BY <1>1 DEF IInv, SigningInv, RevocationInv
<1>7. IssueLocks' /\ SigningLocks' /\ RevocationLocks'
  BY <1>1 DEF IInv, IssueLocks, SigningLocks, RevocationLocks
<1>. QED
  BY <1>2, <1>3, <1>4, <1>5, <1>6, <1>7 DEF IInv

LEMMA StutterInv ==
    ASSUME IInv, UNCHANGED vars
    PROVE  IInv'
<1>1. DocumentInv' /\ FieldInv' /\ LinkInv' /\ OneSuccessor'
  <2>1. UNCHANGED <<docVars, agreement, receipts>>
    BY DEF vars, docVars
  <2>. QED
    BY <2>1, QuietStep
<1>2. UNCHANGED <<document, approved, agreement, receipts, rowLock, signing, revocation>>
  BY DEF vars, docVars
<1>3. TypeOK'
  BY <1>2 DEF IInv, TypeOK
<1>4. SigningInv' /\ RevocationInv' /\ OneReceipt'
  BY <1>2 DEF IInv, SigningInv, RevocationInv, OneReceipt
<1>5. IssueLocks' /\ SigningLocks' /\ RevocationLocks'
  BY <1>2 DEF IInv, IssueLocks, SigningLocks, RevocationLocks
<1>. QED
  BY <1>1, <1>3, <1>4, <1>5 DEF IInv

LEMMA NextInv == IInv /\ [Next]_vars => IInv'
<1>. SUFFICES ASSUME IInv, [Next]_vars
              PROVE  IInv'
  OBVIOUS
<1>1. CASE EditDocument
  BY <1>1, EditInv
<1>2. ASSUME NEW g \in Agreements, NEW w \in Users,
             \/ \E p \in Recipients, recurring \in BOOLEAN : ReadApproved(g, w, p, recurring)
             \/ \E h \in Agreements : ReadForRenewal(g, w, h)
      PROVE  IInv'
  BY <1>2, ReadInv
<1>3. ASSUME NEW g \in Agreements, Issue(g) \/ CrashIssue(g) \/ Expire(g) \/ ComeDue(g)
      PROVE  IInv'
  BY <1>3, InsertInv, RefusedInv, SupersedeInv, CommitIssueInv, CrashIssueInv, ClockInv
     DEF Issue
<1>4. ASSUME NEW s \in Signings, (\E g \in Agreements : Present(s, g)) \/ Sign(s) \/ CrashSigning(s)
      PROVE  IInv'
  BY <1>4, PresentInv, ConsumeInv, RefuseSigningInv, ResolveSignerInv, CommitSigningInv,
     CrashSigningInv DEF Sign
<1>5. ASSUME NEW v \in Revocations,
             \/ \E w \in Users, g \in Agreements : BeginRevocation(v, w, g)
             \/ Withdraw(v) \/ CrashRevocation(v)
      PROVE  IInv'
  BY <1>5, BeginRevocationInv, RevokeInv, RefuseRevocationInv, ClearPredecessorInv,
     CommitRevocationInv, CrashRevocationInv DEF Withdraw
<1>6. CASE UNCHANGED vars
  BY <1>6, StutterInv
<1>. QED
  BY <1>1, <1>2, <1>3, <1>4, <1>5, <1>6 DEF Next

\* In every reachable state the inductive invariant holds.
THEOREM Inductive == Spec => []IInv
<1>. QED
  BY InitInv, NextInv, PTL DEF Spec

\* Every variable keeps its type.
THEOREM TypeCorrect == Spec => []TypeOK
<1>1. IInv => TypeOK
  BY DEF IInv
<1>. QED
  BY <1>1, Inductive, PTL

\* However many calls present or revoke one request, it ends signed, with one receipt
\* for what it was issued for, or revoked, with none.
THEOREM OneReceiptAlways == Spec => []OneReceipt
<1>1. IInv => OneReceipt
  BY DEF IInv
<1>. QED
  BY <1>1, Inductive, PTL

\* Renewals that run together, crash or are revoked leave at most one successor, and
\* the link names it.
THEOREM OneSuccessorAlways == Spec => []OneSuccessor
<1>1. IInv => OneSuccessor
  BY DEF IInv
<1>. QED
  BY <1>1, Inductive, PTL

\* A request that was issued or renewed pins a version that was approved.
THEOREM PinnedAlwaysApproved == Spec => []PinnedVersionApproved
<1>1. IInv => PinnedVersionApproved
  BY DEF IInv, FieldInv, PinnedVersionApproved
<1>. QED
  BY <1>1, Inductive, PTL

-----------------------------------------------------------------------------
\* What each action does to the requests

\* What a request asks for stays the same.
Kept(h) == /\ agreement'[h].recipient = agreement[h].recipient
           /\ agreement'[h].version = agreement[h].version
           /\ agreement'[h].source = agreement[h].source

\* The rows in policy_agreement_requests_pending_recipient_unique, inserted ones too.
Keyed == {"inserted", "answered"} \cup Open

\* Nothing anybody else can see happens; what is read for a renewal is for the one who
\* signed, and the insert takes a key that is free.
Hidden(g) ==
    /\ agreement[g].status \notin Issued /\ agreement'[g].status \notin Issued
    /\ \A h \in Agreements : h # g => agreement'[h] = agreement[h]
    /\ UNCHANGED <<approved, receipts>>
    /\ agreement'[g].source # None =>
          \/ Kept(g)
          \/ /\ agreement'[g].source \in Agreements \ {g}
             /\ agreement'[g].recipient = agreement[agreement'[g].source].recipient
    /\ agreement'[g].status \in Keyed =>
          /\ Kept(g)
          /\ \/ agreement[g].status \in Keyed
             \/ \A h \in Agreements \ {g} : SameKey(g, h) => agreement[h].status \notin Keyed

\* The request g gets the status s.
Turns(g, s) ==
    \A h \in Agreements :
        agreement'[h].status = (IF h = g THEN s ELSE agreement[h].status) /\ Kept(h)

LEMMA StatusMove ==
    ASSUME IInv, NEW g \in Agreements, NEW s \in {"lost", "absent"} \cup InProgress \cup Issued,
           agreement' = [agreement EXCEPT ![g].status = s]
    PROVE  Turns(g, s) /\ \A h \in Agreements : h # g => agreement'[h] = agreement[h]
<1>1. PICK x \in Agreement :
          /\ agreement' = [agreement EXCEPT ![g] = x]
          /\ x.status = s
          /\ x.successor = agreement[g].successor
          /\ x.source = agreement[g].source
          /\ x.recipient = agreement[g].recipient
          /\ x.version = agreement[g].version
  BY StatusStep
<1>2. agreement'[g] = x /\ \A h \in Agreements : h # g => agreement'[h] = agreement[h]
  BY <1>1 DEF IInv, TypeOK
<1>3. Turns(g, s)
  <2>1. ASSUME NEW h \in Agreements
        PROVE  agreement'[h].status = (IF h = g THEN s ELSE agreement[h].status) /\ Kept(h)
    <3>1. CASE h = g
      BY <1>1, <1>2, <3>1 DEF Kept
    <3>2. CASE h # g
      BY <1>2, <3>2 DEF Kept
    <3>. QED
      BY <3>1, <3>2
  <2>. QED
    BY <2>1 DEF Turns
<1>. QED
  BY <1>2, <1>3

LEMMA CommitIssueMove ==
    ASSUME IInv, NEW g \in Agreements, CommitIssue(g)
    PROVE  Turns(g, "pending") /\ UNCHANGED <<approved, receipts>>
<1>1. \A h \in Agreements : agreement[h] \in Agreement
  BY DEF IInv, TypeOK
<1>2. PICK p \in Agreements \cup {None} : p = agreement[g].source
  BY <1>1 DEF Agreement
<1>3. agreement' = [h \in Agreements |->
            IF h = g THEN [agreement[g] EXCEPT !.status = "pending"]
            ELSE IF h = p THEN [agreement[h] EXCEPT !.successor = g]
            ELSE agreement[h]]
  BY <1>2 DEF CommitIssue
<1>4. ASSUME NEW h \in Agreements
      PROVE  agreement'[h].status = (IF h = g THEN "pending" ELSE agreement[h].status) /\ Kept(h)
  <2>1. CASE h = g
    <3>1. agreement'[h] = [agreement[h] EXCEPT !.status = "pending"]
      BY <1>3, <2>1
    <3>. QED
      BY <1>1, <2>1, <3>1 DEF Agreement, Kept
  <2>2. CASE h # g /\ h = p
    <3>1. agreement'[h] = [agreement[h] EXCEPT !.successor = g]
      BY <1>3, <2>2
    <3>. QED
      BY <1>1, <2>2, <3>1 DEF Agreement, Kept
  <2>3. CASE h # g /\ h # p
    BY <1>3, <2>3 DEF Kept
  <2>. QED
    BY <2>1, <2>2, <2>3
<1>. QED
  BY <1>4 DEF Turns, CommitIssue, Issuing, docVars

LEMMA CommitRevocationMove ==
    ASSUME IInv, NEW v \in Revocations, CommitRevocation(v)
    PROVE  \E g \in Agreements : /\ agreement[g].status \in Open
                                 /\ Turns(g, "revoked")
                                 /\ UNCHANGED <<approved, receipts>>
<1>1. PICK g \in Agreements :
          /\ revocation[v].pc = "answered" /\ revocation[v].agreement = g
          /\ agreement' = [h \in Agreements |->
                IF h = g THEN [agreement[h] EXCEPT !.status = "revoked"]
                ELSE IF agreement[h].successor = g
                     THEN [agreement[h] EXCEPT !.successor = None]
                ELSE agreement[h]]
          /\ UNCHANGED <<approved, receipts>>
  BY DEF CommitRevocation, Predecessors, docVars, IInv, RevocationInv
<1>2. agreement[g].status \in Open /\ \A h \in Agreements : agreement[h] \in Agreement
  BY <1>1 DEF IInv, RevocationInv, TypeOK
<1>3. ASSUME NEW h \in Agreements
      PROVE  agreement'[h].status = (IF h = g THEN "revoked" ELSE agreement[h].status) /\ Kept(h)
  <2>1. CASE h = g
    <3>1. agreement'[h] = [agreement[h] EXCEPT !.status = "revoked"]
      BY <1>1, <2>1
    <3>. QED
      BY <1>2, <2>1, <3>1 DEF Agreement, Kept
  <2>2. CASE h # g /\ agreement[h].successor = g
    <3>1. agreement'[h] = [agreement[h] EXCEPT !.successor = None]
      BY <1>1, <2>2
    <3>. QED
      BY <1>2, <2>2, <3>1 DEF Agreement, Kept
  <2>3. CASE h # g /\ agreement[h].successor # g
    BY <1>1, <2>3 DEF Kept
  <2>. QED
    BY <2>1, <2>2, <2>3
<1>. QED
  BY <1>1, <1>2, <1>3 DEF Turns

LEMMA CommitSigningMove ==
    ASSUME IInv, NEW s \in Signings, CommitSigning(s)
    PROVE  \E g \in Agreements :
              /\ agreement[g].status \in Open
              /\ Turns(g, "acknowledged")
              /\ receipts' = receipts \cup {[agreement |-> g, version |-> agreement[g].version,
                                             signer |-> agreement[g].recipient]}
              /\ UNCHANGED approved
<1>1. PICK g \in Agreements :
          /\ agreement[g].status \in Open
          /\ agreement' = [agreement EXCEPT ![g].status = "acknowledged"]
          /\ receipts' = receipts \cup {[agreement |-> g, version |-> agreement[g].version,
                                         signer |-> agreement[g].recipient]}
          /\ UNCHANGED approved
  BY DEF CommitSigning, ReceiptOf, docVars, IInv, SigningInv
<1>2. "acknowledged" \in {"lost", "absent"} \cup InProgress \cup Issued
  BY DEF Issued, Signed
<1>3. Turns(g, "acknowledged")
  BY <1>1, <1>2, StatusMove
<1>. QED
  BY <1>1, <1>3

\* The clock turns a request from one open, or signed, status to another.
LEMMA ClockMove ==
    ASSUME IInv, NEW g \in Agreements, Expire(g) \/ ComeDue(g)
    PROVE  \E s \in Issued : /\ Turns(g, s)
                             /\ \E C \in {Open, Signed} : s \in C /\ agreement[g].status \in C
                             /\ UNCHANGED <<approved, receipts>>
<1>1. PICK s \in Issued :
          /\ agreement' = [agreement EXCEPT ![g].status = s]
          /\ \E C \in {Open, Signed} : s \in C /\ agreement[g].status \in C
  BY DEF Expire, ComeDue, Issued, Open, Signed
<1>2. Turns(g, s)
  BY <1>1, StatusMove
<1>. QED
  BY <1>1, <1>2 DEF Expire, ComeDue, Issuing, docVars

\* Up to its commit the issue of g is hidden.
LEMMA HiddenMove ==
    ASSUME IInv, NEW g \in Agreements,
           \/ \E w \in Users, p \in Recipients, recurring \in BOOLEAN : ReadApproved(g, w, p, recurring)
           \/ \E w \in Users, h \in Agreements : ReadForRenewal(g, w, h)
           \/ Insert(g) \/ Duplicate(g) \/ Supersede(g) \/ RenewedAlready(g) \/ CrashIssue(g)
    PROVE  Hidden(g)
<1>1. /\ agreement[g].status \in {"absent", "read", "inserted", "answered"}
      /\ UNCHANGED <<approved, receipts>>
  BY DEF ReadApproved, ReadForRenewal, Unissued, Insert, Duplicate, Supersede, RenewedAlready,
         CrashIssue, Issuing, docVars
<1>2. agreement[g].status \notin Issued
  BY <1>1 DEF Issued, Open, Signed
<1>3. ASSUME NEW x, agreement' = [agreement EXCEPT ![g] = x], x.status \in {"read", "absent", "lost"},
             x.source # None => /\ x.source \in Agreements \ {g}
                                /\ x.recipient = agreement[x.source].recipient
      PROVE  Hidden(g)
  <2>1. agreement'[g] = x /\ \A h \in Agreements : h # g => agreement'[h] = agreement[h]
    BY <1>3 DEF IInv, TypeOK
  <2>2. x.status \notin Issued /\ x.status \notin Keyed
    BY <1>3 DEF Issued, Open, Signed, Keyed
  <2>. QED
    BY <1>1, <1>2, <1>3, <2>1, <2>2 DEF Hidden
<1>4. CASE \E w \in Users, p \in Recipients, recurring \in BOOLEAN : ReadApproved(g, w, p, recurring)
  <2>1. PICK w \in Users, p \in Recipients, recurring \in BOOLEAN : ReadApproved(g, w, p, recurring)
    BY <1>4
  <2>. DEFINE x == [NoAgreement EXCEPT !.status = "read", !.recipient = p,
                      !.version = document.current, !.recurring = recurring]
  <2>2. agreement' = [agreement EXCEPT ![g] = x] /\ x.status = "read" /\ x.source = None
    BY <2>1 DEF ReadApproved, NoAgreement
  <2>. HIDE DEF x
  <2>. QED
    BY <1>3, <2>2
<1>5. CASE \E w \in Users, h \in Agreements : ReadForRenewal(g, w, h)
  <2>1. PICK w \in Users, h \in Agreements : ReadForRenewal(g, w, h)
    BY <1>5
  <2>. DEFINE x == [NoAgreement EXCEPT !.status = "read", !.recipient = agreement[h].recipient,
                      !.version = document.current, !.recurring = TRUE, !.source = h]
  <2>2. agreement' = [agreement EXCEPT ![g] = x] /\ x.status = "read"
    BY <2>1 DEF ReadForRenewal, NoAgreement
  <2>3. x.source = h /\ x.recipient = agreement[h].recipient
    BY DEF NoAgreement
  <2>4. h # g
    BY <1>1, <2>1 DEF ReadForRenewal
  <2>. HIDE DEF x
  <2>. QED
    BY <1>3, <2>2, <2>3, <2>4
<1>6. CASE Duplicate(g) \/ RenewedAlready(g)
  <2>1. agreement' = [agreement EXCEPT ![g] = NoAgreement] /\ NoAgreement.status = "absent" /\ NoAgreement.source = None
    BY <1>6 DEF Duplicate, RenewedAlready, Refused, NoAgreement
  <2>. QED
    BY <1>3, <2>1
<1>7. CASE CrashIssue(g)
  <2>. DEFINE x == [NoAgreement EXCEPT !.status = "lost"]
  <2>1. agreement' = [agreement EXCEPT ![g] = x] /\ x.status = "lost" /\ x.source = None
    BY <1>7 DEF CrashIssue, NoAgreement
  <2>. HIDE DEF x
  <2>. QED
    BY <1>3, <2>1
<1>8. CASE Insert(g) \/ Supersede(g)
  <2>1. PICK s \in {"inserted", "answered"} : agreement' = [agreement EXCEPT ![g].status = s]
    BY <1>8 DEF Insert, Supersede, AfterInsert
  <2>2. s \in InProgress
    BY DEF InProgress
  <2>3. Turns(g, s) /\ \A h \in Agreements : h # g => agreement'[h] = agreement[h]
    BY <2>1, <2>2, StatusMove
  <2>4. agreement'[g].status \notin Issued /\ Kept(g)
    BY <2>3 DEF Turns, Issued, Open, Signed
  <2>5. \/ agreement[g].status \in Keyed
        \/ \A h \in Agreements \ {g} : SameKey(g, h) => agreement[h].status \notin Keyed
    BY <1>8 DEF Insert, Supersede, Keyed
  <2>. QED
    BY <1>1, <1>2, <2>3, <2>4, <2>5 DEF Hidden
<1>. QED
  BY <1>4, <1>5, <1>6, <1>7, <1>8

\* All the steps: a document step, a hidden one, one of the clock, or a commit.
Tick(g) == \E s \in Issued : /\ Turns(g, s)
                             /\ \E C \in {Open, Signed} : s \in C /\ agreement[g].status \in C
                             /\ UNCHANGED <<approved, receipts>>

Acknowledged(g) ==
    /\ agreement[g].status \in Open
    /\ Turns(g, "acknowledged")
    /\ receipts' = receipts \cup {[agreement |-> g, version |-> agreement[g].version,
                                   signer |-> agreement[g].recipient]}
    /\ UNCHANGED approved

Revoked(g) ==
    /\ agreement[g].status \in Open
    /\ Turns(g, "revoked")
    /\ UNCHANGED <<approved, receipts>>

LEMMA Moves ==
    ASSUME IInv, [Next]_vars
    PROVE  \/ UNCHANGED <<approved, agreement, receipts>>
           \/ EditDocument
           \/ \E g \in Agreements : Hidden(g) \/ Tick(g) \/ CommitIssue(g) \/ Acknowledged(g) \/ Revoked(g)
<1>1. CASE UNCHANGED vars
  BY <1>1 DEF vars, docVars
<1>2. ASSUME NEW g \in Agreements, Issue(g) \/ CrashIssue(g)
      PROVE  Hidden(g) \/ CommitIssue(g)
  BY <1>2, HiddenMove DEF Issue
<1>3. ASSUME NEW g \in Agreements, Expire(g) \/ ComeDue(g)
      PROVE  Tick(g)
  BY <1>3, ClockMove DEF Tick
<1>4. ASSUME NEW g \in Agreements,
             \/ \E w \in Users, p \in Recipients, recurring \in BOOLEAN : ReadApproved(g, w, p, recurring)
             \/ \E w \in Users, h \in Agreements : ReadForRenewal(g, w, h)
      PROVE  Hidden(g)
  BY <1>4, HiddenMove
<1>5. ASSUME NEW s \in Signings, (\E g \in Agreements : Present(s, g)) \/ Sign(s) \/ CrashSigning(s)
      PROVE  \/ UNCHANGED <<approved, agreement, receipts>>
             \/ \E g \in Agreements : Acknowledged(g)
  <2>1. CASE CommitSigning(s)
    BY <2>1, CommitSigningMove DEF Acknowledged
  <2>2. CASE \/ \E g \in Agreements : Present(s, g)
             \/ Consume(s) \/ RefuseSigning(s) \/ ResolveSigner(s) \/ CrashSigning(s)
    BY <2>2 DEF Present, Consume, RefuseSigning, ResolveSigner, CrashSigning, docVars
  <2>. QED
    BY <1>5, <2>1, <2>2 DEF Sign
<1>6. ASSUME NEW v \in Revocations,
             \/ \E w \in Users, g \in Agreements : BeginRevocation(v, w, g)
             \/ Withdraw(v) \/ CrashRevocation(v)
      PROVE  \/ UNCHANGED <<approved, agreement, receipts>>
             \/ \E g \in Agreements : Revoked(g)
  <2>1. CASE CommitRevocation(v)
    BY <2>1, CommitRevocationMove DEF Revoked
  <2>2. CASE \/ \E w \in Users, g \in Agreements : BeginRevocation(v, w, g)
             \/ Revoke(v) \/ RefuseRevocation(v) \/ ClearPredecessor(v) \/ CrashRevocation(v)
    BY <2>2 DEF BeginRevocation, Revoke, RefuseRevocation, ClearPredecessor, CrashRevocation, docVars
  <2>. QED
    BY <1>6, <2>1, <2>2 DEF Withdraw
<1>. QED
  BY <1>1, <1>2, <1>3, <1>4, <1>5, <1>6 DEF Next

-----------------------------------------------------------------------------
\* The ledger

\* Two rows in the index never have the same key, and a renewal asks the one who signed.
KeyInv ==
    \A g, h \in Agreements :
        g # h /\ agreement[g].status \in Keyed /\ agreement[h].status \in Keyed => ~SameKey(g, h)

RenewInv ==
    \A g \in Agreements :
        agreement[g].source # None =>
            agreement[g].recipient = agreement[agreement[g].source].recipient

LInv == IInv /\ KeyInv /\ RenewInv

\* When a row that enters the index finds its key free, the keys stay distinct.
LEMMA KeyStep ==
    ASSUME KeyInv,
           NEW g \in Agreements,
           \A h \in Agreements \ {g} : agreement'[h].status \in Keyed =>
                agreement[h].status \in Keyed /\ Kept(h),
           agreement'[g].status \in Keyed =>
                /\ Kept(g)
                /\ \/ agreement[g].status \in Keyed
                   \/ \A h \in Agreements \ {g} : SameKey(g, h) => agreement[h].status \notin Keyed
    PROVE  KeyInv'
<1>. SUFFICES ASSUME NEW a \in Agreements, NEW b \in Agreements, a # b,
                     agreement'[a].status \in Keyed, agreement'[b].status \in Keyed,
                     agreement'[a].version = agreement'[b].version,
                     agreement'[a].recipient = agreement'[b].recipient
              PROVE  FALSE
  BY DEF KeyInv, SameKey
<1>1. Kept(a) /\ Kept(b)
  OBVIOUS
<1>2. SameKey(a, b) /\ SameKey(b, a)
  BY <1>1 DEF Kept, SameKey
<1>3. CASE agreement[a].status \in Keyed /\ agreement[b].status \in Keyed
  BY <1>2, <1>3 DEF KeyInv
<1>4. CASE agreement[a].status \notin Keyed
  <2>1. a = g /\ agreement[b].status \in Keyed
    BY <1>4
  <2>. QED
    BY <1>2, <1>4, <2>1
<1>5. CASE agreement[b].status \notin Keyed
  <2>1. b = g /\ agreement[a].status \in Keyed
    BY <1>5
  <2>. QED
    BY <1>2, <1>5, <2>1
<1>. QED
  BY <1>3, <1>4, <1>5

\* No request that is renewed changes unseen.
LEMMA HiddenInv ==
    ASSUME LInv, NEW g \in Agreements, Hidden(g)
    PROVE  KeyInv' /\ RenewInv'
<1>1. KeyInv'
  <2>1. \A h \in Agreements \ {g} : agreement'[h].status \in Keyed =>
            agreement[h].status \in Keyed /\ Kept(h)
    BY DEF Hidden, Kept
  <2>2. KeyInv /\ (agreement'[g].status \in Keyed =>
            /\ Kept(g)
            /\ \/ agreement[g].status \in Keyed
               \/ \A h \in Agreements \ {g} : SameKey(g, h) => agreement[h].status \notin Keyed)
    BY DEF Hidden, LInv
  <2>. QED
    BY <2>1, <2>2, KeyStep
<1>2. ASSUME NEW h \in Agreements, agreement'[h].source # None
      PROVE  agreement'[h].recipient = agreement'[agreement'[h].source].recipient
  <2>1. agreement[h] \in Agreement
    BY DEF LInv, IInv, TypeOK
  <2>2. ASSUME NEW p \in Agreements, p = agreement[h].source
        PROVE  p # g /\ agreement'[p] = agreement[p]
    <3>1. agreement[p].status = "due"
      BY <2>2, HoldersDisjoint DEF LInv, IInv, FieldInv
    <3>. QED
      BY <3>1 DEF Hidden, Issued, Signed
  <2>3. CASE Kept(h)
    <3>1. agreement[h].source \in Agreements /\ agreement[h].source = agreement'[h].source
      BY <1>2, <2>1, <2>3 DEF Kept, Agreement
    <3>2. agreement'[agreement[h].source] = agreement[agreement[h].source]
      BY <2>2, <3>1
    <3>3. agreement[h].recipient = agreement[agreement[h].source].recipient
      BY <1>2, <3>1 DEF LInv, RenewInv
    <3>. QED
      BY <2>3, <3>1, <3>2, <3>3 DEF Kept
  <2>4. CASE ~Kept(h)
    <3>1. h = g
      BY <2>4 DEF Hidden, Kept
    <3>2. /\ agreement'[g].source \in Agreements \ {g}
          /\ agreement'[g].recipient = agreement[agreement'[g].source].recipient
      BY <1>2, <2>4, <3>1 DEF Hidden
    <3>3. agreement'[agreement'[g].source] = agreement[agreement'[g].source]
      BY <3>2 DEF Hidden
    <3>. QED
      BY <3>1, <3>2, <3>3
  <2>. QED
    BY <2>3, <2>4
<1>. QED
  BY <1>1, <1>2 DEF RenewInv

\* A status changes, and no row enters the index.
LEMMA TurnsInv ==
    ASSUME LInv, NEW g \in Agreements, NEW s, Turns(g, s),
           s \in Keyed => agreement[g].status \in Keyed
    PROVE  KeyInv' /\ RenewInv'
<1>1. \A h \in Agreements : /\ Kept(h)
                            /\ agreement'[h].status \in Keyed => agreement[h].status \in Keyed
  BY DEF Turns
<1>2. KeyInv'
  <2>1. KeyInv
    BY DEF LInv
  <2>. QED
    BY <1>1, <2>1, KeyStep
<1>3. ASSUME NEW h \in Agreements, agreement'[h].source # None
      PROVE  agreement'[h].recipient = agreement'[agreement'[h].source].recipient
  <2>1. agreement[h].source \in Agreements /\ agreement'[h].source = agreement[h].source
    BY <1>1, <1>3 DEF LInv, IInv, TypeOK, Agreement, Kept
  <2>2. agreement[h].recipient = agreement[agreement[h].source].recipient
    BY <1>3, <2>1 DEF LInv, RenewInv
  <2>. QED
    BY <1>1, <2>1, <2>2 DEF Kept
<1>. QED
  BY <1>2, <1>3 DEF RenewInv

LEMMA LedgerInit == Init => LInv
<1>. SUFFICES ASSUME Init PROVE LInv
  OBVIOUS
<1>1. IInv
  BY InitInv
<1>2. \A g \in Agreements : agreement[g] = NoAgreement
  BY DEF Init
<1>. QED
  BY <1>1, <1>2 DEF LInv, KeyInv, RenewInv, NoAgreement, Keyed, Open

LEMMA LedgerInvNext == LInv /\ [Next]_vars => LInv'
<1>. SUFFICES ASSUME LInv, [Next]_vars PROVE LInv'
  OBVIOUS
<1>1. IInv /\ KeyInv /\ RenewInv
  BY DEF LInv
<1>2. IInv'
  BY <1>1, NextInv
<1>3. CASE UNCHANGED <<approved, agreement, receipts>> \/ EditDocument
  <2>1. UNCHANGED agreement
    BY <1>3 DEF EditDocument
  <2>2. KeyInv' /\ RenewInv'
    BY <1>1, <2>1 DEF KeyInv, RenewInv, SameKey
  <2>. QED
    BY <1>2, <2>2 DEF LInv
<1>4. ASSUME NEW g \in Agreements,
             Hidden(g) \/ Tick(g) \/ CommitIssue(g) \/ Acknowledged(g) \/ Revoked(g)
      PROVE  KeyInv' /\ RenewInv'
  <2>1. CASE Hidden(g)
    BY <2>1, HiddenInv
  <2>2. ASSUME NEW s, Turns(g, s), s \in Keyed => agreement[g].status \in Keyed
        PROVE  KeyInv' /\ RenewInv'
    BY <2>2, TurnsInv
  <2>3. CASE Tick(g)
    <3>1. PICK s \in Issued : /\ Turns(g, s)
                              /\ \E C \in {Open, Signed} : s \in C /\ agreement[g].status \in C
      BY <2>3 DEF Tick
    <3>2. s \in Keyed => agreement[g].status \in Keyed
      BY <3>1 DEF Keyed, Open, Signed
    <3>. QED
      BY <2>2, <3>1, <3>2
  <2>4. CASE CommitIssue(g)
    <3>1. Turns(g, "pending")
      BY <1>1, <2>4, CommitIssueMove
    <3>2. agreement[g].status \in Keyed
      BY <2>4 DEF CommitIssue, Keyed
    <3>. QED
      BY <2>2, <3>1, <3>2
  <2>5. CASE Acknowledged(g)
    <3>1. Turns(g, "acknowledged") /\ agreement[g].status \in Keyed
      BY <2>5 DEF Acknowledged, Keyed
    <3>. QED
      BY <2>2, <3>1
  <2>6. CASE Revoked(g)
    <3>1. Turns(g, "revoked") /\ agreement[g].status \in Keyed
      BY <2>6 DEF Revoked, Keyed
    <3>. QED
      BY <2>2, <3>1
  <2>. QED
    BY <1>4, <2>1, <2>3, <2>4, <2>5, <2>6
<1>5. \/ UNCHANGED <<approved, agreement, receipts>>
      \/ EditDocument
      \/ \E g \in Agreements : Hidden(g) \/ Tick(g) \/ CommitIssue(g) \/ Acknowledged(g) \/ Revoked(g)
  BY <1>1, Moves
<1>. QED
  BY <1>2, <1>3, <1>4, <1>5 DEF LInv

LEMMA LedgerInductive == Spec => []LInv
<1>. QED
  BY LedgerInit, LedgerInvNext, PTL DEF Spec

\* "Prevents a second pending request for the same recipient and version"
\* (docs/policy-acknowledgements.md).
OnePendingPerKey ==
    \A g, h \in Agreements :
        agreement[g].status \in Open /\ agreement[h].status \in Open /\ SameKey(g, h) => g = h

\* However many administrators issue, renew and revoke at once, a recipient never has
\* two requests for one version to sign.
THEOREM OnePendingPerKeyAlways == Spec => []OnePendingPerKey
<1>1. LInv => OnePendingPerKey
  BY DEF LInv, KeyInv, OnePendingPerKey, Keyed
<1>. QED
  BY <1>1, LedgerInductive, PTL

\* Requests that stay issued, with their terms, and no other one is issued.
LEMMA SameAsked ==
    ASSUME \A h \in Agreements :
              /\ agreement'[h].status \in Issued <=> agreement[h].status \in Issued
              /\ agreement[h].status \in Issued => Kept(h)
    PROVE  Asked' = Asked
<1>1. \A h \in Agreements : agreement[h].status \in Issued => Terms(h)' = Terms(h)
  BY DEF Terms, Kept
<1>. QED
  BY <1>1 DEF Asked

\* What the rows say about a request in the ledger.
LEMMA LedgerFacts ==
    ASSUME LInv, NEW g \in Agreements
    PROVE  /\ Ledger!Signed(g) <=> agreement[g].status \in Signed
           /\ g \in Withdrawn <=> agreement[g].status = "revoked"
           /\ agreement[g].status \in Open <=>
                 agreement[g].status \in Issued /\ Ledger!Pending(Terms(g))
           /\ agreement[g].status \in Issued => Terms(g) \in Asked /\ Terms(g) \in Ledger!Request
<1>1. Ledger!Signed(g) <=> agreement[g].status \in Signed
  <2>1. {x \in receipts : x.agreement = g} =
            IF agreement[g].status \in Signed
            THEN {[agreement |-> g, version |-> agreement[g].version,
                   signer |-> agreement[g].recipient]}
            ELSE {}
    BY DEF LInv, IInv, OneReceipt
  <2>. QED
    BY <2>1 DEF Ledger!Signed
<1>2. g \in Withdrawn <=> agreement[g].status = "revoked"
  BY DEF Withdrawn
<1>3. Terms(g).agreement = g
  BY DEF Terms
<1>4. agreement[g].status \in Open <=>
         agreement[g].status \in Issued /\ Ledger!Pending(Terms(g))
  BY <1>1, <1>2, <1>3 DEF Ledger!Pending, Open, Signed, Issued
<1>5. ASSUME agreement[g].status \in Issued
      PROVE  Terms(g) \in Asked /\ Terms(g) \in Ledger!Request
  <2>1. Terms(g) \in Asked
    BY <1>5 DEF Asked
  <2>2. /\ agreement[g].recipient \in Recipients /\ agreement[g].version \in approved
        /\ approved \subseteq 1 .. MaxVersion
        /\ agreement[g].source \in Agreements \cup {None}
    BY <1>5 DEF LInv, IInv, FieldInv, TypeOK, Agreement
  <2>. QED
    BY <2>1, <2>2 DEF Terms, Ledger!Request
<1>. QED
  BY <1>1, <1>2, <1>4, <1>5

\* The commit of an issue asks for something new, that was approved, of somebody who has
\* nothing to sign for that version; a renewal asks the one who signed, and stands alone.
LEMMA AskStep ==
    ASSUME LInv, NEW g \in Agreements, CommitIssue(g)
    PROVE  \E x \in Ledger!Request : Ledger!Ask(x)
<1>1. agreement[g].status = "answered" /\ Turns(g, "pending") /\ UNCHANGED <<approved, receipts>>
  BY CommitIssueMove DEF LInv, CommitIssue
<1>2. /\ agreement[g].status \notin Issued /\ "pending" \in Issued
      /\ agreement[g].status \in InProgress /\ agreement[g].status \in Keyed
  BY <1>1 DEF Issued, Open, Signed, InProgress, Keyed
<1>3. \A y \in Asked : y.agreement \in Agreements /\ agreement[y.agreement].status \in Issued
                       /\ y = Terms(y.agreement)
  BY DEF Asked, Terms
<1>4. /\ agreement[g].recipient \in Recipients /\ agreement[g].version \in approved
      /\ approved \subseteq 1 .. MaxVersion
      /\ agreement[g].source \in Agreements \cup {None}
  BY <1>2 DEF LInv, IInv, FieldInv, TypeOK, Agreement
<1>5. Terms(g) \in Ledger!Request
  BY <1>4 DEF Terms, Ledger!Request
<1>6. \A y \in Asked : y.agreement # Terms(g).agreement
  BY <1>2, <1>3 DEF Terms
<1>7. ASSUME NEW y \in Asked, Ledger!Pending(y)
      PROVE  y.recipient # Terms(g).recipient \/ y.version # Terms(g).version
  <2>1. PICK h \in Agreements : y = Terms(h) /\ agreement[h].status \in Issued
    BY <1>3
  <2>2. agreement[h].status \in Keyed
    BY <1>7, <2>1, LedgerFacts DEF Keyed
  <2>3. ~SameKey(g, h)
    BY <1>2, <2>1, <2>2 DEF LInv, KeyInv
  <2>. QED
    BY <2>1, <2>3 DEF SameKey, Terms
<1>8. ASSUME Terms(g).renews # None
      PROVE  Ledger!MayRenew(Terms(g))
  <2>1. PICK p \in Agreements : p = agreement[g].source
    BY <1>4, <1>8 DEF Terms
  <2>2. p # None
    BY HoldersDisjoint
  <2>3. agreement[p].status = "due" /\ agreement[p].successor = None
    BY <1>1, <2>1, <2>2 DEF LInv, IInv, FieldInv, LinkInv
  <2>4. agreement[p].status \in Issued /\ agreement[p].status \in Signed
    BY <2>3 DEF Issued, Signed
  <2>5. /\ Terms(p) \in Asked /\ Terms(p).agreement = Terms(g).renews
        /\ Terms(p).recipient = Terms(g).recipient
        /\ Ledger!Signed(Terms(p).agreement)
    BY <2>1, <2>2, <2>4, LedgerFacts DEF LInv, RenewInv, Terms
  <2>6. ASSUME NEW y \in Asked, y.renews = Terms(g).renews
        PROVE  y.agreement \in Withdrawn
    <3>1. PICK h \in Agreements : y = Terms(h) /\ agreement[h].status \in Issued
      BY <1>3
    <3>2. agreement[h].source = p /\ y.agreement = h
      BY <2>1, <2>6, <3>1 DEF Terms
    <3>3. {x \in Agreements : agreement[x].source = p /\ agreement[x].status \in Open \cup Signed}
          = {agreement[p].successor} \ {None}
      BY DEF LInv, IInv, OneSuccessor
    <3>4. agreement[h].status \notin Open \cup Signed
      BY <2>3, <3>2, <3>3
    <3>. QED
      BY <3>1, <3>2, <3>4 DEF Issued, Withdrawn
  <2>. QED
    BY <2>5, <2>6 DEF Ledger!MayRenew
<1>9. Asked' = Asked \cup {Terms(g)}
  <2>1. \A h \in Agreements : /\ agreement'[h].status \in Issued <=>
                                    h = g \/ agreement[h].status \in Issued
                              /\ Terms(h)' = Terms(h)
    BY <1>1, <1>2 DEF Turns, Kept, Terms
  <2>. QED
    BY <2>1 DEF Asked
<1>10. Withdrawn' = Withdrawn
  BY <1>1 DEF Turns, Withdrawn
<1>11. Ledger!Ask(Terms(g))
  BY <1>1, <1>4, <1>6, <1>7, <1>8, <1>9, <1>10 DEF Ledger!Ask, Terms
<1>. QED
  BY <1>5, <1>11

LEMMA SignStep ==
    ASSUME LInv, NEW g \in Agreements, Acknowledged(g)
    PROVE  \E x \in Asked : Ledger!Sign(x)
<1>1. /\ agreement[g].status \in Open /\ Turns(g, "acknowledged") /\ UNCHANGED approved
      /\ receipts' = receipts \cup {[agreement |-> g, version |-> agreement[g].version,
                                     signer |-> agreement[g].recipient]}
  BY DEF Acknowledged
<1>2. Terms(g) \in Asked /\ Ledger!Pending(Terms(g))
  BY <1>1, LedgerFacts
<1>3. Asked' = Asked
  <2>1. \A h \in Agreements :
            /\ agreement'[h].status \in Issued <=> agreement[h].status \in Issued
            /\ agreement[h].status \in Issued => Kept(h)
    BY <1>1 DEF Turns, Issued, Signed
  <2>. QED
    BY <2>1, SameAsked
<1>4. Withdrawn' = Withdrawn
  BY <1>1 DEF Turns, Withdrawn, Open
<1>5. receipts' = receipts \cup {[agreement |-> Terms(g).agreement, version |-> Terms(g).version,
                                  signer |-> Terms(g).recipient]}
  BY <1>1 DEF Terms
<1>. QED
  BY <1>1, <1>2, <1>3, <1>4, <1>5 DEF Ledger!Sign

LEMMA WithdrawStep ==
    ASSUME LInv, NEW g \in Agreements, Revoked(g)
    PROVE  \E x \in Asked : Ledger!Withdraw(x)
<1>1. agreement[g].status \in Open /\ Turns(g, "revoked") /\ UNCHANGED <<approved, receipts>>
  BY DEF Revoked
<1>2. Terms(g) \in Asked /\ Ledger!Pending(Terms(g))
  BY <1>1, LedgerFacts
<1>3. Asked' = Asked
  <2>1. \A h \in Agreements :
            /\ agreement'[h].status \in Issued <=> agreement[h].status \in Issued
            /\ agreement[h].status \in Issued => Kept(h)
    BY <1>1 DEF Turns, Issued
  <2>. QED
    BY <2>1, SameAsked
<1>4. Withdrawn' = Withdrawn \cup {Terms(g).agreement}
  BY <1>1 DEF Turns, Withdrawn, Terms
<1>. QED
  BY <1>1, <1>2, <1>3, <1>4 DEF Ledger!Withdraw

\* What nobody sees leaves the ledger alone.
LEMMA QuietLedger ==
    ASSUME LInv, NEW g \in Agreements, Hidden(g) \/ Tick(g)
    PROVE  UNCHANGED Ledger!ledgerVars
<1>1. CASE Hidden(g)
  <2>1. \A h \in Agreements :
            /\ agreement'[h].status \in Issued <=> agreement[h].status \in Issued
            /\ agreement[h].status \in Issued => Kept(h)
    BY <1>1 DEF Hidden, Kept
  <2>2. Asked' = Asked
    BY <2>1, SameAsked
  <2>3. \A h \in Agreements : agreement'[h].status = "revoked" <=> agreement[h].status = "revoked"
    BY <1>1 DEF Hidden, Issued
  <2>. QED
    BY <1>1, <2>2, <2>3 DEF Hidden, Ledger!ledgerVars, Withdrawn
<1>2. CASE Tick(g)
  <2>1. PICK s \in Issued : /\ Turns(g, s)
                            /\ \E C \in {Open, Signed} : s \in C /\ agreement[g].status \in C
                            /\ UNCHANGED <<approved, receipts>>
    BY <1>2 DEF Tick
  <2>2. agreement[g].status \in Issued /\ agreement[g].status # "revoked" /\ s # "revoked"
    BY <2>1 DEF Issued, Open, Signed
  <2>3. \A h \in Agreements :
            /\ agreement'[h].status \in Issued <=> agreement[h].status \in Issued
            /\ agreement[h].status \in Issued => Kept(h)
    BY <2>1, <2>2 DEF Turns
  <2>4. Asked' = Asked
    BY <2>3, SameAsked
  <2>5. Withdrawn' = Withdrawn
    BY <2>1, <2>2 DEF Turns, Withdrawn
  <2>. QED
    BY <2>1, <2>4, <2>5 DEF Ledger!ledgerVars
<1>. QED
  BY <1>1, <1>2

LEMMA ApproveStep ==
    ASSUME LInv, EditDocument
    PROVE  [Ledger!Next]_(Ledger!ledgerVars)
<1>1. UNCHANGED <<agreement, receipts>>
  BY DEF EditDocument
<1>2. Asked' = Asked /\ Withdrawn' = Withdrawn
  BY <1>1 DEF Asked, Terms, Withdrawn
<1>3. approved' = approved \/ approved' = approved \cup {document.current}
  BY DEF EditDocument, Document!Revise, Document!Decide
<1>4. document.current \in 1 .. MaxVersion
  BY DEF LInv, IInv, TypeOK
<1>5. CASE approved' = approved
  BY <1>1, <1>2, <1>5 DEF Ledger!ledgerVars
<1>6. CASE approved' = approved \cup {document.current}
  <2>1. Ledger!Approve(document.current)
    BY <1>1, <1>2, <1>6 DEF Ledger!Approve
  <2>. QED
    BY <1>4, <2>1 DEF Ledger!Next
<1>. QED
  BY <1>3, <1>5, <1>6

LEMMA LedgerNext == LInv /\ [Next]_vars => [Ledger!Next]_(Ledger!ledgerVars)
<1>. SUFFICES ASSUME LInv, [Next]_vars PROVE [Ledger!Next]_(Ledger!ledgerVars)
  OBVIOUS
<1>1. CASE UNCHANGED <<approved, agreement, receipts>>
  BY <1>1 DEF Ledger!ledgerVars, Asked, Terms, Withdrawn
<1>2. CASE EditDocument
  BY <1>2, ApproveStep
<1>3. ASSUME NEW g \in Agreements,
             Hidden(g) \/ Tick(g) \/ CommitIssue(g) \/ Acknowledged(g) \/ Revoked(g)
      PROVE  [Ledger!Next]_(Ledger!ledgerVars)
  <2>1. CASE Hidden(g) \/ Tick(g)
    BY <2>1, QuietLedger
  <2>2. CASE CommitIssue(g)
    BY <2>2, AskStep DEF Ledger!Next
  <2>3. CASE Acknowledged(g)
    BY <2>3, SignStep DEF Ledger!Next
  <2>4. CASE Revoked(g)
    BY <2>4, WithdrawStep DEF Ledger!Next
  <2>. QED
    BY <1>3, <2>1, <2>2, <2>3, <2>4
<1>4. IInv
  BY DEF LInv
<1>. QED
  BY <1>1, <1>2, <1>3, <1>4, Moves

\* However issues, renewals, acknowledgements and revocations overlap and crash, the
\* committed rows are a ledger in which requests are issued whole, signed once or
\* withdrawn, and never changed.
THEOREM Implements == Spec => ImplementsLedger
<1>1. Init => Ledger!Init
  <2>. SUFFICES ASSUME Init PROVE Ledger!Init
    OBVIOUS
  <2>1. \A g \in Agreements : agreement[g].status = "absent"
    BY DEF Init, NoAgreement
  <2>2. Asked = {} /\ Withdrawn = {}
    BY <2>1 DEF Asked, Withdrawn, Issued, Open, Signed
  <2>. QED
    BY <2>2 DEF Init, Document!Init, Ledger!Init
<1>. QED
  BY <1>1, LedgerInductive, LedgerNext, PTL DEF Spec, ImplementsLedger, Ledger!Spec

-----------------------------------------------------------------------------
\* Waiting

\* x waits until nobody has locked the row of h.
WaitsForRow(x, h) ==
    \/ x \in Agreements /\ agreement[x].status = "inserted" /\ agreement[x].source = h
    \/ x \in Signings /\ signing[x].pc = "begun" /\ signing[x].fresh /\ signing[x].agreement = h
    \/ x \in Revocations /\ revocation[x].pc = "begun" /\ revocation[x].agreement = h
    \/ x \in Revocations /\ revocation[x].pc = "taken" /\ agreement[h].successor = revocation[x].agreement

\* The insert of x waits for y, who inserted, or is changing, a pending row of its key.
WaitsForKey(x, y) ==
    /\ x \in Agreements /\ agreement[x].status = "read"
    /\ \E h \in Agreements \ {x} :
          /\ SameKey(x, h)
          /\ \/ agreement[h].status \in {"inserted", "answered"} /\ y = h
             \/ agreement[h].status \in Open /\ rowLock[h] = y

\* The upsert of the signer's row waits for y, who has upserted it.
WaitsForUser(x, y) ==
    /\ x \in Signings /\ signing[x].pc = "consumed" /\ signing[x].signer = None
    /\ y \in SignerHolders(agreement[signing[x].agreement].recipient)

WaitsFor(x, y) == \/ WaitsForKey(x, y)
                  \/ WaitsForUser(x, y)
                  \/ \E h \in Agreements : WaitsForRow(x, h) /\ rowLock[h] = y

\* Nobody waits for somebody who waits for somebody who waits.
NoWaitChain ==
    \A w, x, y, z \in Holders : ~(WaitsFor(w, x) /\ WaitsFor(x, y) /\ WaitsFor(y, z))

\* Nobody holds the predecessor of a request that is being revoked.
LEMMA PredecessorFree ==
    ASSUME IInv, NEW v \in Revocations, revocation[v].pc = "taken",
           NEW h \in Agreements, agreement[h].successor = revocation[v].agreement
    PROVE  \A t \in Holders : rowLock[h] # t
<1>1. PICK g \in Agreements : g = revocation[v].agreement
  BY DEF IInv, RevocationInv
<1>2. rowLock[g] = v /\ agreement[g].status \in Open
  BY <1>1 DEF IInv, RevocationLocks, RevocationInv
<1>3. g # None
  BY HoldersDisjoint
<1>4. agreement[g].source = h
  <2>1. {a \in Agreements : agreement[a].source = h /\ agreement[a].status \in Open \cup Signed}
        = {agreement[h].successor} \ {None}
    BY DEF IInv, OneSuccessor
  <2>. QED
    BY <1>1, <1>3, <2>1
<1>5. agreement[h].status = "due"
  BY <1>4, HoldersDisjoint DEF IInv, FieldInv
<1>6. ASSUME NEW a \in Agreements PROVE rowLock[h] # a
  <2>1. SUFFICES ASSUME rowLock[h] = a PROVE FALSE
    OBVIOUS
  <2>2. agreement[a].status = "answered" /\ agreement[a].source = h
    BY <2>1 DEF IInv, IssueLocks
  <2>3. agreement[h].successor = None
    BY <2>2, HoldersDisjoint DEF IInv, LinkInv
  <2>. QED
    BY <1>1, <1>3, <2>3
<1>7. ASSUME NEW s \in Signings PROVE rowLock[h] # s
  BY <1>5 DEF IInv, SigningLocks, SigningInv, Open
<1>8. ASSUME NEW u \in Revocations PROVE rowLock[h] # u
  <2>1. SUFFICES ASSUME rowLock[h] = u PROVE FALSE
    OBVIOUS
  <2>2. \/ revocation[u].pc \in {"taken", "answered"} /\ revocation[u].agreement = h
        \/ revocation[u].pc = "answered" /\ revocation[u].agreement = g
    BY <1>1, <2>1 DEF IInv, RevocationLocks
  <2>3. CASE revocation[u].pc \in {"taken", "answered"} /\ revocation[u].agreement = h
    BY <1>5, <2>3 DEF IInv, RevocationInv, Open
  <2>4. CASE revocation[u].pc = "answered" /\ revocation[u].agreement = g
    <3>1. rowLock[g] = u
      BY <2>4 DEF IInv, RevocationLocks
    <3>. QED
      BY <1>2, <2>4, <3>1
  <2>. QED
    BY <2>2, <2>3, <2>4
<1>. QED
  BY <1>6, <1>7, <1>8 DEF Holders

\* Who has locked a row waits at most for the row of its signer, whose holder is past
\* that wait.
LEMMA HolderWaits ==
    ASSUME IInv, NEW h \in Agreements, NEW y \in Holders, rowLock[h] = y,
           NEW z \in Holders, WaitsFor(y, z)
    PROVE  /\ y \in Signings /\ signing[y].signer = None
           /\ z \in Signings /\ signing[z].pc = "consumed" /\ signing[z].signer # None
<1>1. CASE y \in Agreements
  <2>1. agreement[y].status = "answered" /\ y \notin Signings /\ y \notin Revocations
    BY <1>1, HoldersDisjoint DEF IInv, IssueLocks
  <2>. QED
    BY <2>1 DEF WaitsFor, WaitsForKey, WaitsForUser, WaitsForRow
<1>2. CASE y \in Signings
  <2>. DEFINE p == agreement[signing[y].agreement].recipient
  <2>1. signing[y].pc = "consumed" /\ y \notin Agreements /\ y \notin Revocations
    BY <1>2, HoldersDisjoint DEF IInv, SigningLocks
  <2>2. WaitsForUser(y, z)
    BY <2>1 DEF WaitsFor, WaitsForKey, WaitsForRow
  <2>3. p \in Recipients
    BY <1>2, <2>1 DEF IInv, SigningInv, FieldInv, Issued
  <2>. QED
    BY <1>2, <2>2, <2>3, HoldersDisjoint DEF WaitsForUser, SignerHolders
<1>3. CASE y \in Revocations
  <2>1. revocation[y].pc \in {"taken", "answered"} /\ y \notin Agreements /\ y \notin Signings
    BY <1>3, HoldersDisjoint DEF IInv, RevocationLocks
  <2>2. PICK q \in Agreements : WaitsForRow(y, q) /\ rowLock[q] = z
    BY <2>1 DEF WaitsFor, WaitsForKey, WaitsForUser
  <2>3. revocation[y].pc = "taken" /\ agreement[q].successor = revocation[y].agreement
    BY <2>1, <2>2 DEF WaitsForRow
  <2>. QED
    BY <1>3, <2>2, <2>3, PredecessorFree
<1>. QED
  BY <1>1, <1>2, <1>3 DEF Holders

\* Whoever is waited for without holding a row has inserted a renewal, and waits for the
\* row of its predecessor, which no acknowledgement holds.
LEMMA InsertedWaits ==
    ASSUME IInv, NEW w \in Holders, NEW x \in Holders, NEW y \in Holders,
           WaitsFor(w, x), WaitsFor(x, y), \A h \in Agreements : rowLock[h] # x
    PROVE  y \notin Signings /\ \E h \in Agreements : rowLock[h] = y
<1>1. ~WaitsForUser(w, x)
  <2>. SUFFICES ASSUME WaitsForUser(w, x) PROVE FALSE
    OBVIOUS
  <2>1. x \in Signings /\ signing[x].pc = "consumed"
    BY DEF WaitsForUser, SignerHolders
  <2>. QED
    BY <2>1 DEF IInv, SigningInv, SigningLocks
<1>2. x \in Agreements /\ agreement[x].status \in {"inserted", "answered"}
  BY <1>1 DEF WaitsFor, WaitsForKey
<1>3. PICK h \in Agreements : WaitsForRow(x, h) /\ rowLock[h] = y
  BY <1>2, HoldersDisjoint DEF WaitsFor, WaitsForKey, WaitsForUser
<1>4. agreement[x].source = h
  BY <1>2, <1>3, HoldersDisjoint DEF WaitsForRow
<1>5. agreement[h].status = "due"
  BY <1>2, <1>4, HoldersDisjoint DEF IInv, FieldInv
<1>6. y \notin Signings
  BY <1>3, <1>5 DEF IInv, SigningLocks, SigningInv, Open
<1>. QED
  BY <1>3, <1>6

\* Calls that wait for each other's rows and index keys and for the row of their signer
\* never form a cycle, so that the database finds no deadlock among them: an
\* acknowledgement that holds its request waits for another one of the same person, and
\* that one for nobody.
THEOREM NoDeadlock == Spec => []NoWaitChain
<1>1. IInv => NoWaitChain
  <2>. SUFFICES ASSUME IInv, NEW w \in Holders, NEW x \in Holders, NEW y \in Holders,
                       NEW z \in Holders, WaitsFor(w, x), WaitsFor(x, y), WaitsFor(y, z)
                PROVE  FALSE
    BY DEF NoWaitChain
  <2>1. CASE \E h \in Agreements : rowLock[h] = x
    <3>1. /\ y \in Signings /\ signing[y].pc = "consumed" /\ signing[y].signer # None
      BY <2>1, HolderWaits
    <3>2. \E h \in Agreements : rowLock[h] = y
      BY <3>1 DEF IInv, SigningInv, SigningLocks
    <3>. QED
      BY <3>1, <3>2, HolderWaits
  <2>2. CASE \A h \in Agreements : rowLock[h] # x
    <3>1. y \notin Signings /\ \E h \in Agreements : rowLock[h] = y
      BY <2>2, InsertedWaits
    <3>. QED
      BY <3>1, HolderWaits
  <2>. QED
    BY <2>1, <2>2
<1>. QED
  BY <1>1, Inductive, PTL

-----------------------------------------------------------------------------
\* What is on record stays: the requests with their terms, the receipts and the
\* withdrawals.
RecordKept == Asked \subseteq Asked' /\ receipts \subseteq receipts' /\ Withdrawn \subseteq Withdrawn'

RecordsStay == [][RecordKept]_vars

\* "Never changes an existing request or receipt" (docs/policy-acknowledgements.md):
\* renewals, expiries, revisions of the document and calls that crash leave what was
\* asked of whom, for which version, and who signed it, as it was.
THEOREM RecordsStayAlways == Spec => RecordsStay
<1>1. ASSUME [Ledger!Next]_(Ledger!ledgerVars)
      PROVE  RecordKept
  BY <1>1 DEF Ledger!Next, Ledger!ledgerVars, Ledger!Approve, Ledger!Ask, Ledger!Sign,
              Ledger!Withdraw, RecordKept
<1>2. LInv /\ [Next]_vars => [RecordKept]_vars
  BY <1>1, LedgerNext
<1>. QED
  BY <1>2, LedgerInductive, PTL DEF Spec, RecordsStay
=============================================================================
