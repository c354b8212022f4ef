----------------------- MODULE PolicyReferencesProofs -----------------------
(***************************************************************************)
(* Theorems about PolicyLibrary, for any number of revisions and decisions *)
(* and any sets of users, and then about PolicyReferences: the references  *)
(* leave the library's behaviour alone, no two of them exclude each other, *)
(* what is published was approved, and the rows implement the abstract     *)
(* register, for any number of requests and any set of items.              *)
(***************************************************************************)
EXTENDS PolicyReferences, TLAPS

-----------------------------------------------------------------------------
\* The library

\* Exactly the holder of the document row is between its lock and its commit.
LockInv == \A c \in Edits : edit[c].pc = "locked" <=> docLock = c

\* The number a lock holder goes by is the one the current version gives it: nobody
\* revises the document meanwhile.
NumberInv ==
    \A c \in Edits : edit[c].pc = "locked" =>
        edit[c].number = NumberFor(edit[c].kind, document.current)

\* Committed edits were of versions there are.
PastInv ==
    \A c \in Edits : edit[c].pc = "committed" => edit[c].number \in 1 .. document.current

\* The inductive invariant.
IInv == /\ TypeOK
        /\ LockInv
        /\ NumberInv
        /\ PastInv
        /\ EveryRevisionKept
        /\ StatusIsOfCurrentVersion

-----------------------------------------------------------------------------
LEMMA InitInv == Init => IInv
<1>. SUFFICES ASSUME Init PROVE IInv
  OBVIOUS
<1>1. TypeOK
  BY DEF Init, TypeOK, Version, Edit, IdleEdit, Kinds, Decisions
<1>2. LockInv /\ NumberInv /\ PastInv
  BY NobodyEdits DEF Init, LockInv, NumberInv, PastInv, IdleEdit
<1>3. EveryRevisionKept
  BY DEF Init, EveryRevisionKept, IdleEdit
<1>4. StatusIsOfCurrentVersion
  BY DEF Init, StatusIsOfCurrentVersion
<1>. QED
  BY <1>1, <1>2, <1>3, <1>4 DEF IInv

\* Steps that neither change a row nor commit an edit keep what the committed rows
\* and edits say.
LEMMA CommittedKept ==
    ASSUME IInv, UNCHANGED <<document, versions>>,
           \A c \in Edits : edit[c].pc = "committed" \/ edit'[c].pc = "committed" =>
                                edit'[c] = edit[c]
    PROVE  /\ PastInv'
           /\ EveryRevisionKept'
           /\ \A n, kind : DecidedOn(n, kind)' = DecidedOn(n, kind)
           /\ StatusIsOfCurrentVersion'
<1>1. PastInv'
  BY DEF IInv, PastInv
<1>2. EveryRevisionKept'
  BY DEF IInv, EveryRevisionKept
<1>3. \A n, kind : DecidedOn(n, kind)' = DecidedOn(n, kind)
  BY DEF DecidedOn
<1>4. StatusIsOfCurrentVersion'
  BY <1>3 DEF IInv, StatusIsOfCurrentVersion
<1>. QED
  BY <1>1, <1>2, <1>3, <1>4

LEMMA BeginEditInv ==
    ASSUME IInv, NEW c \in Edits, NEW w \in Users, NEW kind \in Kinds,
           BeginEdit(c, w, kind)
    PROVE  IInv'
<1>1. /\ edit[c].pc = "idle"
      /\ edit' = [edit EXCEPT ![c] = [IdleEdit EXCEPT !.pc = "waiting", !.kind = kind]]
      /\ UNCHANGED <<document, versions, docLock>>
  BY DEF BeginEdit
<1>2. TypeOK'
  BY <1>1 DEF IInv, TypeOK, Edit, IdleEdit
<1>3. /\ edit'[c].pc = "waiting"
      /\ \A b \in Edits \ {c} : edit'[b] = edit[b]
  BY <1>1 DEF IInv, TypeOK, IdleEdit
<1>4. LockInv' /\ NumberInv'
  BY <1>1, <1>3 DEF IInv, LockInv, NumberInv
<1>5. PastInv' /\ EveryRevisionKept' /\ StatusIsOfCurrentVersion'
  BY <1>1, <1>3, CommittedKept
<1>. QED
  BY <1>2, <1>4, <1>5 DEF IInv

LEMMA LockDocumentInv ==
    ASSUME IInv, NEW c \in Edits, LockDocument(c)
    PROVE  IInv'
<1>1. /\ edit[c].pc = "waiting"
      /\ docLock = None
      /\ docLock' = c
      /\ edit' = [edit EXCEPT ![c].pc = "locked",
                              ![c].number = NumberFor(edit[c].kind, document.current)]
      /\ UNCHANGED <<document, versions>>
  BY DEF LockDocument
<1>2. NumberFor(edit[c].kind, document.current) \in Nat
  BY DEF IInv, TypeOK, NumberFor
<1>3. TypeOK'
  BY <1>1, <1>2 DEF IInv, TypeOK, Edit
<1>4. /\ edit'[c].pc = "locked"
      /\ edit'[c].kind = edit[c].kind
      /\ edit'[c].number = NumberFor(edit[c].kind, document.current)
      /\ \A b \in Edits \ {c} : edit'[b] = edit[b]
  BY <1>1 DEF IInv, TypeOK, Edit
<1>5. LockInv' /\ NumberInv'
  BY <1>1, <1>4, NobodyEdits DEF IInv, LockInv, NumberInv
<1>6. PastInv' /\ EveryRevisionKept' /\ StatusIsOfCurrentVersion'
  BY <1>1, <1>4, CommittedKept
<1>. QED
  BY <1>3, <1>5, <1>6 DEF IInv

\* The two kinds of commit, with what they leave alone.
LEMMA CommitFacts ==
    ASSUME IInv, NEW c \in Edits, CommitEdit(c)
    PROVE  /\ edit'[c].pc = "committed"
           /\ edit'[c].kind = edit[c].kind
           /\ edit'[c].number = edit[c].number
           /\ edit'[c] \in Edit
           /\ edit[c].number = NumberFor(edit[c].kind, document.current)
           /\ \A b \in Edits \ {c} : edit'[b] = edit[b] /\ edit[b].pc # "locked"
           /\ docLock' = None
           /\ edit[c].pc = "locked"
  BY DEF IInv, TypeOK, Edit, LockInv, NumberInv, CommitEdit, Unlock

LEMMA CommitEditInv ==
    ASSUME IInv, NEW c \in Edits, CommitEdit(c)
    PROVE  IInv'
<1>1. /\ document.current \in Nat \ {0}
      /\ document \in [current : Nat \ {0}, status : Decisions]
      /\ edit[c] \in Edit
  BY DEF IInv, TypeOK
<1>2. LockInv' /\ NumberInv'
  BY CommitFacts, NobodyEdits DEF LockInv, NumberInv
<1>3. CASE edit[c].kind = "revise"
  <2>1. /\ edit[c].number = document.current + 1
        /\ document' = [document EXCEPT !.current = document.current + 1, !.status = "draft"]
        /\ versions' = versions \cup {[number |-> document.current + 1, by |-> c]}
    BY <1>3, CommitFacts DEF CommitEdit, Revised, NumberFor
  <2>2. document'.current = document.current + 1 /\ document'.status = "draft"
    BY <1>1, <2>1
  <2>3. TypeOK'
    <3>1. document' \in [current : Nat \ {0}, status : Decisions]
      <4>1. document.current + 1 \in Nat \ {0} /\ "draft" \in Decisions
        BY <1>1 DEF Decisions
      <4>. QED
        BY <1>1, <2>1, <4>1
    <3>2. versions' \subseteq Version
      BY <1>1, <2>1 DEF IInv, TypeOK, Version
    <3>3. edit' \in [Edits -> Edit]
      BY CommitFacts DEF IInv, TypeOK, CommitEdit
    <3>. QED
      BY <3>1, <3>2, <3>3, CommitFacts DEF TypeOK
  <2>4. PastInv'
    BY <1>1, <2>1, <2>2, CommitFacts DEF IInv, PastInv
  <2>5. EveryRevisionKept'
    <3>1. {x.number : x \in versions'} = 1 .. document'.current
      <4>1. {x.number : x \in versions'} =
                {x.number : x \in versions} \cup {document.current + 1}
        <5>. DEFINE r == [number |-> document.current + 1, by |-> c]
        <5>1. r.number = document.current + 1
          OBVIOUS
        <5>2. versions' = versions \cup {r}
          BY <2>1
        <5>. HIDE DEF r
        <5>. QED
          BY <5>1, <5>2
      <4>. QED
        BY <1>1, <2>2, <4>1 DEF IInv, EveryRevisionKept
    <3>2. \A x \in versions : x.number # document.current + 1
      BY <1>1 DEF IInv, EveryRevisionKept
    <3>3. \A x, y \in versions' : x.number = y.number => x = y
      BY <2>1, <3>2 DEF IInv, EveryRevisionKept
    <3>4. \A b \in Edits : edit'[b].pc = "committed" /\ edit'[b].kind = "revise" =>
              [number |-> edit'[b].number, by |-> b] \in versions'
      BY <2>1, CommitFacts DEF IInv, EveryRevisionKept
    <3>. QED
      BY <3>1, <3>3, <3>4 DEF EveryRevisionKept
  <2>6. StatusIsOfCurrentVersion'
    BY <2>2 DEF StatusIsOfCurrentVersion
  <2>. QED
    BY <1>2, <2>3, <2>4, <2>5, <2>6 DEF IInv
<1>4. CASE edit[c].kind # "revise"
  <2>1. /\ edit[c].number = document.current
        /\ document' = [document EXCEPT !.status = edit[c].kind]
        /\ UNCHANGED versions
    BY <1>4, CommitFacts DEF CommitEdit, NumberFor
  <2>2. document'.current = document.current /\ document'.status = edit[c].kind
    BY <1>1, <2>1
  <2>3. TypeOK'
    <3>1. edit[c].kind \in Decisions
      BY <1>1, <1>4 DEF Edit, Kinds
    <3>2. edit' \in [Edits -> Edit]
      BY CommitFacts DEF IInv, TypeOK, CommitEdit
    <3>. QED
      BY <1>1, <2>1, <3>1, <3>2, CommitFacts DEF IInv, TypeOK
  <2>4. PastInv'
    BY <1>1, <2>1, <2>2, CommitFacts DEF IInv, PastInv
  <2>5. EveryRevisionKept'
    BY <1>4, <2>1, <2>2, CommitFacts DEF IInv, EveryRevisionKept
  <2>6. c \in DecidedOn(document.current, document.status)'
    BY <2>1, <2>2, CommitFacts DEF DecidedOn
  <2>7. StatusIsOfCurrentVersion'
    BY <2>6 DEF StatusIsOfCurrentVersion
  <2>. QED
    BY <1>2, <2>3, <2>4, <2>5, <2>7 DEF IInv
<1>. QED
  BY <1>3, <1>4

LEMMA CrashEditInv ==
    ASSUME IInv, NEW c \in Edits, CrashEdit(c)
    PROVE  IInv'
<1>1. /\ edit[c].pc \in {"waiting", "locked"}
      /\ edit' = [edit EXCEPT ![c] = [IdleEdit EXCEPT !.pc = "ended"]]
      /\ docLock' = IF docLock = c THEN None ELSE docLock
      /\ UNCHANGED <<document, versions>>
  BY DEF CrashEdit, Unlock
<1>2. TypeOK'
  BY <1>1 DEF IInv, TypeOK, Edit, IdleEdit, Kinds, Decisions
<1>3. /\ edit'[c].pc = "ended"
      /\ \A b \in Edits \ {c} : edit'[b] = edit[b]
  BY <1>1 DEF IInv, TypeOK, IdleEdit
<1>4. LockInv' /\ NumberInv'
  BY <1>1, <1>3, NobodyEdits DEF IInv, LockInv, NumberInv
<1>5. PastInv' /\ EveryRevisionKept' /\ StatusIsOfCurrentVersion'
  BY <1>1, <1>3, CommittedKept
<1>. QED
  BY <1>2, <1>4, <1>5 DEF IInv

LEMMA NextInv == IInv /\ [Next]_libraryVars => IInv'
<1>1. ASSUME IInv, NEW c \in Edits,
             \/ \E w \in Users, kind \in Kinds : BeginEdit(c, w, kind)
             \/ PerformEdit(c)
             \/ CrashEdit(c)
      PROVE  IInv'
  BY <1>1, BeginEditInv, LockDocumentInv, CommitEditInv, CrashEditInv DEF PerformEdit
<1>2. ASSUME IInv, UNCHANGED libraryVars
      PROVE  IInv'
  <2>1. UNCHANGED <<document, versions, docLock, edit>>
    BY <1>2 DEF libraryVars
  <2>2. TypeOK' /\ LockInv' /\ NumberInv'
    BY <1>2, <2>1 DEF IInv, TypeOK, LockInv, NumberInv
  <2>3. PastInv' /\ EveryRevisionKept' /\ StatusIsOfCurrentVersion'
    BY <1>2, <2>1, CommittedKept
  <2>. QED
    BY <2>2, <2>3 DEF IInv
<1>. QED
  BY <1>1, <1>2 DEF Next

\* The library's inductive invariant holds in every reachable state.
THEOREM Inductive == Spec => []IInv
  BY InitInv, NextInv, PTL DEF Spec

\* Every committed revision has a number of its own, without a gap.
THEOREM RevisionsKept == Spec => []EveryRevisionKept
<1>1. IInv => EveryRevisionKept
  BY DEF IInv
<1>. QED
  BY <1>1, Inductive, PTL

\* A status other than draft was decided on the current version.
THEOREM StatusDecided == Spec => []StatusIsOfCurrentVersion
<1>1. IInv => StatusIsOfCurrentVersion
  BY DEF IInv
<1>. QED
  BY <1>1, Inductive, PTL

-----------------------------------------------------------------------------
\* The library implements the document

\* The versions approved at some time, as the refinement mapping has them.
Approved == {n \in 1 .. document.current : DecidedOn(n, "approved") # {}}

LEMMA RevisionRefines ==
    ASSUME IInv, NEW c \in Edits, CommitEdit(c), edit[c].kind = "revise"
    PROVE  Document!Revise
<1>1. /\ document \in [current : Nat \ {0}, status : Decisions]
      /\ document' = [document EXCEPT !.current = document.current + 1, !.status = "draft"]
  BY CommitFacts DEF IInv, TypeOK, CommitEdit, Revised, NumberFor
<1>2. document' = [current |-> document.current + 1, status |-> "draft"]
  BY <1>1
<1>3. \A n : DecidedOn(n, "approved")' = DecidedOn(n, "approved")
  BY CommitFacts DEF DecidedOn
<1>4. DecidedOn(document.current + 1, "approved") = {}
  BY <1>1 DEF DecidedOn, IInv, PastInv
<1>5. Approved' = Approved
  BY <1>1, <1>2, <1>3, <1>4 DEF Approved
<1>. QED
  BY <1>2, <1>5 DEF Document!Revise, Approved

LEMMA DecisionRefines ==
    ASSUME IInv, NEW c \in Edits, CommitEdit(c), edit[c].kind # "revise"
    PROVE  Document!Decide(edit[c].kind)
<1>1. /\ document \in [current : Nat \ {0}, status : Decisions]
      /\ document' = [document EXCEPT !.status = edit[c].kind]
      /\ edit[c].number = document.current
  BY CommitFacts DEF IInv, TypeOK, CommitEdit, NumberFor
<1>2. document'.current = document.current
  BY <1>1
<1>3. \A n : n # document.current => DecidedOn(n, "approved")' = DecidedOn(n, "approved")
  BY <1>1, CommitFacts DEF DecidedOn
<1>4. CASE edit[c].kind = "approved"
  <2>1. c \in DecidedOn(document.current, "approved")'
    BY <1>1, <1>4, CommitFacts DEF DecidedOn
  <2>2. DecidedOn(document.current, "approved")' # {}
    BY <2>1
  <2>3. Approved' = Approved \cup {document.current}
    BY <1>1, <1>2, <1>3, <2>2 DEF Approved
  <2>. QED
    BY <1>1, <1>4, <2>3 DEF Document!Decide, Approved
<1>5. CASE edit[c].kind # "approved"
  <2>1. \A n : DecidedOn(n, "approved")' = DecidedOn(n, "approved")
    BY <1>5, CommitFacts DEF DecidedOn
  <2>2. Approved' = Approved
    BY <1>2, <2>1 DEF Approved
  <2>. QED
    BY <1>1, <1>5, <2>2 DEF Document!Decide, Approved
<1>. QED
  BY <1>4, <1>5

LEMMA QuietSteps ==
    ASSUME IInv, NEW c \in Edits,
           \/ \E w \in Users, kind \in Kinds : BeginEdit(c, w, kind)
           \/ LockDocument(c)
           \/ CrashEdit(c)
    PROVE  UNCHANGED Document!documentVars
<1>1. /\ UNCHANGED <<document, versions>>
      /\ edit[c].pc # "committed" /\ edit'[c].pc # "committed"
      /\ \A b \in Edits \ {c} : edit'[b] = edit[b]
  <2>1. edit \in [Edits -> Edit]
    BY DEF IInv, TypeOK
  <2>2. CASE \E w \in Users, kind \in Kinds : BeginEdit(c, w, kind)
    BY <2>1, <2>2 DEF BeginEdit, IdleEdit
  <2>3. CASE LockDocument(c)
    BY <2>1, <2>3 DEF LockDocument, Edit
  <2>4. CASE CrashEdit(c)
    BY <2>1, <2>4 DEF CrashEdit, IdleEdit
  <2>. QED
    BY <2>2, <2>3, <2>4
<1>2. \A n, kind : DecidedOn(n, kind)' = DecidedOn(n, kind)
  BY <1>1 DEF DecidedOn
<1>3. Approved' = Approved
  BY <1>1, <1>2 DEF Approved
<1>. QED
  BY <1>1, <1>3 DEF Document!documentVars, Approved

\* Every step of the library is a step of the document, or leaves it alone.
LEMMA StepRefines == IInv /\ [Next]_libraryVars => [Document!Next]_Document!documentVars
<1>1. ASSUME IInv, NEW c \in Edits, CommitEdit(c)
      PROVE  Document!Next
  <2>1. CASE edit[c].kind = "revise"
    BY <1>1, <2>1, RevisionRefines DEF Document!Next
  <2>2. CASE edit[c].kind # "revise"
    <3>1. edit[c].kind \in Decisions
      BY <1>1, <2>2 DEF IInv, TypeOK, Edit, Kinds
    <3>. QED
      BY <1>1, <2>2, <3>1, DecisionRefines DEF Document!Next
  <2>. QED
    BY <2>1, <2>2
<1>2. ASSUME UNCHANGED libraryVars
      PROVE  UNCHANGED Document!documentVars
  BY <1>2 DEF libraryVars, Document!documentVars, DecidedOn
<1>. QED
  BY <1>1, <1>2, QuietSteps DEF Next, PerformEdit

LEMMA InitRefines == Init => Document!Init
<1>. SUFFICES ASSUME Init PROVE Document!Init
  OBVIOUS
<1>1. \A n, kind : DecidedOn(n, kind) = {}
  BY DEF Init, DecidedOn, IdleEdit
<1>. QED
  BY <1>1 DEF Init, Document!Init

\* Revisions and decisions that run together take effect one after the other, each on
\* the version before it.
THEOREM LibraryImplementsDocument == Spec => ImplementsDocument
  BY InitRefines, StepRefines, Inductive, PTL DEF Spec, ImplementsDocument, Document!Spec

-----------------------------------------------------------------------------
\* The references beside it

\* What the steps of a request leave in its fields.
ShapeInv ==
    /\ \A r \in Requests :
        /\ request[r].pc \in {"read", "entered", "keyed"} =>
               request[r].item # None /\ request[r].of = None
        /\ request[r].pc = "named" => request[r].item = None /\ request[r].of # None
        /\ request[r].pc = "answered" => (request[r].item = None <=> request[r].of # None)
    /\ \A r \in rows : /\ request[r].pc = "committed"
                       /\ request[r].item # None
                       /\ request[r].of = None

\* Requests whose row is there or is inserted by an open transaction, and those whose
\* row has all its keys.
Held(r) == r \in rows \/ Open(r)
Entered(r) == r \in rows \/ Keyed(r)

\* The unique indexes hold uncommitted rows too.
KeyInv ==
    \A a, b \in Requests : a # b =>
        /\ Held(a) /\ Held(b) => ~SameRow(request[a].item, request[b].item)
        /\ Entered(a) /\ Entered(b) => ~SameTarget(request[a].item, request[b].item)

\* A version that was read as approved stays one that was.
VersionInv ==
    \A r \in Requests :
        request[r].pc \in {"read", "entered", "keyed", "answered", "committed"}
        /\ request[r].item = Resource => DecidedOn(request[r].version, "approved") # {}

\* The inductive invariant, beside the library's.
RInv == /\ rows \subseteq Requests
        /\ request \in [Requests -> Request]
        /\ ShapeInv
        /\ KeyInv
        /\ VersionInv

-----------------------------------------------------------------------------
LEMMA LibraryStep == [ReferencesNext]_vars => [Next]_libraryVars
  BY DEF ReferencesNext, vars, Next, libraryVars, EditBeside, Read, EnterIndexes,
         EnterAccountable, Duplicate, AnswerCreation, CommitCreation, BeginRemoval, Delete, RefuseRemoval,
         CommitRemoval, Perform, CrashRequest

\* The references only restrict when a revision gets its lock.
THEOREM ReferencesImplementLibrary == ReferencesSpec => Spec
<1>1. ReferencesInit => Init
  BY DEF ReferencesInit
<1>. QED
  BY <1>1, LibraryStep, PTL DEF ReferencesSpec, Spec

LEMMA InitReferences == ReferencesInit => RInv
  BY NotRequested DEF ReferencesInit, RInv, ShapeInv, KeyInv, VersionInv, Held, Entered, Keyed,
     Open, NoRequest, Request

\* A step that sets the record of request r to v and leaves the document alone.
LEMMA SetRequest ==
    ASSUME RInv, NEW r \in Requests, NEW v \in Request,
           request' = [request EXCEPT ![r] = v], UNCHANGED libraryVars
    PROVE  /\ request' \in [Requests -> Request]
           /\ request'[r] = v
           /\ \A b \in Requests \ {r} : request'[b] = request[b]
           /\ \A n, kind : DecidedOn(n, kind)' = DecidedOn(n, kind)
  BY DEF RInv, libraryVars, DecidedOn

\* A step that keeps the items of the keys that are there, and adds no key, keeps them apart.
LEMMA KeysStay ==
    ASSUME KeyInv,
           \A b \in Requests : Held(b)' => Held(b) /\ request'[b].item = request[b].item,
           \A b \in Requests : Entered(b)' => Entered(b) /\ request'[b].item = request[b].item
    PROVE  KeyInv'
<1>. SUFFICES ASSUME NEW a \in Requests, NEW b \in Requests, a # b
              PROVE  /\ Held(a)' /\ Held(b)' =>
                            ~SameRow(request'[a].item, request'[b].item)
                     /\ Entered(a)' /\ Entered(b)' =>
                            ~SameTarget(request'[a].item, request'[b].item)
  BY DEF KeyInv
<1>1. ASSUME Held(a)', Held(b)' PROVE ~SameRow(request'[a].item, request'[b].item)
  BY <1>1 DEF KeyInv
<1>2. ASSUME Entered(a)', Entered(b)' PROVE ~SameTarget(request'[a].item, request'[b].item)
  BY <1>2 DEF KeyInv
<1>. QED
  BY <1>1, <1>2

\* A record that is not held, and of no version, disturbs nothing.
LEMMA QuietRequest ==
    ASSUME RInv, NEW r \in Requests, NEW v \in Request,
           request' = [request EXCEPT ![r] = v], UNCHANGED <<libraryVars, rows>>,
           r \notin rows,
           \/ v.pc = "ended" /\ v.item = None /\ v.of = None
           \/ v.pc = "named" /\ v.item = None /\ v.of # None
           \/ v.pc = "answered" /\ v.item = None /\ v.of # None
    PROVE  RInv'
<1>1. /\ request' \in [Requests -> Request]
      /\ request'[r] = v
      /\ \A b \in Requests \ {r} : request'[b] = request[b]
      /\ \A n, kind : DecidedOn(n, kind)' = DecidedOn(n, kind)
      /\ rows' = rows /\ rows \subseteq Requests
  BY SetRequest DEF RInv
<1>2. ShapeInv'
  BY <1>1 DEF RInv, ShapeInv
<1>3. KeyInv'
  <2>1. \A b \in Requests : Held(b)' => Held(b) /\ request'[b].item = request[b].item
    BY <1>1 DEF Held, Entered, Keyed, Open
  <2>2. \A b \in Requests : Entered(b)' => Entered(b) /\ request'[b].item = request[b].item
    BY <1>1 DEF Held, Entered, Keyed, Open
  <2>. QED
    BY <2>1, <2>2, KeysStay DEF RInv
<1>4. VersionInv'
  BY <1>1, NotRequested DEF RInv, VersionInv
<1>. QED
  BY <1>1, <1>2, <1>3, <1>4 DEF RInv

LEMMA ReadInv ==
    ASSUME IInv, RInv, NEW r \in Requests, NEW w \in Users, NEW x \in Items, Read(r, w, x)
    PROVE  RInv'
<1>. DEFINE v == [NoRequest EXCEPT !.pc = "read", !.item = x,
                      !.version = IF x = Resource THEN document.current ELSE 0]
<1>1. v \in Request
  BY DEF Request, NoRequest, IInv, TypeOK
<1>2. /\ v.pc = "read" /\ v.item = x /\ v.of = None
      /\ x = Resource => v.version = document.current
  BY DEF NoRequest
<1>3. /\ request[r].pc = "idle"
      /\ request' = [request EXCEPT ![r] = v]
      /\ UNCHANGED <<libraryVars, rows>>
  BY DEF Read, Unsent
<1>4. x = Resource => DecidedOn(document.current, "approved") # {}
  BY DEF Read, Finds, IInv, StatusIsOfCurrentVersion
<1>. HIDE DEF v
<1>5. /\ request' \in [Requests -> Request]
      /\ request'[r] = v
      /\ \A b \in Requests \ {r} : request'[b] = request[b]
      /\ \A n, kind : DecidedOn(n, kind)' = DecidedOn(n, kind)
      /\ rows' = rows /\ rows \subseteq Requests
  BY <1>1, <1>3, SetRequest DEF RInv
<1>6. r \notin rows /\ None \notin Items
  BY <1>3, NotRequested DEF RInv, ShapeInv
<1>7. ShapeInv'
  BY <1>2, <1>5, <1>6 DEF RInv, ShapeInv
<1>8. KeyInv'
  <2>1. \A b \in Requests : Held(b)' => Held(b) /\ request'[b].item = request[b].item
    BY <1>2, <1>5, <1>6 DEF Held, Entered, Keyed, Open
  <2>2. \A b \in Requests : Entered(b)' => Entered(b) /\ request'[b].item = request[b].item
    BY <1>2, <1>5, <1>6 DEF Held, Entered, Keyed, Open
  <2>. QED
    BY <2>1, <2>2, KeysStay DEF RInv
<1>9. VersionInv'
  BY <1>2, <1>4, <1>5 DEF RInv, VersionInv
<1>. QED
  BY <1>5, <1>7, <1>8, <1>9 DEF RInv

\* A creation moves on: its record keeps everything but its control state.
LEMMA Advance ==
    ASSUME RInv, NEW r \in Requests, NEW s \in {"entered", "keyed", "answered", "committed"},
           request[r].pc \in {"read", "entered", "keyed", "answered"}, request[r].of = None,
           request' = [request EXCEPT ![r].pc = s], UNCHANGED libraryVars
    PROVE  /\ request' \in [Requests -> Request]
           /\ request'[r].pc = s
           /\ request'[r].item = request[r].item /\ request[r].item # None
           /\ request'[r].of = None
           /\ \A b \in Requests : request'[b].item = request[b].item
           /\ \A b \in Requests \ {r} : request'[b] = request[b]
           /\ VersionInv'
<1>1. /\ request' \in [Requests -> Request]
      /\ request'[r].pc = s
      /\ request'[r].item = request[r].item
      /\ request'[r].version = request[r].version
      /\ request'[r].of = request[r].of
      /\ \A b \in Requests \ {r} : request'[b] = request[b]
  BY DEF RInv, Request
<1>2. \A n, kind : DecidedOn(n, kind)' = DecidedOn(n, kind)
  BY DEF libraryVars, DecidedOn
<1>3. VersionInv'
  BY <1>1, <1>2 DEF RInv, VersionInv
<1>. QED
  BY <1>1, <1>3 DEF RInv, ShapeInv

LEMMA EnterIndexesInv ==
    ASSUME RInv, NEW r \in Requests, EnterIndexes(r)
    PROVE  RInv'
<1>1. PICK s \in {"entered", "keyed"} :
          /\ request[r].pc = "read"
          /\ request[r].of = None
          /\ \A b \in Clashing(r) : b \notin rows /\ ~Open(b)
          /\ s = "keyed" => ~Accountable(request[r].item)
          /\ request' = [request EXCEPT ![r].pc = s]
          /\ UNCHANGED <<libraryVars, rows>>
  BY DEF EnterIndexes, AfterEntry, RInv, ShapeInv
<1>2. /\ request' \in [Requests -> Request]
      /\ request'[r].pc = s
      /\ request'[r].item = request[r].item /\ request[r].item # None
      /\ request'[r].of = None
      /\ \A b \in Requests : request'[b].item = request[b].item
      /\ \A b \in Requests \ {r} : request'[b] = request[b]
      /\ VersionInv'
  BY <1>1, Advance
<1>3. ShapeInv'
  BY <1>1, <1>2 DEF RInv, ShapeInv
<1>4. \A b \in Requests \ {r} : (Held(b)' <=> Held(b)) /\ (Entered(b)' <=> Entered(b))
  BY <1>1, <1>2 DEF Held, Entered, Keyed, Open
<1>5. \A b \in Requests \ {r} : Held(b) =>
          /\ ~SameRow(request[b].item, request[r].item)
          /\ ~SameRow(request[r].item, request[b].item)
  <2>. SUFFICES ASSUME NEW b \in Requests \ {r}, Held(b)
                PROVE  /\ ~SameRow(request[b].item, request[r].item)
                       /\ ~SameRow(request[r].item, request[b].item)
    OBVIOUS
  <2>1. request[b].item # None
    BY DEF Held, Open, RInv, ShapeInv
  <2>2. ~SameRow(request[b].item, request[r].item)
    BY <1>1, <2>1 DEF Held, Clashing
  <2>. QED
    BY <2>2 DEF SameRow
<1>6. Entered(r)' => ~Accountable(request[r].item)
  BY <1>1, <1>2 DEF Entered, Keyed, Open, RInv, ShapeInv
<1>7. KeyInv'
  BY <1>2, <1>4, <1>5, <1>6 DEF RInv, KeyInv, SameTarget
<1>. QED
  BY <1>1, <1>2, <1>3, <1>7 DEF RInv

LEMMA EnterAccountableInv ==
    ASSUME RInv, NEW r \in Requests, EnterAccountable(r)
    PROVE  RInv'
<1>1. /\ request[r].pc = "entered"
      /\ request[r].of = None
      /\ \A b \in Rivals(r) : b \notin rows /\ ~Keyed(b)
      /\ request' = [request EXCEPT ![r].pc = "keyed"]
      /\ UNCHANGED <<libraryVars, rows>>
  BY DEF EnterAccountable, RInv, ShapeInv
<1>2. /\ request' \in [Requests -> Request]
      /\ request'[r].pc = "keyed"
      /\ request'[r].item = request[r].item /\ request[r].item # None
      /\ request'[r].of = None
      /\ \A b \in Requests : request'[b].item = request[b].item
      /\ \A b \in Requests \ {r} : request'[b] = request[b]
      /\ VersionInv'
  BY <1>1, Advance
<1>3. ShapeInv'
  BY <1>1, <1>2 DEF RInv, ShapeInv
<1>4. /\ \A b \in Requests : Held(b)' <=> Held(b)
      /\ \A b \in Requests \ {r} : Entered(b)' <=> Entered(b)
  BY <1>1, <1>2 DEF Held, Entered, Keyed, Open
<1>5. \A b \in Requests \ {r} : Entered(b) =>
          /\ ~SameTarget(request[b].item, request[r].item)
          /\ ~SameTarget(request[r].item, request[b].item)
  <2>. SUFFICES ASSUME NEW b \in Requests \ {r}, Entered(b)
                PROVE  /\ ~SameTarget(request[b].item, request[r].item)
                       /\ ~SameTarget(request[r].item, request[b].item)
    OBVIOUS
  <2>1. request[b].item # None
    BY DEF Entered, Keyed, Open, RInv, ShapeInv
  <2>2. ~SameTarget(request[b].item, request[r].item)
    BY <1>1, <2>1 DEF Entered, Rivals
  <2>. QED
    BY <2>2 DEF SameTarget
<1>6. KeyInv'
  BY <1>2, <1>4, <1>5 DEF RInv, KeyInv
<1>. QED
  BY <1>1, <1>2, <1>3, <1>6 DEF RInv

LEMMA AnswerCreationInv ==
    ASSUME RInv, NEW r \in Requests, AnswerCreation(r)
    PROVE  RInv'
<1>1. /\ request[r].pc = "keyed"
      /\ request[r].of = None
      /\ request' = [request EXCEPT ![r].pc = "answered"]
      /\ UNCHANGED <<libraryVars, rows>>
  BY DEF AnswerCreation, RInv, ShapeInv
<1>2. /\ request' \in [Requests -> Request]
      /\ request'[r].pc = "answered"
      /\ request'[r].item = request[r].item /\ request[r].item # None
      /\ request'[r].of = None
      /\ \A b \in Requests : request'[b].item = request[b].item
      /\ \A b \in Requests \ {r} : request'[b] = request[b]
      /\ VersionInv'
  BY <1>1, Advance
<1>3. ShapeInv'
  BY <1>1, <1>2 DEF RInv, ShapeInv
<1>4. \A b \in Requests : (Held(b)' <=> Held(b)) /\ (Entered(b)' <=> Entered(b))
  BY <1>1, <1>2 DEF Held, Entered, Keyed, Open
<1>5. KeyInv'
  BY <1>2, <1>4 DEF RInv, KeyInv
<1>. QED
  BY <1>1, <1>2, <1>3, <1>5 DEF RInv

LEMMA CommitCreationInv ==
    ASSUME RInv, NEW r \in Requests, CommitCreation(r)
    PROVE  RInv'
<1>1. /\ request[r].pc = "answered"
      /\ request[r].of = None
      /\ request' = [request EXCEPT ![r].pc = "committed"]
      /\ rows' = rows \cup {r}
      /\ UNCHANGED libraryVars
  BY DEF CommitCreation
<1>2. /\ request' \in [Requests -> Request]
      /\ request'[r].pc = "committed"
      /\ request'[r].item = request[r].item /\ request[r].item # None
      /\ request'[r].of = None
      /\ \A b \in Requests : request'[b].item = request[b].item
      /\ \A b \in Requests \ {r} : request'[b] = request[b]
      /\ VersionInv'
  BY <1>1, Advance
<1>3. ShapeInv'
  BY <1>1, <1>2 DEF RInv, ShapeInv
<1>4. \A b \in Requests : (Held(b)' <=> Held(b)) /\ (Entered(b)' <=> Entered(b))
  BY <1>1, <1>2 DEF Held, Entered, Keyed, Open
<1>5. KeyInv'
  BY <1>2, <1>4 DEF RInv, KeyInv
<1>. QED
  BY <1>1, <1>2, <1>3, <1>5 DEF RInv

\* Requests that end, name a row or delete one hold no row of their own.
LEMMA QuietInv ==
    ASSUME RInv, NEW r \in Requests,
           \/ Duplicate(r) \/ RefuseRemoval(r) \/ CrashRequest(r) \/ Delete(r)
           \/ \E w \in Users, b \in Requests : BeginRemoval(r, w, b)
    PROVE  RInv'
<1>1. [NoRequest EXCEPT !.pc = "ended"] \in Request
  BY DEF NoRequest, Request
<1>2. CASE Duplicate(r) \/ RefuseRemoval(r) \/ CrashRequest(r)
  <2>1. /\ request[r].pc \in {"read", "named", "entered", "keyed", "answered"}
        /\ request' = [request EXCEPT ![r] = [NoRequest EXCEPT !.pc = "ended"]]
        /\ UNCHANGED <<libraryVars, rows>>
    BY <1>2 DEF Duplicate, RefuseRemoval, CrashRequest
  <2>2. r \notin rows
    BY <2>1 DEF RInv, ShapeInv
  <2>3. LET v == [NoRequest EXCEPT !.pc = "ended"]
        IN  v.pc = "ended" /\ v.item = None /\ v.of = None
    BY DEF NoRequest
  <2>. QED
    BY <1>1, <2>1, <2>2, <2>3, QuietRequest
<1>3. CASE Delete(r)
  <2>. DEFINE v == [request[r] EXCEPT !.pc = "answered"]
  <2>1. /\ request[r].pc = "named"
        /\ request' = [request EXCEPT ![r] = v]
        /\ UNCHANGED <<libraryVars, rows>>
    BY <1>3 DEF Delete
  <2>2. request[r] \in Request
    BY DEF RInv
  <2>3. /\ v \in Request /\ v.pc = "answered"
        /\ v.item = request[r].item /\ v.of = request[r].of
    BY <2>2 DEF Request
  <2>4. r \notin rows /\ v.item = None /\ v.of # None
    BY <2>1, <2>3 DEF RInv, ShapeInv
  <2>. HIDE DEF v
  <2>. QED
    BY <2>1, <2>3, <2>4, QuietRequest
<1>4. ASSUME NEW w \in Users, NEW b \in Requests, BeginRemoval(r, w, b)
      PROVE  RInv'
  <2>. DEFINE v == [NoRequest EXCEPT !.pc = "named", !.of = b]
  <2>1. /\ request[r].pc = "idle"
        /\ request' = [request EXCEPT ![r] = v]
        /\ UNCHANGED <<libraryVars, rows>>
    BY <1>4 DEF BeginRemoval, Unsent
  <2>2. /\ v \in Request /\ v.pc = "named" /\ v.item = None /\ v.of = b
    BY DEF NoRequest, Request
  <2>3. r \notin rows /\ b # None
    BY <2>1, NotRequested DEF RInv, ShapeInv
  <2>. HIDE DEF v
  <2>. QED
    BY <2>1, <2>2, <2>3, QuietRequest
<1>. QED
  BY <1>2, <1>3, <1>4

LEMMA CommitRemovalInv ==
    ASSUME RInv, NEW r \in Requests, CommitRemoval(r)
    PROVE  RInv'
<1>. DEFINE b == request[r].of
            v == [NoRequest EXCEPT !.pc = "ended"]
<1>1. /\ request[r].pc = "answered"
      /\ b # None
      /\ rows' = rows \ {b}
      /\ request' = [request EXCEPT ![r] = v, ![b] = v]
      /\ UNCHANGED libraryVars
  BY DEF CommitRemoval
<1>2. /\ v \in Request
      /\ v.pc = "ended" /\ v.item = None /\ v.of = None
  BY DEF NoRequest, Request
<1>3. b \in Requests
  BY <1>1 DEF RInv, Request
<1>. HIDE DEF b, v
<1>4. /\ request' \in [Requests -> Request]
      /\ request'[r] = v
      /\ request'[b] = v
      /\ \A d \in Requests \ {r, b} : request'[d] = request[d]
  BY <1>1, <1>2, <1>3 DEF RInv
<1>5. \A n, kind : DecidedOn(n, kind)' = DecidedOn(n, kind)
  BY <1>1 DEF libraryVars, DecidedOn
<1>6. r \notin rows /\ rows \subseteq Requests
  BY <1>1 DEF RInv, ShapeInv
<1>7. ShapeInv'
  BY <1>1, <1>2, <1>4, <1>6 DEF RInv, ShapeInv
<1>8. KeyInv'
  <2>1. \A d \in Requests : Held(d)' => Held(d) /\ request'[d].item = request[d].item
    BY <1>1, <1>2, <1>4, <1>6 DEF Held, Entered, Keyed, Open
  <2>2. \A d \in Requests : Entered(d)' => Entered(d) /\ request'[d].item = request[d].item
    BY <1>1, <1>2, <1>4, <1>6 DEF Held, Entered, Keyed, Open
  <2>. QED
    BY <2>1, <2>2, KeysStay DEF RInv
<1>9. VersionInv'
  BY <1>2, <1>4, <1>5 DEF RInv, VersionInv
<1>. QED
  BY <1>1, <1>4, <1>6, <1>7, <1>8, <1>9 DEF RInv

\* Edits of the document leave the references alone, and what was decided stays.
LEMMA EditBesideInv ==
    ASSUME IInv, RInv, [Next]_libraryVars, UNCHANGED <<rows, request>>
    PROVE  RInv'
<1>1. \A c \in Edits : edit[c].pc = "committed" => edit'[c] = edit[c]
  <2>1. CASE UNCHANGED libraryVars
    BY <2>1 DEF libraryVars
  <2>2. ASSUME NEW c \in Edits,
               \/ \E w \in Users, kind \in Kinds : BeginEdit(c, w, kind)
               \/ PerformEdit(c)
               \/ CrashEdit(c)
        PROVE  \A d \in Edits : edit[d].pc = "committed" => edit'[d] = edit[d]
    <3>1. edit[c].pc # "committed"
      BY <2>2 DEF BeginEdit, PerformEdit, LockDocument, CommitEdit, CrashEdit
    <3>2. \A d \in Edits \ {c} : edit'[d] = edit[d]
      BY <2>2 DEF BeginEdit, PerformEdit, LockDocument, CommitEdit, CrashEdit, IInv, TypeOK
    <3>. QED
      BY <3>1, <3>2
  <2>. QED
    BY <2>1, <2>2 DEF Next
<1>2. \A n, kind : DecidedOn(n, kind) \subseteq DecidedOn(n, kind)'
  BY <1>1 DEF DecidedOn
<1>3. ShapeInv' /\ KeyInv'
  BY DEF RInv, ShapeInv, KeyInv, Held, Entered, Keyed, Open
<1>4. VersionInv'
  BY <1>2 DEF RInv, VersionInv
<1>. QED
  BY <1>3, <1>4 DEF RInv

LEMMA NextReferences == IInv /\ RInv /\ [ReferencesNext]_vars => RInv'
<1>. SUFFICES ASSUME IInv, RInv, [ReferencesNext]_vars PROVE RInv'
  OBVIOUS
<1>1. [Next]_libraryVars
  BY LibraryStep
<1>2. CASE UNCHANGED <<rows, request>>
  BY <1>1, <1>2, EditBesideInv
<1>3. ASSUME NEW r \in Requests,
             \/ \E w \in Users, x \in Items : Read(r, w, x)
             \/ \E w \in Users, b \in Requests : BeginRemoval(r, w, b)
             \/ Perform(r)
             \/ CrashRequest(r)
      PROVE  RInv'
  BY <1>3, ReadInv, EnterIndexesInv, EnterAccountableInv, AnswerCreationInv, CommitCreationInv, QuietInv,
     CommitRemovalInv DEF Perform
<1>. QED
  BY <1>2, <1>3 DEF ReferencesNext, vars, EditBeside

\* So does that of the references, beside the library's.
THEOREM ReferencesInductive == ReferencesSpec => [](IInv /\ RInv)
<1>1. ReferencesSpec => []IInv
  BY ReferencesImplementLibrary, Inductive, PTL
<1>2. RInv /\ IInv /\ [ReferencesNext]_vars => RInv'
  BY NextReferences
<1>. QED
  BY <1>1, <1>2, InitReferences, PTL DEF ReferencesSpec

\* Types, of the document and of what refers to it.
THEOREM ReferencesTyped == ReferencesSpec => []ReferencesTypeOK
<1>1. IInv /\ RInv => ReferencesTypeOK
  BY DEF IInv, RInv, ShapeInv, ReferencesTypeOK
<1>. QED
  BY <1>1, ReferencesInductive, PTL

\* "At most one accountable role", "one current primary holder"
\* (docs/responsibility-matrix.md), "This policy is already published"
\* (trust_centers.py:270): however creations and removals overlap, wait for each
\* other and crash, no two of the rows there are exclude each other.
OneOfEach ==
    \A a, b \in rows : Clash(request[a].item, request[b].item) => a = b

\* One accountable role, one primary holder, one publication.
THEOREM NoClash == ReferencesSpec => []OneOfEach
<1>1. IInv /\ RInv => OneOfEach
  BY DEF RInv, KeyInv, Held, Entered, Clash, OneOfEach
<1>. QED
  BY <1>1, ReferencesInductive, PTL

\* Only approved versions are published.
THEOREM PublishedApproved == ReferencesSpec => []PublishedVersionApproved
<1>1. IInv /\ RInv => PublishedVersionApproved
  BY DEF RInv, VersionInv, PublishedVersionApproved
<1>. QED
  BY <1>1, ReferencesInductive, PTL

\* The references leave the promises of the library as they are.
THEOREM ReferencesImplementDocument == ReferencesSpec => ImplementsDocument
  BY ReferencesImplementLibrary, LibraryImplementsDocument, PTL

-----------------------------------------------------------------------------
\* The register of references

Named(x) == x.table \in {"holder", "mapping"}
Taken(x) == x.table \in {"resource", "mapping"}

\* Who inserts a row for a role has found the role, and it is still there.
RoleInv ==
    \A r \in Requests : request[r].item # None /\ Named(request[r].item) =>
        RoleExists(request[r].item.role)

\* A removal is of a row that was sent, of a kind that may be removed, unless it is gone.
RemovalInv ==
    \A r \in Requests : request[r].of # None =>
        LET b == request[r].of
        IN  request[b].pc # "idle" /\ (request[b].item = None \/ Taken(request[b].item))

GInv == IInv /\ RInv /\ RoleInv /\ RemovalInv

\* What a step may do to the record of r.
Found(r) ==
    /\ request[r].pc = "idle"
    /\ request'[r].pc # "idle" /\ request'[r].of = None
    /\ Finds(request'[r].item)

NamedRow(r) ==
    /\ request[r].pc = "idle"
    /\ request'[r].pc # "idle" /\ request'[r].item = None
    /\ \E b \in Requests \ {r} :
          /\ request'[r].of = b /\ request'[b] = request[b]
          /\ request[b].pc # "idle" /\ Taken(request[b].item)

MovedOn(r) ==
    /\ request[r].pc # "idle" /\ request'[r].pc # "idle"
    /\ request'[r].item \in {None, request[r].item}
    /\ request'[r].of \in {None, request[r].of}

LEMMA RecordStep ==
    ASSUME RInv, RemovalInv, [ReferencesNext]_vars, NEW r \in Requests
    PROVE  request'[r] = request[r] \/ Found(r) \/ NamedRow(r) \/ MovedOn(r)
<1>. DEFINE Goal == request'[r] = request[r] \/ Found(r) \/ NamedRow(r) \/ MovedOn(r)
<1>1. request \in [Requests -> Request]
  BY DEF RInv
<1>2. ASSUME NEW q \in Requests, NEW w \in Users, NEW x \in Items, Read(q, w, x)
      PROVE  Goal
  <2>. DEFINE v == [NoRequest EXCEPT !.pc = "read", !.item = x,
                        !.version = IF x = Resource THEN document.current ELSE 0]
  <2>1. request' = [request EXCEPT ![q] = v] /\ request[q].pc = "idle" /\ Finds(x)
    BY <1>2 DEF Read, Unsent
  <2>2. v.pc = "read" /\ v.item = x /\ v.of = None
    BY DEF NoRequest
  <2>. HIDE DEF v
  <2>. QED
    BY <1>1, <2>1, <2>2 DEF Found
<1>3. ASSUME NEW q \in Requests, NEW w \in Users, NEW b \in Requests, BeginRemoval(q, w, b)
      PROVE  Goal
  <2>. DEFINE v == [NoRequest EXCEPT !.pc = "named", !.of = b]
  <2>1. /\ request' = [request EXCEPT ![q] = v]
        /\ request[q].pc = "idle" /\ request[b].pc # "idle" /\ Taken(request[b].item)
    BY <1>3 DEF BeginRemoval, Unsent, Taken
  <2>2. v.pc = "named" /\ v.item = None /\ v.of = b
    BY DEF NoRequest
  <2>. HIDE DEF v
  <2>. QED
    BY <1>1, <2>1, <2>2 DEF NamedRow
<1>4. ASSUME NEW q \in Requests,
             \/ EnterIndexes(q) \/ EnterAccountable(q) \/ AnswerCreation(q)
             \/ CommitCreation(q) \/ Delete(q)
      PROVE  Goal
  <2>1. PICK c \in {"entered", "keyed", "answered", "committed"} :
            request' = [request EXCEPT ![q].pc = c] /\ request[q].pc # "idle"
    BY <1>4 DEF EnterIndexes, EnterAccountable, AfterEntry, AnswerCreation, CommitCreation,
                Delete
  <2>2. /\ request'[q].pc = c
        /\ request'[q].item = request[q].item /\ request'[q].of = request[q].of
        /\ \A d \in Requests \ {q} : request'[d] = request[d]
    BY <1>1, <2>1 DEF Request
  <2>. QED
    BY <2>1, <2>2 DEF MovedOn
<1>5. ASSUME NEW q \in Requests,
             Duplicate(q) \/ RefuseRemoval(q) \/ CrashRequest(q) \/ CommitRemoval(q),
             request[q].of # None => request[request[q].of].pc # "idle"
      PROVE  Goal
  <2>. DEFINE v == [NoRequest EXCEPT !.pc = "ended"]
  <2>1. v.pc = "ended" /\ v.item = None /\ v.of = None
    BY DEF NoRequest
  <2>2. /\ request[q].pc # "idle"
        /\ \/ request' = [request EXCEPT ![q] = v]
           \/ /\ request' = [request EXCEPT ![q] = v, ![request[q].of] = v]
              /\ request[q].of # None
    BY <1>5 DEF Duplicate, RefuseRemoval, CrashRequest, CommitRemoval
  <2>. HIDE DEF v
  <2>. QED
    BY <1>1, <1>5, <2>1, <2>2 DEF MovedOn
<1>6. ASSUME UNCHANGED request
      PROVE  Goal
  BY <1>6
<1>7. \A q \in Requests : request[q].of # None => request[request[q].of].pc # "idle"
  BY DEF RemovalInv
<1>8. \/ UNCHANGED request
      \/ \E q \in Requests :
            \/ \E w \in Users, x \in Items : Read(q, w, x)
            \/ \E w \in Users, b \in Requests : BeginRemoval(q, w, b)
            \/ EnterIndexes(q) \/ EnterAccountable(q) \/ AnswerCreation(q)
            \/ CommitCreation(q) \/ Delete(q)
            \/ Duplicate(q) \/ RefuseRemoval(q) \/ CrashRequest(q) \/ CommitRemoval(q)
  BY DEF ReferencesNext, EditBeside, Perform, vars
<1>. HIDE DEF Goal
<1>9. Goal
  BY <1>2, <1>3, <1>4, <1>5, <1>6, <1>7, <1>8
<1>. QED
  BY <1>9 DEF Goal

\* A row stays as it is until its removal commits.
LEMMA RowStep ==
    ASSUME RInv, [ReferencesNext]_vars, NEW b \in rows
    PROVE  \/ b \in rows' /\ request'[b] = request[b]
           \/ \E r \in Requests : CommitRemoval(r) /\ request[r].of = b
<1>. DEFINE Stays == b \in rows' /\ request'[b] = request[b]
<1>1. request[b].pc = "committed" /\ b \in Requests /\ request \in [Requests -> Request]
  BY DEF RInv, ShapeInv
<1>2. ASSUME NEW q \in Requests, NEW w \in Users, NEW x \in Items, Read(q, w, x)
      PROVE  Stays
  BY <1>1, <1>2 DEF Read, Unsent
<1>3. ASSUME NEW q \in Requests, NEW w \in Users, NEW d \in Requests, BeginRemoval(q, w, d)
      PROVE  Stays
  BY <1>1, <1>3 DEF BeginRemoval, Unsent
<1>4. ASSUME NEW q \in Requests,
             \/ EnterIndexes(q) \/ EnterAccountable(q) \/ AnswerCreation(q)
             \/ CommitCreation(q) \/ Delete(q)
             \/ Duplicate(q) \/ RefuseRemoval(q) \/ CrashRequest(q)
      PROVE  Stays
  BY <1>1, <1>4 DEF EnterIndexes, EnterAccountable, AnswerCreation, CommitCreation, Delete,
                    Duplicate, RefuseRemoval, CrashRequest
<1>5. ASSUME NEW q \in Requests, CommitRemoval(q), request[q].of # b
      PROVE  Stays
  <2>1. /\ request[q].pc = "answered"
        /\ rows' = rows \ {request[q].of}
        /\ request' = [request EXCEPT ![q] = [NoRequest EXCEPT !.pc = "ended"],
                                      ![request[q].of] = [NoRequest EXCEPT !.pc = "ended"]]
    BY <1>5 DEF CommitRemoval
  <2>. QED
    BY <1>1, <1>5, <2>1
<1>6. ASSUME UNCHANGED <<rows, request>>
      PROVE  Stays
  BY <1>6
<1>7. \/ UNCHANGED <<rows, request>>
      \/ \E q \in Requests :
            \/ \E w \in Users, x \in Items : Read(q, w, x)
            \/ \E w \in Users, d \in Requests : BeginRemoval(q, w, d)
            \/ EnterIndexes(q) \/ EnterAccountable(q) \/ AnswerCreation(q)
            \/ CommitCreation(q) \/ Delete(q)
            \/ Duplicate(q) \/ RefuseRemoval(q) \/ CrashRequest(q) \/ CommitRemoval(q)
  BY DEF ReferencesNext, EditBeside, Perform, vars
<1>. HIDE DEF Stays
<1>8. Stays \/ \E r \in Requests : CommitRemoval(r) /\ request[r].of = b
  BY <1>2, <1>3, <1>4, <1>5, <1>6, <1>7
<1>. QED
  BY <1>8 DEF Stays

\* No request removes a role.
LEMMA RolesStay ==
    ASSUME RInv, RemovalInv, [ReferencesNext]_vars, NEW role, RoleExists(role)
    PROVE  RoleExists(role)'
<1>1. CASE role \in Roles
  BY <1>1 DEF RoleExists
<1>2. ASSUME NEW b \in rows, request[b].item = [table |-> "role", role |-> role]
      PROVE  RoleExists(role)'
  <2>1. request[b].item # None /\ ~Taken(request[b].item)
    BY <1>2 DEF RInv, ShapeInv, Taken
  <2>2. \A r \in Requests : CommitRemoval(r) => request[r].of # b
    BY <2>1 DEF RemovalInv, CommitRemoval
  <2>3. b \in rows' /\ request'[b] = request[b]
    BY <2>2, RowStep
  <2>. QED
    BY <1>2, <2>3 DEF RoleExists
<1>. QED
  BY <1>1, <1>2 DEF RoleExists

LEMMA RoleStep ==
    ASSUME RInv, RoleInv, RemovalInv, [ReferencesNext]_vars
    PROVE  RoleInv'
<1>. SUFFICES ASSUME NEW r \in Requests, request'[r].item # None, Named(request'[r].item)
              PROVE  RoleExists(request[r].item.role)'
  BY DEF RoleInv, Named
<1>1. request'[r] = request[r] \/ Found(r) \/ NamedRow(r) \/ MovedOn(r)
  BY RecordStep
<1>2. RoleExists(request'[r].item.role)
  <2>1. CASE Found(r)
    BY <2>1 DEF Found, Finds, Named
  <2>2. CASE request'[r].item = request[r].item
    BY <2>2 DEF RoleInv
  <2>3. Found(r) \/ request'[r].item = request[r].item
    BY <1>1 DEF NamedRow, MovedOn
  <2>. QED
    BY <2>1, <2>2, <2>3
<1>3. PICK role : role = request'[r].item.role
  OBVIOUS
<1>4. RoleExists(role)
  BY <1>2, <1>3
<1>5. RoleExists(role)'
  BY <1>4, RolesStay
<1>. QED
  BY <1>3, <1>5 DEF RoleExists

LEMMA RemovalStep ==
    ASSUME RInv, RemovalInv, [ReferencesNext]_vars
    PROVE  RemovalInv'
<1>. SUFFICES ASSUME NEW r \in Requests, request'[r].of # None
              PROVE  LET b == request'[r].of
                     IN  /\ request'[b].pc # "idle"
                         /\ request'[b].item = None \/ Taken(request'[b].item)
  BY DEF RemovalInv, Taken
<1>1. request'[r] = request[r] \/ Found(r) \/ NamedRow(r) \/ MovedOn(r)
  BY RecordStep
<1>2. CASE request'[r].of = request[r].of
  <2>1. PICK b \in Requests : b = request[r].of
    BY <1>2 DEF RInv, Request
  <2>2. request[b].pc # "idle" /\ (request[b].item = None \/ Taken(request[b].item))
    BY <1>2, <2>1 DEF RemovalInv
  <2>3. request'[b] = request[b] \/ Found(b) \/ NamedRow(b) \/ MovedOn(b)
    BY RecordStep
  <2>. QED
    BY <1>2, <2>1, <2>2, <2>3 DEF Found, NamedRow, MovedOn
<1>3. CASE NamedRow(r)
  BY <1>3 DEF NamedRow
<1>. QED
  BY <1>1, <1>2, <1>3 DEF Found, MovedOn

LEMMA RegisterInit == ReferencesInit => RoleInv /\ RemovalInv
  BY DEF ReferencesInit, RoleInv, RemovalInv, NoRequest

LEMMA RegisterNext == GInv /\ [ReferencesNext]_vars => RoleInv' /\ RemovalInv'
  BY RoleStep, RemovalStep DEF GInv

\* What the register needs of roles and removals holds too.
THEOREM RegisterInductive == ReferencesSpec => []GInv
<1>1. ReferencesSpec => [](IInv /\ RInv)
  BY ReferencesInductive
<1>2. RoleInv /\ RemovalInv /\ (IInv /\ RInv) /\ [ReferencesNext]_vars => RoleInv' /\ RemovalInv'
  BY RegisterNext DEF GInv
<1>3. GInv <=> RoleInv /\ RemovalInv /\ (IInv /\ RInv)
  BY DEF GInv
<1>. QED
  BY <1>1, <1>2, <1>3, RegisterInit, PTL DEF ReferencesSpec

\* Holders and mappings are of roles there are (responsibilities.py reads the role and
\* does not lock it): nothing removes a role once a row has named it.
RowsNameRoles ==
    \A r \in rows : Named(request[r].item) => RoleExists(request[r].item.role)

\* A row never names a role that is gone.
THEOREM RolesNamed == ReferencesSpec => []RowsNameRoles
<1>1. GInv => RowsNameRoles
  BY DEF GInv, RInv, ShapeInv, RoleInv, RowsNameRoles
<1>. QED
  BY <1>1, RegisterInductive, PTL

\* A committed row is never rewritten, and only rows of a kind that may be removed go.
RowKept ==
    \A b \in rows : \/ b \in rows' /\ request'[b] = request[b]
                    \/ b \notin rows' /\ Taken(request[b].item)

RowsStay == [][RowKept]_vars

\* "Editing the underlying policy does not silently update the public resource"
\* (docs/trust-centers.md): what a row pins stays as it was inserted, whatever is
\* revised, decided, created or removed beside it.
THEOREM RowsStayAlways == ReferencesSpec => RowsStay
<1>1. GInv /\ [ReferencesNext]_vars => [RowKept]_vars
  <2>. SUFFICES ASSUME GInv, [ReferencesNext]_vars, NEW b \in rows
                PROVE  \/ b \in rows' /\ request'[b] = request[b]
                       \/ b \notin rows' /\ Taken(request[b].item)
    BY DEF RowKept
  <2>1. CASE \E r \in Requests : CommitRemoval(r) /\ request[r].of = b
    <3>1. b \notin rows' /\ request[b].item # None
      BY <2>1 DEF CommitRemoval, GInv, RInv, ShapeInv
    <3>2. Taken(request[b].item)
      BY <2>1, <3>1 DEF CommitRemoval, GInv, RemovalInv
    <3>. QED
      BY <3>1, <3>2
  <2>. QED
    BY <2>1, RowStep DEF GInv
<1>. QED
  BY <1>1, RegisterInductive, PTL DEF ReferencesSpec, RowsStay

-----------------------------------------------------------------------------
\* The references implement the register

\* A row as the register has it.
Row(r) == [row |-> r, item |-> request[r].item, version |-> request[r].version]

\* The versions that were approved grow by one, or stay.
LEMMA ApprovalRefines ==
    ASSUME IInv, [Next]_libraryVars, UNCHANGED <<rows, request>>
    PROVE  [References!Next]_References!registerVars
<1>1. Register' = Register
  BY DEF Register
<1>2. \/ ApprovedVersions' = ApprovedVersions
      \/ \E n : ApprovedVersions' = ApprovedVersions \cup {n}
  BY StepRefines DEF Document!Next, Document!Revise, Document!Decide,
                     Document!documentVars, ApprovedVersions
<1>3. ASSUME NEW n, ApprovedVersions' = ApprovedVersions \cup {n}
      PROVE  References!Next
  <2>1. n \in ApprovedVersions' /\ References!Approve(n)
    BY <1>1, <1>3 DEF References!Approve
  <2>. QED
    BY <2>1 DEF References!Next
<1>. QED
  BY <1>1, <1>2, <1>3 DEF References!registerVars

\* A creation that commits enters its row.
LEMMA EntryRefines ==
    ASSUME IInv, RInv, RoleInv, NEW r \in Requests, CommitCreation(r)
    PROVE  References!Next
<1>. DEFINE y == Row(r)
<1>1. /\ request[r].pc = "answered"
      /\ request[r].of = None
      /\ request' = [request EXCEPT ![r].pc = "committed"]
      /\ rows' = rows \cup {r}
      /\ UNCHANGED libraryVars
  BY DEF CommitCreation
<1>2. /\ request[r].item \in Items /\ request[r].version \in Nat
      /\ r \notin rows /\ rows \subseteq Requests
      /\ request \in [Requests -> Request]
  BY <1>1 DEF RInv, ShapeInv, Request
<1>3. /\ y.row = r /\ y.item = request[r].item /\ y.version = request[r].version
      /\ y \in References!Reference
  BY <1>2 DEF Row, References!Reference
<1>4. ApprovedVersions' = ApprovedVersions
  BY <1>1 DEF libraryVars, ApprovedVersions, DecidedOn
<1>5. Register' = Register \cup {y}
  <2>1. /\ request'[r].item = request[r].item
        /\ request'[r].version = request[r].version
        /\ \A b \in rows : request'[b] = request[b]
    BY <1>1, <1>2 DEF Request
  <2>2. Row(r)' = y /\ \A b \in rows : Row(b)' = Row(b)
    BY <2>1 DEF Row
  <2>3. Register = {Row(b) : b \in rows} /\ Register' = {Row(b)' : b \in rows'}
    BY DEF Register, Row
  <2>. HIDE DEF y
  <2>. QED
    BY <1>1, <2>2, <2>3
<1>6. \A z \in Register : \E b \in rows : z.row = b /\ z.item = request[b].item
  BY DEF Register
<1>7. \A b \in rows : b # r /\ ~Clash(request[b].item, request[r].item)
  BY <1>1, <1>2 DEF RInv, KeyInv, Held, Entered, Keyed, Open, Clash
<1>8. \A z \in Register :
          z.row # y.row /\ <<z.item, y.item>> \notin {p \in Items \X Items : Clash(p[1], p[2])}
  BY <1>3, <1>6, <1>7
<1>9. ASSUME Named(request[r].item), request[r].item.role \notin Roles
      PROVE  \E z \in Register : z.item = [table |-> "role", role |-> request[r].item.role]
  <2>1. RoleExists(request[r].item.role)
    BY <1>2, <1>9, NotRequested DEF RoleInv
  <2>2. PICK b \in rows : request[b].item = [table |-> "role", role |-> request[r].item.role]
    BY <1>9, <2>1 DEF RoleExists
  <2>3. Row(b) \in Register /\ Row(b).item = request[b].item
    BY DEF Register, Row
  <2>. QED
    BY <2>2, <2>3
<1>10. request[r].item = Resource => request[r].version \in ApprovedVersions
  BY <1>1 DEF RInv, VersionInv, IInv, PastInv, ApprovedVersions, DecidedOn
<1>. HIDE DEF y
<1>11. References!Enter(y)
  BY <1>2, <1>3, <1>4, <1>5, <1>8, <1>9, <1>10 DEF References!Enter, Named
<1>12. y \in Register'
  BY <1>5
<1>. QED
  BY <1>3, <1>11, <1>12 DEF References!Next

\* A removal that commits takes its row out, if it is still there.
LEMMA RemovalRefines ==
    ASSUME IInv, RInv, RemovalInv, NEW r \in Requests, CommitRemoval(r)
    PROVE  [References!Next]_References!registerVars
<1>1. PICK b \in Requests : b = request[r].of
  BY DEF CommitRemoval, RInv, Request
<1>2. /\ request[r].pc = "answered"
      /\ b # None
      /\ rows' = rows \ {b}
      /\ request' = [request EXCEPT ![r] = [NoRequest EXCEPT !.pc = "ended"],
                                    ![b] = [NoRequest EXCEPT !.pc = "ended"]]
      /\ UNCHANGED libraryVars
  BY <1>1 DEF CommitRemoval
<1>3. r \notin rows /\ rows \subseteq Requests /\ request \in [Requests -> Request]
  BY <1>2 DEF RInv, ShapeInv
<1>4. ApprovedVersions' = ApprovedVersions
  BY <1>2 DEF libraryVars, ApprovedVersions, DecidedOn
<1>5. \A d \in rows \ {b} : request'[d] = request[d]
  BY <1>2, <1>3
<1>6. \A d \in rows \ {b} : Row(d)' = Row(d)
  BY <1>5 DEF Row
<1>7. Register = {Row(d) : d \in rows} /\ Register' = {Row(d)' : d \in rows'}
  BY DEF Register, Row
<1>8. CASE b \in rows
  <2>1. request[b].item \in Items /\ Taken(request[b].item)
    BY <1>1, <1>2, <1>8 DEF RInv, ShapeInv, Request, RemovalInv
  <2>2. Row(b).item = request[b].item /\ \A d \in rows : Row(d) = Row(b) => d = b
    BY DEF Row
  <2>3. Register' = Register \ {Row(b)}
    BY <1>2, <1>6, <1>7, <2>2
  <2>4. References!Remove(Row(b))
    BY <1>4, <2>1, <2>2, <2>3 DEF References!Remove, Taken
  <2>5. Row(b) \in Register
    BY <1>7, <1>8
  <2>. QED
    BY <2>4, <2>5 DEF References!Next
<1>9. CASE b \notin rows
  <2>1. Register' = Register
    BY <1>2, <1>6, <1>7, <1>9
  <2>. QED
    BY <1>4, <2>1 DEF References!registerVars
<1>. QED
  BY <1>8, <1>9

\* Every other step of a request leaves rows and versions alone.
LEMMA OtherRefines ==
    ASSUME RInv, [ReferencesNext]_vars, UNCHANGED libraryVars, rows' = rows,
           \A r \in Requests : ~CommitRemoval(r)
    PROVE  UNCHANGED References!registerVars
<1>1. \A b \in rows : request'[b] = request[b]
  BY RowStep
<1>2. Register' = Register
  BY <1>1 DEF Register
<1>3. ApprovedVersions' = ApprovedVersions
  BY DEF libraryVars, ApprovedVersions, DecidedOn
<1>. QED
  BY <1>2, <1>3 DEF References!registerVars

LEMMA RegisterStep == GInv /\ [ReferencesNext]_vars => [References!Next]_References!registerVars
<1>. SUFFICES ASSUME GInv, [ReferencesNext]_vars
              PROVE  [References!Next]_References!registerVars
  OBVIOUS
<1>1. CASE UNCHANGED <<rows, request>>
  BY <1>1, LibraryStep, ApprovalRefines DEF GInv
<1>2. CASE \E r \in Requests : CommitCreation(r)
  BY <1>2, EntryRefines DEF GInv
<1>3. CASE \E r \in Requests : CommitRemoval(r)
  BY <1>3, RemovalRefines DEF GInv
<1>4. \/ UNCHANGED <<rows, request>>
      \/ \E r \in Requests : CommitCreation(r)
      \/ \E r \in Requests : CommitRemoval(r)
      \/ UNCHANGED libraryVars /\ rows' = rows
  BY DEF ReferencesNext, EditBeside, Read, EnterIndexes, EnterAccountable, Duplicate,
         AnswerCreation, BeginRemoval, Delete, RefuseRemoval, Perform, CrashRequest, vars
<1>. QED
  BY <1>1, <1>2, <1>3, <1>4, OtherRefines DEF GInv

LEMMA RegisterInitRefines == ReferencesInit => References!Init
<1>. SUFFICES ASSUME ReferencesInit PROVE References!Init
  OBVIOUS
<1>1. \A n, kind : DecidedOn(n, kind) = {}
  BY DEF ReferencesInit, Init, DecidedOn, IdleEdit
<1>. QED
  BY <1>1 DEF ReferencesInit, References!Init, Register, ApprovedVersions

\* However requests overlap, wait for each other and crash, rows appear as a whole, beside
\* none that excludes them, for roles there are and at a version that was approved, and
\* only a removal takes them out.
THEOREM ImplementsTheRegister == ReferencesSpec => ImplementsRegister
  BY RegisterInitRefines, RegisterStep, RegisterInductive, PTL
     DEF ReferencesSpec, ImplementsRegister, References!Spec

-----------------------------------------------------------------------------
\* Waiting

Actors == ({"request"} \X Requests) \cup ({"edit"} \X Edits)

\* The insert of r waits for who has, or is deleting a row of, the key it is about to
\* enter, a delete for another one of the same row.
WaitsForRequest(r, b) ==
    \/ request[r].pc = "read" /\ b \in Clashing(r) /\ Open(b)
    \/ request[r].pc = "read" /\ \E d \in Clashing(r) \cap rows : b \in Deleting(d)
    \/ request[r].pc = "entered" /\ b \in Rivals(r) /\ Keyed(b)
    \/ request[r].pc = "entered" /\ \E d \in Rivals(r) \cap rows : b \in Deleting(d)
    \/ request[r].pc = "named" /\ b \in Deleting(request[r].of)

\* A foreign key waits for a revision, an edit for whoever has locked the document row,
\* and a revision for the holders of key shares too.
WaitsFor(x, y) ==
    \/ x[1] = "request" /\ y[1] = "request" /\ WaitsForRequest(x[2], y[2])
    \/ /\ x[1] = "request" /\ y[1] = "edit"
       /\ request[x[2]].pc = "keyed" /\ OfDocument(request[x[2]].item)
       /\ Revising /\ docLock = y[2]
    \/ x[1] = "edit" /\ y[1] = "edit" /\ edit[x[2]].pc = "waiting" /\ docLock = y[2]
    \/ /\ x[1] = "edit" /\ y[1] = "request"
       /\ edit[x[2]].pc = "waiting" /\ edit[x[2]].kind = "revise"
       /\ y[2] \in Sharing

\* Nobody waits for somebody who waits for somebody who waits for somebody who waits.
NoWaitChain ==
    \A v, w, x, y, z \in Actors :
        ~(WaitsFor(v, w) /\ WaitsFor(w, x) /\ WaitsFor(x, y) /\ WaitsFor(y, z))

\* Who is waited for and waits has a row in an index, and waits for a row that has all
\* its keys, or is deleted, or, having them all itself, for the revision under way.
LEMMA WaitedFor ==
    ASSUME IInv, NEW x \in Actors, NEW y \in Actors, NEW z \in Actors,
           WaitsFor(x, y), WaitsFor(y, z)
    PROVE  /\ y[1] = "request"
           /\ \/ /\ request[y[2]].pc = "entered"
                 /\ z[1] = "request" /\ request[z[2]].pc \in {"keyed", "answered"}
              \/ request[y[2]].pc = "keyed" /\ z[1] = "edit"
<1>1. CASE y[1] = "request"
  <2>1. request[y[2]].pc \in {"entered", "keyed", "answered"}
    BY <1>1 DEF WaitsFor, WaitsForRequest, Open, Keyed, Deleting, Sharing
  <2>. QED
    BY <1>1, <2>1 DEF WaitsFor, WaitsForRequest, Open, Keyed, Deleting
<1>2. CASE y[1] = "edit"
  <2>1. y[2] \in Edits /\ docLock = y[2]
    BY <1>2 DEF WaitsFor, Actors
  <2>2. edit[y[2]].pc = "locked"
    BY <2>1 DEF IInv, LockInv
  <2>. QED
    BY <1>2, <2>2 DEF WaitsFor
<1>. QED
  BY <1>1, <1>2 DEF Actors

\* An insert that holds an index key waits for another key, one that holds all its keys
\* for a revision, and a revision for inserts that hold a key share: these waits never
\* close a cycle, since keys are taken in one order, a lock on the document row is taken
\* once and nothing is waited for after it.
THEOREM NoDeadlock == ReferencesSpec => []NoWaitChain
<1>1. IInv => NoWaitChain
  <2>. SUFFICES ASSUME IInv, NEW v \in Actors, NEW w \in Actors, NEW x \in Actors,
                       NEW y \in Actors, NEW z \in Actors, WaitsFor(v, w), WaitsFor(w, x),
                       WaitsFor(x, y), WaitsFor(y, z)
                PROVE  FALSE
    BY DEF NoWaitChain
  <2>1. x[1] = "request" /\ y[1] = "request"
    BY WaitedFor
  <2>2. request[x[2]].pc \in {"keyed", "answered"}
    BY <2>1, WaitedFor
  <2>3. y[1] = "edit"
    BY <2>2, WaitedFor
  <2>. QED
    BY <2>1, <2>3
<1>2. IInv /\ RInv => IInv
  OBVIOUS
<1>. QED
  BY <1>1, <1>2, ReferencesInductive, PTL
=============================================================================
