----------------------- MODULE EvidenceArtifactsProofs -----------------------
(***************************************************************************)
(* Theorems about EvidenceArtifacts, for any sets of artifacts, recordings *)
(* and downloads: the committed ledger explains the committed row, and     *)
(* only artifacts with a committed clean result leave.                     *)
(***************************************************************************)
EXTENDS EvidenceArtifacts, TLAPS

\* A recording has at most one audit row, written before it is answered.
TrailInv ==
    /\ \A i, j \in DOMAIN trail : trail[i] = trail[j] => i = j
    /\ \A i \in DOMAIN trail : recording[trail[i]].pc \in {"answered", "recorded", "ended"}
    /\ \A c \in Recordings : recording[c].pc \in {"answered", "recorded"} =>
            \E i \in DOMAIN trail : trail[i] = c

RequestInv ==
    \A c \in Recordings :
        recording[c].pc \in {"waiting", "updated", "answered", "recorded"} =>
            recording[c].artifact \in Stored /\ recording[c].change \in Changes

\* A recording past its update holds the row.
LockInv ==
    \A c \in Recordings : recording[c].pc \in {"updated", "answered"} =>
        rowLock[recording[c].artifact] = c

\* What was committed for the artifact of an answered recording is before it in
\* the trail: while that one holds the row, nothing else is committed for it.
LastInv ==
    \A i, j \in DOMAIN trail :
        /\ recording[trail[i]].pc = "answered"
        /\ recording[trail[j]].pc = "recorded"
        /\ recording[trail[j]].artifact = recording[trail[i]].artifact
        => j < i

CleanRecorded(e) ==
    \E i \in RecordedAt(e, "scan") : recording[trail[i]].change.value = "clean"

\* A download that read a clean status, and a URL that works, has a committed reason.
ReadInv ==
    \A d \in Downloads : download[d].pc = "read" \/ download[d].live =>
        download[d].artifact \in Stored /\ CleanRecorded(download[d].artifact)

RecordInv == TrailInv /\ RequestInv /\ LockInv /\ LastInv

\* The inductive invariant.
IInv == TypeOK /\ RecordInv /\ LedgerExplainsRow /\ ReadInv

\* A URL that works was authorized after a committed "clean" result: a result
\* that is still in an open transaction, or was rolled back, never lets the
\* artifact out.
DownloadNeedsCleanScan ==
    \A d \in Downloads : download[d].live =>
        \E i \in RecordedAt(download[d].artifact, "scan") :
            recording[trail[i]].change.value = "clean"

-----------------------------------------------------------------------------
LEMMA InitInv == Init => IInv
<1>. SUFFICES ASSUME Init PROVE IInv
  OBVIOUS
<1>1. NewLifecycle \in Lifecycle /\ IdleRecording \in Recording /\ IdleDownload \in Download
  BY DEF NewLifecycle, Lifecycle, ScanResults, IdleRecording, Recording, IdleDownload, Download
<1>2. TypeOK
  BY <1>1 DEF Init, TypeOK
<1>3. DOMAIN trail = {}
  BY DEF Init
<1>4. \A c \in Recordings : recording[c].pc = "idle"
  BY DEF Init, IdleRecording
<1>5. RecordInv
  BY <1>3, <1>4 DEF RecordInv, TrailInv, RequestInv, LockInv, LastInv
<1>6. \A e \in Stored : lifecycle[e] = NewLifecycle
  BY DEF Init
<1>7. LedgerExplainsRow
  BY <1>3, <1>6 DEF LedgerExplainsRow, TrailSays, RecordedAt
<1>8. ReadInv
  BY DEF Init, ReadInv, IdleDownload
<1>. QED
  BY <1>2, <1>5, <1>7, <1>8 DEF IInv

-----------------------------------------------------------------------------
\* Steps that commit no recording

\* The trail may grow, and nothing that is recorded changes.
Kept ==
    /\ \A i \in DOMAIN trail : i \in DOMAIN trail' /\ trail'[i] = trail[i]
    /\ \A c \in Recordings : recording[c].pc = "recorded" => recording'[c] = recording[c]

\* Nothing is recorded either.
NothingRecorded ==
    /\ Kept
    /\ \A c \in Recordings : recording'[c].pc = "recorded" => recording[c].pc = "recorded"
    /\ \A i \in DOMAIN trail' \ DOMAIN trail : recording'[trail'[i]].pc # "recorded"

LEMMA CleanKept ==
    ASSUME IInv, Kept, NEW e \in Stored, CleanRecorded(e)
    PROVE  CleanRecorded(e)'
<1>1. PICK i \in RecordedAt(e, "scan") : recording[trail[i]].change.value = "clean"
  BY DEF CleanRecorded
<1>2. i \in DOMAIN trail /\ trail[i] \in Recordings /\ recording[trail[i]].pc = "recorded"
  BY <1>1 DEF RecordedAt, IInv, TypeOK
<1>3. i \in DOMAIN trail' /\ trail'[i] = trail[i] /\ recording'[trail[i]] = recording[trail[i]]
  BY <1>2 DEF Kept
<1>4. i \in RecordedAt(e, "scan")'
  BY <1>1, <1>3 DEF RecordedAt
<1>. QED
  BY <1>1, <1>3, <1>4 DEF CleanRecorded

LEMMA ReadKept ==
    ASSUME IInv, Kept, download' = download
    PROVE  ReadInv'
  BY CleanKept DEF IInv, ReadInv

LEMMA LedgerKept ==
    ASSUME IInv, NothingRecorded, trail' \in Seq(Recordings), lifecycle' = lifecycle
    PROVE  LedgerExplainsRow'
<1>1. ASSUME NEW e \in Stored, NEW f \in {"scan", "hold"}
      PROVE  /\ RecordedAt(e, f)' = RecordedAt(e, f)
             /\ \A i \in RecordedAt(e, f) : recording'[trail'[i]] = recording[trail[i]]
  <2>1. \A i \in DOMAIN trail : trail[i] \in Recordings
    BY DEF IInv, TypeOK
  <2>2. \A i \in DOMAIN trail' : trail'[i] \in Recordings
    OBVIOUS
  <2>3. \A i \in DOMAIN trail : recording[trail[i]].pc = "recorded" =>
            /\ i \in DOMAIN trail' /\ trail'[i] = trail[i]
            /\ recording'[trail'[i]] = recording[trail[i]]
    BY <2>1 DEF NothingRecorded, Kept
  <2>4. \A i \in DOMAIN trail' : recording'[trail'[i]].pc = "recorded" =>
            /\ i \in DOMAIN trail /\ trail'[i] = trail[i]
            /\ recording[trail[i]].pc = "recorded"
    BY <2>2 DEF NothingRecorded, Kept
  <2>. QED
    BY <2>3, <2>4 DEF RecordedAt
<1>2. ASSUME NEW e \in Stored, NEW f \in {"scan", "hold"}, NEW v, NEW initial,
             TrailSays(e, f, v, initial)
      PROVE  TrailSays(e, f, v, initial)'
  BY <1>1, <1>2 DEF TrailSays
<1>. QED
  BY <1>2 DEF IInv, LedgerExplainsRow

\* A recording that starts, updates the row, or ends without effect.
LEMMA SilentInv ==
    ASSUME IInv, NEW c \in Recordings, NEW v \in Recording,
           recording[c].pc \in {"idle", "waiting", "updated", "answered"},
           recording' = [recording EXCEPT ![c] = v],
           v.pc \in {"waiting", "updated", "ended"},
           v.pc # "ended" => recording[c].pc \in {"idle", "waiting"},
           v.pc # "ended" => v.artifact \in Stored /\ v.change \in Changes,
           rowLock' \in [Stored -> Recordings \cup {None}],
           v.pc = "updated" => rowLock'[v.artifact] = c,
           \A e \in Stored, b \in Recordings \ {c} : rowLock[e] = b => rowLock'[e] = b,
           UNCHANGED <<lifecycle, trail, download>>
    PROVE  IInv'
<1>1. /\ recording' \in [Recordings -> Recording]
      /\ recording'[c] = v
      /\ \A b \in Recordings \ {c} : recording'[b] = recording[b]
  BY DEF IInv, TypeOK
<1>2. TypeOK'
  BY <1>1 DEF IInv, TypeOK
<1>3. trail \in Seq(Recordings) /\ \A i \in DOMAIN trail : trail[i] \in Recordings
  BY DEF IInv, TypeOK
<1>4. TrailInv'
  BY <1>1, <1>3 DEF IInv, RecordInv, TrailInv
<1>5. RequestInv'
  BY <1>1 DEF IInv, RecordInv, RequestInv
<1>6. LockInv'
  <2>. SUFFICES ASSUME NEW b \in Recordings, recording'[b].pc \in {"updated", "answered"}
                PROVE  rowLock'[recording'[b].artifact] = b
    BY DEF LockInv
  <2>1. CASE b = c
    BY <1>1, <2>1
  <2>2. CASE b # c
    BY <1>1, <2>2 DEF IInv, RecordInv, LockInv, RequestInv
  <2>. QED
    BY <2>1, <2>2
<1>7. LastInv'
  BY <1>1, <1>3 DEF IInv, RecordInv, LastInv
<1>8. NothingRecorded /\ Kept
  BY <1>1 DEF NothingRecorded, Kept
<1>9. LedgerExplainsRow' /\ ReadInv'
  BY <1>3, <1>8, LedgerKept, ReadKept
<1>. QED
  BY <1>2, <1>4, <1>5, <1>6, <1>7, <1>9 DEF IInv, RecordInv

LEMMA BeginInv ==
    ASSUME IInv, NEW c \in Recordings, NEW w \in Users, NEW e \in Observations,
           NEW change \in Changes, BeginRecording(c, w, e, change)
    PROVE  IInv'
<1>. DEFINE v == [pc |-> "waiting", artifact |-> e, change |-> change]
<1>1. v \in Recording /\ v.pc = "waiting" /\ v.artifact = e /\ v.change = change
  BY DEF Recording
<1>2. /\ recording[c].pc = "idle" /\ e \in Stored
      /\ recording' = [recording EXCEPT ![c] = v]
      /\ UNCHANGED <<lifecycle, rowLock, trail, download>>
  BY DEF BeginRecording
<1>. HIDE DEF v
<1>3. rowLock' \in [Stored -> Recordings \cup {None}]
  BY <1>2 DEF IInv, TypeOK
<1>. QED
  BY <1>1, <1>2, <1>3, SilentInv

LEMMA RefuseInv ==
    ASSUME IInv, NEW c \in Recordings, NEW w \in Users, NEW e \in Observations,
           RefuseRecording(c, w, e)
    PROVE  IInv'
<1>. DEFINE v == [recording[c] EXCEPT !.pc = "ended"]
<1>1. v \in Recording /\ v.pc = "ended"
  BY DEF IInv, TypeOK, Recording
<1>2. /\ recording[c].pc = "idle"
      /\ recording' = [recording EXCEPT ![c] = v]
      /\ UNCHANGED <<lifecycle, rowLock, trail, download>>
  BY DEF RefuseRecording
<1>. HIDE DEF v
<1>3. rowLock' \in [Stored -> Recordings \cup {None}]
  BY <1>2 DEF IInv, TypeOK
<1>. QED
  BY <1>1, <1>2, <1>3, SilentInv

LEMMA UpdateInv ==
    ASSUME IInv, NEW c \in Recordings, Update(c)
    PROVE  IInv'
<1>. DEFINE v == [recording[c] EXCEPT !.pc = "updated"]
<1>1. /\ v \in Recording /\ v.pc = "updated"
      /\ v.artifact = recording[c].artifact /\ v.change = recording[c].change
  BY DEF IInv, TypeOK, Recording
<1>2. /\ recording[c].pc = "waiting"
      /\ rowLock[recording[c].artifact] = None
      /\ rowLock' = [rowLock EXCEPT ![recording[c].artifact] = c]
      /\ recording' = [recording EXCEPT ![c] = v]
      /\ UNCHANGED <<lifecycle, trail, download>>
  BY DEF Update
<1>. HIDE DEF v
<1>3. recording[c].artifact \in Stored /\ recording[c].change \in Changes
  BY <1>2 DEF IInv, RecordInv, RequestInv
<1>4. /\ rowLock' \in [Stored -> Recordings \cup {None}]
      /\ rowLock'[recording[c].artifact] = c
      /\ \A e \in Stored, b \in Recordings \ {c} : rowLock[e] = b => rowLock'[e] = b
  BY <1>2, <1>3, NoneRecords DEF IInv, TypeOK
<1>. QED
  BY <1>1, <1>2, <1>3, <1>4, SilentInv

LEMMA ReleasedLocks ==
    ASSUME IInv, NEW c \in Recordings
    PROVE  /\ Released(c) \in [Stored -> Recordings \cup {None}]
           /\ \A e \in Stored, b \in Recordings \ {c} : rowLock[e] = b => Released(c)[e] = b
  BY DEF IInv, TypeOK, Released

LEMMA CrashInv ==
    ASSUME IInv, NEW c \in Recordings, CrashRecording(c)
    PROVE  IInv'
<1>. DEFINE v == [IdleRecording EXCEPT !.pc = "ended"]
<1>1. v \in Recording /\ v.pc = "ended"
  BY DEF IdleRecording, Recording
<1>2. /\ recording[c].pc \in {"waiting", "updated", "answered"}
      /\ rowLock' = Released(c)
      /\ recording' = [recording EXCEPT ![c] = v]
      /\ UNCHANGED <<lifecycle, trail, download>>
  BY DEF CrashRecording
<1>. HIDE DEF v
<1>3. /\ rowLock' \in [Stored -> Recordings \cup {None}]
      /\ \A e \in Stored, b \in Recordings \ {c} : rowLock[e] = b => rowLock'[e] = b
  BY <1>2, ReleasedLocks
<1>4. recording[c].pc \in {"idle", "waiting", "updated", "answered"} /\ v.pc # "updated"
  BY <1>1, <1>2
<1>. QED
  BY <1>1, <1>2, <1>3, <1>4, SilentInv
-----------------------------------------------------------------------------
\* The audit row and the commit

LEMMA AuditInv ==
    ASSUME IInv, NEW c \in Recordings, AuditRecording(c)
    PROVE  IInv'
<1>. DEFINE n == Len(trail) + 1
            v == [recording[c] EXCEPT !.pc = "answered"]
<1>1. /\ recording[c].pc = "updated"
      /\ trail' = Append(trail, c)
      /\ recording' = [recording EXCEPT ![c] = v]
      /\ UNCHANGED <<lifecycle, rowLock, download>>
  BY DEF AuditRecording
<1>2. /\ v \in Recording /\ v.pc = "answered"
      /\ v.artifact = recording[c].artifact /\ v.change = recording[c].change
  BY DEF IInv, TypeOK, Recording
<1>. HIDE DEF v
<1>3. /\ recording' \in [Recordings -> Recording]
      /\ recording'[c] = v
      /\ \A b \in Recordings \ {c} : recording'[b] = recording[b]
  BY <1>1, <1>2 DEF IInv, TypeOK
<1>4. trail \in Seq(Recordings) /\ \A i \in DOMAIN trail : trail[i] \in Recordings
  BY DEF IInv, TypeOK
<1>5. /\ trail' \in Seq(Recordings)
      /\ DOMAIN trail = 1 .. Len(trail) /\ Len(trail) \in Nat
      /\ DOMAIN trail' = 1 .. n
      /\ trail'[n] = c
      /\ \A i \in DOMAIN trail : trail'[i] = trail[i]
  BY <1>1, <1>4
<1>6. \A i \in DOMAIN trail : trail[i] # c
  BY <1>1 DEF IInv, RecordInv, TrailInv
<1>7. \A i \in DOMAIN trail' : i \in DOMAIN trail \/ i = n
  BY <1>5
<1>8. \A i \in DOMAIN trail : /\ i \in DOMAIN trail' /\ i < n
                              /\ recording'[trail'[i]] = recording[trail[i]]
  BY <1>3, <1>4, <1>5, <1>6
<1>9. TypeOK'
  BY <1>1, <1>3, <1>5 DEF IInv, TypeOK
<1>10. TrailInv'
  <2>1. \A i, j \in DOMAIN trail' : trail'[i] = trail'[j] => i = j
    BY <1>5, <1>6, <1>7 DEF IInv, RecordInv, TrailInv
  <2>2. \A i \in DOMAIN trail' : recording'[trail'[i]].pc \in {"answered", "recorded", "ended"}
    BY <1>2, <1>3, <1>5, <1>7, <1>8 DEF IInv, RecordInv, TrailInv
  <2>3. ASSUME NEW b \in Recordings, recording'[b].pc \in {"answered", "recorded"}
        PROVE  \E i \in DOMAIN trail' : trail'[i] = b
    <3>1. CASE b = c
      BY <1>5, <3>1
    <3>2. CASE b # c
      <4>1. PICK i \in DOMAIN trail : trail[i] = b
        BY <1>3, <2>3, <3>2 DEF IInv, RecordInv, TrailInv
      <4>. QED
        BY <1>5, <1>8, <4>1
    <3>. QED
      BY <3>1, <3>2
  <2>. QED
    BY <2>1, <2>2, <2>3 DEF TrailInv
<1>11. RequestInv'
  BY <1>1, <1>2, <1>3 DEF IInv, RecordInv, RequestInv
<1>12. LockInv'
  BY <1>1, <1>2, <1>3 DEF IInv, RecordInv, LockInv
<1>13. LastInv'
  <2>. SUFFICES ASSUME NEW i \in DOMAIN trail', NEW j \in DOMAIN trail',
                       recording'[trail'[i]].pc = "answered",
                       recording'[trail'[j]].pc = "recorded",
                       recording'[trail'[j]].artifact = recording'[trail'[i]].artifact
                PROVE  j < i
    BY DEF LastInv
  <2>1. j \in DOMAIN trail
    BY <1>2, <1>3, <1>5, <1>7
  <2>2. CASE i = n
    BY <1>8, <2>1, <2>2
  <2>3. CASE i \in DOMAIN trail
    BY <1>8, <2>1, <2>3 DEF IInv, RecordInv, LastInv
  <2>. QED
    BY <1>7, <2>2, <2>3
<1>14. Kept
  BY <1>1, <1>3, <1>5, <1>8 DEF Kept
<1>15. NothingRecorded
  BY <1>2, <1>3, <1>5, <1>7, <1>14 DEF NothingRecorded
<1>16. LedgerExplainsRow' /\ ReadInv'
  BY <1>1, <1>5, <1>14, <1>15, LedgerKept, ReadKept
<1>. QED
  BY <1>9, <1>10, <1>11, <1>12, <1>13, <1>16 DEF IInv, RecordInv

\* The row takes the value of the recording that is now the last of its field.
LEMMA CommitInv ==
    ASSUME IInv, NEW c \in Recordings, CommitRecording(c)
    PROVE  IInv'
<1>1. recording[c].pc = "answered"
  BY DEF CommitRecording
<1>2. PICK a \in Stored, change \in Changes :
          recording[c].artifact = a /\ recording[c].change = change
  BY <1>1 DEF IInv, RecordInv, RequestInv
<1>. DEFINE v == [recording[c] EXCEPT !.pc = "recorded"]
            row == IF change.field = "scan" THEN [lifecycle[a] EXCEPT !.scan = change.value]
                                            ELSE [lifecycle[a] EXCEPT !.hold = change.value]
<1>3. /\ lifecycle' = [lifecycle EXCEPT ![a] = row]
      /\ rowLock' = Released(c)
      /\ recording' = [recording EXCEPT ![c] = v]
      /\ UNCHANGED <<trail, download>>
  BY <1>2 DEF CommitRecording
<1>4. v \in Recording /\ v.pc = "recorded" /\ v.artifact = a /\ v.change = change
  BY <1>2 DEF IInv, TypeOK, Recording
<1>5. /\ row \in Lifecycle
      /\ change.field \in {"scan", "hold"}
      /\ change.field = "scan" => row.scan = change.value /\ row.hold = lifecycle[a].hold
      /\ change.field = "hold" => row.hold = change.value /\ row.scan = lifecycle[a].scan
  BY DEF IInv, TypeOK, Lifecycle, Changes
<1>. HIDE DEF v, row
<1>6. /\ recording' \in [Recordings -> Recording]
      /\ recording'[c] = v
      /\ \A b \in Recordings \ {c} : recording'[b] = recording[b]
  BY <1>1, <1>3, <1>4 DEF IInv, TypeOK
<1>7. /\ lifecycle' \in [Stored -> Lifecycle]
      /\ lifecycle'[a] = row
      /\ \A e \in Stored \ {a} : lifecycle'[e] = lifecycle[e]
  BY <1>1, <1>3, <1>2, <1>5 DEF IInv, TypeOK
<1>8. trail \in Seq(Recordings) /\ \A i \in DOMAIN trail : trail[i] \in Recordings
  BY DEF IInv, TypeOK
<1>9. TypeOK'
  BY <1>1, <1>3, <1>6, <1>7, ReleasedLocks DEF IInv, TypeOK
<1>10. TrailInv'
  BY <1>1, <1>3, <1>4, <1>6, <1>8 DEF IInv, RecordInv, TrailInv
<1>11. RequestInv'
  BY <1>4, <1>2, <1>6 DEF IInv, RecordInv, RequestInv
<1>12. LockInv'
  <2>. SUFFICES ASSUME NEW b \in Recordings, recording'[b].pc \in {"updated", "answered"}
                PROVE  rowLock'[recording'[b].artifact] = b
    BY DEF LockInv
  <2>1. b # c /\ recording'[b] = recording[b]
    BY <1>4, <1>6
  <2>2. recording[b].artifact \in Stored /\ rowLock[recording[b].artifact] = b
    BY <2>1 DEF IInv, RecordInv, LockInv, RequestInv
  <2>. QED
    BY <1>1, <1>3, <2>1, <2>2, ReleasedLocks
<1>13. LastInv'
  <2>. SUFFICES ASSUME NEW i \in DOMAIN trail, NEW j \in DOMAIN trail,
                       recording'[trail[i]].pc = "answered",
                       recording'[trail[j]].pc = "recorded",
                       recording'[trail[j]].artifact = recording'[trail[i]].artifact
                PROVE  j < i
    BY <1>1, <1>3 DEF LastInv
  <2>1. trail[i] # c /\ recording'[trail[i]] = recording[trail[i]]
    BY <1>4, <1>6, <1>8
  <2>2. trail[j] # c
    <3>. SUFFICES ASSUME trail[j] = c PROVE FALSE
      OBVIOUS
    <3>1. recording[trail[i]].pc = "answered" /\ recording[trail[i]].artifact = a
      BY <1>4, <1>6, <2>1
    <3>2. rowLock[a] = trail[i]
      BY <1>8, <3>1 DEF IInv, RecordInv, LockInv
    <3>3. rowLock[a] = c
      BY <1>1, <1>2 DEF IInv, RecordInv, LockInv
    <3>. QED
      BY <2>1, <3>2, <3>3
  <2>3. recording'[trail[j]] = recording[trail[j]]
    BY <1>6, <1>8, <2>2
  <2>. QED
    BY <2>1, <2>3 DEF IInv, RecordInv, LastInv
<1>14. PICK n \in DOMAIN trail : trail[n] = c
  BY <1>1, <1>3 DEF IInv, RecordInv, TrailInv
<1>15. Kept
  BY <1>1, <1>3, <1>6 DEF Kept
<1>16. ReadInv'
  BY <1>1, <1>3, <1>15, ReadKept
<1>17. ASSUME NEW e \in Stored, NEW f \in {"scan", "hold"}, ~(e = a /\ f = change.field)
       PROVE  /\ RecordedAt(e, f)' = RecordedAt(e, f)
              /\ \A i \in RecordedAt(e, f) : recording'[trail'[i]] = recording[trail[i]]
  <2>1. \A i \in DOMAIN trail : trail[i] # c => recording'[trail[i]] = recording[trail[i]]
    BY <1>6, <1>8
  <2>. QED
    BY <1>1, <1>3, <1>4, <1>6, <1>17, <2>1 DEF RecordedAt
<1>18. ASSUME NEW e \in Stored, NEW f \in {"scan", "hold"}, NEW x, NEW initial,
              ~(e = a /\ f = change.field), TrailSays(e, f, x, initial)
       PROVE  TrailSays(e, f, x, initial)'
  BY <1>17, <1>18 DEF TrailSays
<1>19. /\ n \in RecordedAt(a, change.field)'
       /\ recording'[trail'[n]].change.value = change.value
  BY <1>1, <1>3, <1>4, <1>6, <1>14 DEF RecordedAt
<1>20. \A j \in RecordedAt(a, change.field)' : j <= n
  <2>. SUFFICES ASSUME NEW j \in DOMAIN trail, j # n, recording'[trail[j]].pc = "recorded",
                       recording'[trail[j]].artifact = a
                PROVE  j <= n
    BY <1>3, <1>8 DEF RecordedAt
  <2>1. trail[j] # c /\ recording'[trail[j]] = recording[trail[j]]
    BY <1>6, <1>8, <1>14 DEF IInv, RecordInv, TrailInv
  <2>2. j < n
    BY <1>1, <1>2, <1>14, <2>1 DEF IInv, RecordInv, LastInv
  <2>. QED
    BY <1>8, <2>2
<1>21. ASSUME NEW initial, NEW x, x = change.value
       PROVE  TrailSays(a, change.field, x, initial)'
  BY <1>19, <1>20, <1>21 DEF TrailSays
<1>22. LedgerExplainsRow'
  <2>. SUFFICES ASSUME NEW e \in Stored, NEW s, NEW h,
                       s = lifecycle'[e].scan, h = lifecycle'[e].hold
                PROVE  /\ TrailSays(e, "scan", s, NewLifecycle.scan)'
                       /\ TrailSays(e, "hold", h, NewLifecycle.hold)'
    BY DEF LedgerExplainsRow
  <2>1. /\ ~(e = a /\ change.field = "scan") => s = lifecycle[e].scan
        /\ ~(e = a /\ change.field = "hold") => h = lifecycle[e].hold
        /\ e = a /\ change.field = "scan" => s = change.value
        /\ e = a /\ change.field = "hold" => h = change.value
    BY <1>5, <1>7
  <2>2. TrailSays(e, "scan", s, NewLifecycle.scan)'
    <3>1. CASE e = a /\ change.field = "scan"
      BY <1>21, <2>1, <3>1
    <3>2. CASE ~(e = a /\ change.field = "scan")
      <4>1. TrailSays(e, "scan", s, NewLifecycle.scan)
        BY <2>1, <3>2 DEF IInv, LedgerExplainsRow
      <4>. QED
        BY <1>18, <3>2, <4>1
    <3>. QED
      BY <3>1, <3>2
  <2>3. TrailSays(e, "hold", h, NewLifecycle.hold)'
    <3>1. CASE e = a /\ change.field = "hold"
      BY <1>21, <2>1, <3>1
    <3>2. CASE ~(e = a /\ change.field = "hold")
      <4>1. TrailSays(e, "hold", h, NewLifecycle.hold)
        BY <2>1, <3>2 DEF IInv, LedgerExplainsRow
      <4>. QED
        BY <1>18, <3>2, <4>1
    <3>. QED
      BY <3>1, <3>2
  <2>. QED
    BY <2>2, <2>3
<1>. QED
  BY <1>9, <1>10, <1>11, <1>12, <1>13, <1>16, <1>22 DEF IInv, RecordInv

-----------------------------------------------------------------------------
\* Downloads

LEMMA DownloadInv ==
    ASSUME IInv, NEW d \in Downloads, NEW v \in Download,
           UNCHANGED <<lifecycle, rowLock, trail, recording>>,
           download' = [download EXCEPT ![d] = v],
           v.pc = "read" \/ v.live => v.artifact \in Stored /\ CleanRecorded(v.artifact)
    PROVE  IInv'
<1>1. /\ download' \in [Downloads -> Download]
      /\ download'[d] = v
      /\ \A b \in Downloads \ {d} : download'[b] = download[b]
  BY DEF IInv, TypeOK
<1>2. TypeOK'
  BY <1>1 DEF IInv, TypeOK
<1>3. RecordInv'
  BY DEF IInv, RecordInv, TrailInv, RequestInv, LockInv, LastInv
<1>4. Kept /\ NothingRecorded /\ trail' \in Seq(Recordings)
  BY DEF Kept, NothingRecorded, IInv, TypeOK
<1>5. LedgerExplainsRow'
  BY <1>4, LedgerKept
<1>6. ReadInv'
  BY <1>1, <1>4, CleanKept DEF IInv, ReadInv
<1>. QED
  BY <1>2, <1>3, <1>5, <1>6 DEF IInv

\* A clean row was explained by the ledger when it was read.
LEMMA ReadStatusInv ==
    ASSUME IInv, NEW d \in Downloads, NEW w \in Users, NEW e \in Stored, ReadStatus(d, w, e)
    PROVE  IInv'
<1>. DEFINE v == [download[d] EXCEPT !.pc = "read", !.artifact = e]
<1>1. v \in Download /\ v.artifact = e
  BY DEF IInv, TypeOK, Download
<1>2. /\ lifecycle[e].scan = "clean"
      /\ download' = [download EXCEPT ![d] = v]
      /\ UNCHANGED <<lifecycle, rowLock, trail, recording>>
  BY DEF ReadStatus
<1>. HIDE DEF v
<1>3. NewLifecycle.scan = "pending"
  BY DEF NewLifecycle
<1>4. TrailSays(e, "scan", "clean", "pending")
  BY <1>2, <1>3 DEF IInv, LedgerExplainsRow
<1>5. CleanRecorded(e)
  BY <1>4 DEF TrailSays, CleanRecorded
<1>. QED
  BY <1>1, <1>2, <1>5, DownloadInv

LEMMA FinishInv ==
    ASSUME IInv, NEW d \in Downloads, Finish(d) \/ CrashDownload(d) \/ ExpireGrant(d)
    PROVE  IInv'
<1>1. download[d] \in Download /\ IdleDownload \in Download
  BY DEF IInv, TypeOK, IdleDownload, Download
<1>2. IdleDownload.pc # "read" /\ ~IdleDownload.live
  BY DEF IdleDownload
<1>3. PICK v \in Download :
         /\ download' = [download EXCEPT ![d] = v]
         /\ UNCHANGED <<lifecycle, rowLock, trail, recording>>
         /\ v.pc = "read" \/ v.live =>
               /\ v.artifact = download[d].artifact
               /\ download[d].pc = "read" \/ download[d].live
  <2>1. CASE Grant(d)
    <3>. DEFINE v == [download[d] EXCEPT !.pc = "answered", !.live = TRUE]
    <3>1. v \in Download /\ v.artifact = download[d].artifact
      BY <1>1 DEF Download
    <3>2. /\ download[d].pc = "read"
          /\ download' = [download EXCEPT ![d] = v]
          /\ UNCHANGED <<lifecycle, rowLock, trail, recording>>
      BY <2>1 DEF Grant
    <3>. QED
      BY <3>1, <3>2
  <2>2. CASE GrantFails(d) \/ Forget(d)
    BY <1>1, <1>2, <2>2 DEF GrantFails, Forget
  <2>3. CASE CommitDownload(d) \/ CrashDownload(d)
    BY <1>1, <2>3 DEF CommitDownload, CrashDownload, Download
  <2>4. CASE ExpireGrant(d)
    <3>1. CASE download[d].pc = "ended"
      BY <1>1, <1>2, <2>4, <3>1 DEF ExpireGrant
    <3>2. CASE download[d].pc # "ended"
      <4>. DEFINE v == [download[d] EXCEPT !.live = FALSE]
      <4>1. /\ v \in Download /\ ~v.live
            /\ v.artifact = download[d].artifact /\ v.pc = download[d].pc
        BY <1>1 DEF Download
      <4>2. /\ download' = [download EXCEPT ![d] = v]
            /\ UNCHANGED <<lifecycle, rowLock, trail, recording>>
        BY <2>4, <3>2 DEF ExpireGrant
      <4>. QED
        BY <4>1, <4>2
    <3>. QED
      BY <3>1, <3>2
  <2>. QED
    BY <2>1, <2>2, <2>3, <2>4 DEF Finish
<1>4. v.pc = "read" \/ v.live => v.artifact \in Stored /\ CleanRecorded(v.artifact)
  BY <1>3 DEF IInv, ReadInv
<1>. QED
  BY <1>3, <1>4, DownloadInv

-----------------------------------------------------------------------------
LEMMA NextInv == IInv /\ [Next]_vars => IInv'
<1>. SUFFICES ASSUME IInv, [Next]_vars PROVE IInv'
  OBVIOUS
<1>1. CASE UNCHANGED vars
  <2>1. Kept /\ NothingRecorded /\ trail' \in Seq(Recordings)
    BY <1>1 DEF vars, Kept, NothingRecorded, IInv, TypeOK
  <2>2. LedgerExplainsRow' /\ ReadInv'
    BY <1>1, <2>1, LedgerKept, ReadKept DEF vars
  <2>3. TypeOK' /\ RecordInv'
    BY <1>1 DEF vars, IInv, TypeOK, RecordInv, TrailInv, RequestInv, LockInv, LastInv
  <2>. QED
    BY <2>2, <2>3 DEF IInv
<1>2. ASSUME NEW c \in Recordings, NEW w \in Users, NEW e \in Observations,
             RefuseRecording(c, w, e)
      PROVE  IInv'
  BY <1>2, RefuseInv
<1>3. ASSUME NEW c \in Recordings, NEW w \in Users, NEW e \in Observations,
             NEW change \in Changes, BeginRecording(c, w, e, change)
      PROVE  IInv'
  BY <1>3, BeginInv
<1>4. ASSUME NEW c \in Recordings, Record(c) \/ CrashRecording(c)
      PROVE  IInv'
  BY <1>4, UpdateInv, AuditInv, CommitInv, CrashInv DEF Record
<1>5. ASSUME NEW d \in Downloads, NEW w \in Users, NEW e \in Stored, ReadStatus(d, w, e)
      PROVE  IInv'
  BY <1>5, ReadStatusInv
<1>6. ASSUME NEW d \in Downloads, Finish(d) \/ CrashDownload(d) \/ ExpireGrant(d)
      PROVE  IInv'
  BY <1>6, FinishInv
<1>. QED
  BY <1>1, <1>2, <1>3, <1>4, <1>5, <1>6 DEF Next

\* In every reachable state the inductive invariant holds.
THEOREM Inductive == Spec => []IInv
<1>. QED
  BY InitInv, NextInv, PTL DEF Spec

\* Every variable keeps its type.
THEOREM TypeCorrect == Spec => []TypeOK
<1>1. IInv => TypeOK
  BY DEF IInv
<1>. QED
  BY <1>1, Inductive, PTL

\* The committed ledger of an artifact ends in its committed row, however many
\* recordings overlap, wait and crash.
THEOREM LedgerAlwaysExplains == Spec => []LedgerExplainsRow
<1>1. IInv => LedgerExplainsRow
  BY DEF IInv
<1>. QED
  BY <1>1, Inductive, PTL

\* A URL that works was given out after a committed clean result.
THEOREM OnlyCleanLeaves == Spec => []DownloadNeedsCleanScan
<1>1. IInv => DownloadNeedsCleanScan
  BY DEF IInv, ReadInv, CleanRecorded, DownloadNeedsCleanScan
<1>. QED
  BY <1>1, Inductive, PTL

-----------------------------------------------------------------------------
\* The custody

\* Where no recording is committed, no entry appears or changes.
LEMMA SameEntries ==
    ASSUME IInv, NothingRecorded, trail' \in Seq(Recordings)
    PROVE  Entries' = Entries
<1>. DEFINE Places == {j \in DOMAIN trail : recording[trail[j]].pc = "recorded"}
            EntryAt(i) == [id |-> i, artifact |-> recording[trail[i]].artifact,
                           change |-> recording[trail[i]].change]
<1>1. \A i \in DOMAIN trail : trail[i] \in Recordings
  BY DEF IInv, TypeOK
<1>2. \A i \in DOMAIN trail' : trail'[i] \in Recordings
  OBVIOUS
<1>3. \A i \in Places : i \in Places' /\ EntryAt(i)' = EntryAt(i)
  BY <1>1 DEF NothingRecorded, Kept
<1>4. \A i \in Places' : i \in Places
  BY <1>2 DEF NothingRecorded, Kept
<1>5. Entries = {EntryAt(i) : i \in Places} /\ Entries' = {EntryAt(i)' : i \in Places'}
  BY DEF Entries
<1>. HIDE DEF EntryAt, Places
<1>. QED
  BY <1>3, <1>4, <1>5

\* A recording that is not committed by its step.
LEMMA QuietRecording ==
    ASSUME IInv, NEW c \in Recordings, NEW v, v.pc # "recorded",
           recording[c].pc # "recorded",
           recording' = [recording EXCEPT ![c] = v],
           trail' = trail \/ trail' = Append(trail, c)
    PROVE  Entries' = Entries
<1>1. /\ recording'[c] = v
      /\ \A b \in Recordings : b # c => recording'[b] = recording[b]
  BY DEF IInv, TypeOK
<1>2. trail \in Seq(Recordings) /\ \A i \in DOMAIN trail : trail[i] \in Recordings
  BY DEF IInv, TypeOK
<1>3. /\ trail' \in Seq(Recordings)
      /\ \A i \in DOMAIN trail : i \in DOMAIN trail' /\ trail'[i] = trail[i]
      /\ \A i \in DOMAIN trail' : i \in DOMAIN trail \/ trail'[i] = c
  BY <1>2
<1>4. NothingRecorded
  BY <1>1, <1>3 DEF NothingRecorded, Kept
<1>. QED
  BY <1>3, <1>4, SameEntries

LEMMA RecordingStep ==
    ASSUME IInv, NEW c \in Recordings,
           \/ \E w \in Users, e \in Observations :
                 RefuseRecording(c, w, e) \/ \E change \in Changes : BeginRecording(c, w, e, change)
           \/ Update(c) \/ AuditRecording(c) \/ CrashRecording(c)
    PROVE  UNCHANGED Custody!custodyVars
<1>1. recording[c].pc # "recorded" /\ UNCHANGED <<lifecycle, download>>
  BY DEF RefuseRecording, BeginRecording, Update, AuditRecording, CrashRecording
<1>2. recording[c] \in Recording
  BY DEF IInv, TypeOK
<1>3. trail' = trail \/ trail' = Append(trail, c)
  BY DEF RefuseRecording, BeginRecording, Update, AuditRecording, CrashRecording
<1>4. \E v : v.pc # "recorded" /\ recording' = [recording EXCEPT ![c] = v]
  <2>1. CASE \E w \in Users, e \in Observations : RefuseRecording(c, w, e)
    <3>1. /\ recording' = [recording EXCEPT ![c] = [recording[c] EXCEPT !.pc = "ended"]]
          /\ [recording[c] EXCEPT !.pc = "ended"].pc = "ended"
      BY <1>2, <2>1 DEF RefuseRecording, Recording
    <3>. QED
      BY <3>1
  <2>2. CASE \E w \in Users, e \in Observations, change \in Changes : BeginRecording(c, w, e, change)
    BY <2>2 DEF BeginRecording
  <2>3. CASE Update(c)
    <3>1. /\ recording' = [recording EXCEPT ![c] = [recording[c] EXCEPT !.pc = "updated"]]
          /\ [recording[c] EXCEPT !.pc = "updated"].pc = "updated"
      BY <1>2, <2>3 DEF Update, Recording
    <3>. QED
      BY <3>1
  <2>4. CASE AuditRecording(c)
    <3>1. /\ recording' = [recording EXCEPT ![c] = [recording[c] EXCEPT !.pc = "answered"]]
          /\ [recording[c] EXCEPT !.pc = "answered"].pc = "answered"
      BY <1>2, <2>4 DEF AuditRecording, Recording
    <3>. QED
      BY <3>1
  <2>5. CASE CrashRecording(c)
    <3>1. /\ recording' = [recording EXCEPT ![c] = [IdleRecording EXCEPT !.pc = "ended"]]
          /\ [IdleRecording EXCEPT !.pc = "ended"].pc = "ended"
      BY <2>5 DEF CrashRecording, IdleRecording
    <3>. QED
      BY <3>1
  <2>. QED
    BY <2>1, <2>2, <2>3, <2>4, <2>5
<1>5. Entries' = Entries
  BY <1>1, <1>3, <1>4, QuietRecording
<1>6. UNCHANGED <<Permits, Urls>>
  BY <1>1 DEF Permits, Urls
<1>. QED
  BY <1>1, <1>5, <1>6 DEF Custody!custodyVars

\* A commit appends the entry of its recording: while it held the row nobody else
\* committed for the artifact.
LEMMA CommitStep ==
    ASSUME IInv, NEW c \in Recordings, CommitRecording(c)
    PROVE  \E y \in Entries' : y \in Custody!Entry /\ Custody!Record(y)
<1>1. recording[c].pc = "answered"
  BY DEF CommitRecording
<1>2. PICK a \in Stored, x \in Changes : recording[c].artifact = a /\ recording[c].change = x
  BY <1>1 DEF IInv, RecordInv, RequestInv
<1>3. PICK n \in DOMAIN trail : trail[n] = c
  BY <1>1 DEF IInv, RecordInv, TrailInv
<1>4. /\ trail \in Seq(Recordings) /\ n \in Nat
      /\ \A i \in DOMAIN trail : trail[i] \in Recordings /\ (trail[i] = c => i = n)
  BY <1>3 DEF IInv, TypeOK, RecordInv, TrailInv
<1>. DEFINE v == [recording[c] EXCEPT !.pc = "recorded"]
<1>5. v.pc = "recorded" /\ v.artifact = a /\ v.change = x
  BY <1>2 DEF IInv, TypeOK, Recording
<1>6. /\ recording' = [recording EXCEPT ![c] = v]
      /\ UNCHANGED <<trail, download>>
  BY DEF CommitRecording
<1>. HIDE DEF v
<1>7. /\ recording'[c] = v
      /\ \A b \in Recordings : b # c => recording'[b] = recording[b]
  BY <1>6 DEF IInv, TypeOK
<1>. DEFINE new == [id |-> n, artifact |-> a, change |-> x]
            Places == {j \in DOMAIN trail : recording[trail[j]].pc = "recorded"}
            EntryAt(i) == [id |-> i, artifact |-> recording[trail[i]].artifact,
                           change |-> recording[trail[i]].change]
<1>8. Entries' = Entries \cup {new}
  <2>1. Places' = Places \cup {n}
    BY <1>3, <1>4, <1>5, <1>6, <1>7
  <2>2. n \notin Places
    BY <1>1, <1>3
  <2>3. \A i \in Places : EntryAt(i)' = EntryAt(i)
    BY <1>4, <1>6, <1>7, <2>2
  <2>4. EntryAt(n)' = new
    BY <1>3, <1>5, <1>6, <1>7
  <2>5. Entries = {EntryAt(i) : i \in Places} /\ Entries' = {EntryAt(i)' : i \in Places'}
    BY DEF Entries
  <2>. HIDE DEF EntryAt, Places, new
  <2>. QED
    BY <2>1, <2>3, <2>4, <2>5
<1>9. \A y \in Entries : y.id # n /\ (y.artifact = a => y.id < n)
  <2>. SUFFICES ASSUME NEW i \in DOMAIN trail, recording[trail[i]].pc = "recorded"
                PROVE  i # n /\ (recording[trail[i]].artifact = a => i < n)
    BY DEF Entries
  <2>1. i # n
    BY <1>1, <1>3
  <2>2. recording[trail[i]].artifact = a => i < n
    BY <1>1, <1>2, <1>3 DEF IInv, RecordInv, LastInv
  <2>. QED
    BY <2>1, <2>2
<1>10. new \in Custody!Entry /\ new.id = n /\ new.artifact = a /\ new.change = x
  BY <1>4 DEF Custody!Entry
<1>11. lifecycle' = [lifecycle EXCEPT ![a] =
            IF x.field = "scan" THEN [@ EXCEPT !.scan = x.value] ELSE [@ EXCEPT !.hold = x.value]]
  BY <1>2 DEF CommitRecording
<1>12. UNCHANGED <<Permits, Urls>>
  BY <1>6 DEF Permits, Urls
<1>. HIDE DEF new
<1>13. Custody!Record(new)
  BY <1>8, <1>9, <1>10, <1>11, <1>12 DEF Custody!Record
<1>. QED
  BY <1>8, <1>10, <1>13

\* What a download still has, once its record is v.
MayHandOut(v) == IF v.pc = "read" THEN {v.artifact} ELSE {}
HandedOut(v) == IF v.live THEN {v.artifact} ELSE {}

LEMMA RecordOf ==
    ASSUME IInv, NEW d \in Downloads, NEW v, download' = [download EXCEPT ![d] = v],
           UNCHANGED <<lifecycle, rowLock, trail, recording>>
    PROVE  /\ Permits' = [Permits EXCEPT ![d] = MayHandOut(v)]
           /\ Urls' = [Urls EXCEPT ![d] = HandedOut(v)]
           /\ Entries' = Entries
           /\ Permits[d] = MayHandOut(download[d]) /\ Urls[d] = HandedOut(download[d])
  BY DEF IInv, TypeOK, Permits, Urls, Entries, MayHandOut, HandedOut

LEMMA SameMaps ==
    ASSUME NEW d \in Downloads
    PROVE  /\ [Permits EXCEPT ![d] = Permits[d]] = Permits
           /\ [Urls EXCEPT ![d] = Urls[d]] = Urls
  BY DEF Permits, Urls

\* A URL exists only once it is signed.
Unsigned == \A d \in Downloads : download[d].pc = "read" => ~download[d].live

CInv == IInv /\ Unsigned

LEMMA PermitStep ==
    ASSUME CInv, NEW d \in Downloads, NEW w \in Users, NEW e \in Stored, ReadStatus(d, w, e)
    PROVE  Custody!Permit(d, e) /\ Unsigned'
<1>. DEFINE v == [download[d] EXCEPT !.pc = "read", !.artifact = e]
<1>1. /\ download' = [download EXCEPT ![d] = v] /\ lifecycle[e].scan = "clean"
      /\ download[d] = IdleDownload
      /\ UNCHANGED <<lifecycle, rowLock, trail, recording>>
  BY DEF ReadStatus
<1>2. v.pc = "read" /\ v.artifact = e /\ ~v.live /\ ~download[d].live /\ download[d].pc = "idle"
  BY <1>1 DEF IdleDownload
<1>. HIDE DEF v
<1>3. /\ Permits' = [Permits EXCEPT ![d] = MayHandOut(v)]
      /\ Urls' = [Urls EXCEPT ![d] = HandedOut(v)]
      /\ Entries' = Entries
      /\ Permits[d] = MayHandOut(download[d]) /\ Urls[d] = HandedOut(download[d])
  BY <1>1, RecordOf DEF CInv
<1>4. MayHandOut(v) = {e} /\ HandedOut(v) = {} /\ Permits[d] = {} /\ Urls[d] = {}
  BY <1>2, <1>3 DEF MayHandOut, HandedOut
<1>5. Urls' = Urls
  BY <1>3, <1>4, SameMaps
<1>6. Unsigned'
  BY <1>1, <1>2 DEF CInv, Unsigned, IInv, TypeOK
<1>. QED
  BY <1>1, <1>3, <1>4, <1>5, <1>6 DEF Custody!Permit

LEMMA FinishStep ==
    ASSUME CInv, NEW d \in Downloads, Finish(d) \/ CrashDownload(d) \/ ExpireGrant(d)
    PROVE  /\ \/ UNCHANGED Custody!custodyVars
              \/ Custody!HandOut(d) \/ Custody!GiveUp(d) \/ Custody!Lapse(d)
           /\ Unsigned'
<1>1. download[d] \in Download /\ UNCHANGED <<lifecycle, rowLock, trail, recording>>
  BY DEF CInv, IInv, TypeOK, Finish, Grant, GrantFails, CommitDownload, Forget, CrashDownload,
         ExpireGrant
<1>2. IdleDownload.pc = "idle" /\ ~IdleDownload.live
  BY DEF IdleDownload
<1>3. ASSUME NEW v, download' = [download EXCEPT ![d] = v], v.pc = "read" => ~v.live
      PROVE  /\ Permits' = [Permits EXCEPT ![d] = MayHandOut(v)]
             /\ Urls' = [Urls EXCEPT ![d] = HandedOut(v)]
             /\ Entries' = Entries
             /\ Permits[d] = MayHandOut(download[d]) /\ Urls[d] = HandedOut(download[d])
             /\ Unsigned'
  <2>1. Unsigned'
    BY <1>3 DEF CInv, Unsigned, IInv, TypeOK
  <2>. QED
    BY <1>1, <1>3, <2>1, RecordOf DEF CInv
<1>4. CASE Grant(d)
  <2>. DEFINE v == [download[d] EXCEPT !.pc = "answered", !.live = TRUE]
  <2>1. download' = [download EXCEPT ![d] = v] /\ download[d].pc = "read"
    BY <1>4 DEF Grant
  <2>2. v.pc = "answered" /\ v.live /\ v.artifact = download[d].artifact
    BY <1>1 DEF Download
  <2>. HIDE DEF v
  <2>3.  /\ Permits' = [Permits EXCEPT ![d] = MayHandOut(v)]
        /\ Urls' = [Urls EXCEPT ![d] = HandedOut(v)]
        /\ Entries' = Entries
        /\ Permits[d] = MayHandOut(download[d]) /\ Urls[d] = HandedOut(download[d])
        /\ Unsigned'
    BY <1>3, <2>1, <2>2
  <2>4. /\ MayHandOut(v) = {} /\ HandedOut(v) = {download[d].artifact}
        /\ Permits[d] = {download[d].artifact}
    BY <2>1, <2>2, <2>3 DEF MayHandOut, HandedOut
  <2>. QED
    BY <1>1, <2>3, <2>4 DEF Custody!HandOut
<1>5. CASE GrantFails(d) \/ Forget(d)
  <2>1. /\ download' = [download EXCEPT ![d] = IdleDownload]
        /\ ~download[d].live
    BY <1>5 DEF GrantFails, Forget, CInv, Unsigned
  <2>2. /\ Permits' = [Permits EXCEPT ![d] = {}]
        /\ Urls' = [Urls EXCEPT ![d] = Urls[d]]
        /\ Entries' = Entries /\ Unsigned'
    BY <1>2, <1>3, <2>1 DEF MayHandOut, HandedOut
  <2>. QED
    BY <1>1, <2>2, SameMaps DEF Custody!GiveUp
<1>6. CASE CommitDownload(d) \/ CrashDownload(d)
  <2>1. PICK v : /\ download' = [download EXCEPT ![d] = v]
                 /\ v.pc = "ended" /\ v.artifact = download[d].artifact /\ v.live = download[d].live
    <3>1. CASE CommitDownload(d)
      <4>. DEFINE v == [download[d] EXCEPT !.pc = "ended", !.audited = TRUE]
      <4>1. download' = [download EXCEPT ![d] = v]
        BY <3>1 DEF CommitDownload
      <4>2. v.pc = "ended" /\ v.artifact = download[d].artifact /\ v.live = download[d].live
        BY <1>1 DEF Download
      <4>. HIDE DEF v
      <4>. QED
        BY <4>1, <4>2
    <3>2. CASE CrashDownload(d)
      <4>. DEFINE v == [download[d] EXCEPT !.pc = "ended"]
      <4>1. download' = [download EXCEPT ![d] = v]
        BY <3>2 DEF CrashDownload
      <4>2. v.pc = "ended" /\ v.artifact = download[d].artifact /\ v.live = download[d].live
        BY <1>1 DEF Download
      <4>. HIDE DEF v
      <4>. QED
        BY <4>1, <4>2
    <3>. QED
      BY <1>6, <3>1, <3>2
  <2>2. download[d].pc = "answered"
    BY <1>6 DEF CommitDownload, CrashDownload
  <2>3.  /\ Permits' = [Permits EXCEPT ![d] = MayHandOut(v)]
        /\ Urls' = [Urls EXCEPT ![d] = HandedOut(v)]
        /\ Entries' = Entries
        /\ Permits[d] = MayHandOut(download[d]) /\ Urls[d] = HandedOut(download[d])
        /\ Unsigned'
    BY <1>3, <2>1
  <2>4. MayHandOut(v) = Permits[d] /\ HandedOut(v) = Urls[d]
    BY <2>1, <2>2, <2>3 DEF MayHandOut, HandedOut
  <2>. QED
    BY <1>1, <2>3, <2>4, SameMaps DEF Custody!custodyVars
<1>7. CASE ExpireGrant(d)
  <2>1. PICK v : /\ download' = [download EXCEPT ![d] = v]
                 /\ ~v.live /\ (v.pc = "read" <=> download[d].pc = "read")
                 /\ v.pc = "read" => v.artifact = download[d].artifact
    <3>1. CASE download[d].pc = "ended"
      BY <1>2, <1>7, <3>1 DEF ExpireGrant
    <3>2. CASE download[d].pc # "ended"
      <4>. DEFINE v == [download[d] EXCEPT !.live = FALSE]
      <4>1. download' = [download EXCEPT ![d] = v]
        BY <1>7, <3>2 DEF ExpireGrant
      <4>2. v.pc = download[d].pc /\ v.artifact = download[d].artifact /\ ~v.live
        BY <1>1 DEF Download
      <4>. HIDE DEF v
      <4>. QED
        BY <4>1, <4>2
    <3>. QED
      BY <3>1, <3>2
  <2>2. /\ Permits' = [Permits EXCEPT ![d] = Permits[d]]
        /\ Urls' = [Urls EXCEPT ![d] = {}]
        /\ Entries' = Entries /\ Unsigned'
    BY <1>3, <2>1 DEF MayHandOut, HandedOut
  <2>. QED
    BY <1>1, <2>2, SameMaps DEF Custody!Lapse
<1>. QED
  BY <1>4, <1>5, <1>6, <1>7 DEF Finish

LEMMA CustodyInit == Init => CInv
<1>1. ASSUME Init PROVE Unsigned
  BY <1>1 DEF Init, Unsigned, IdleDownload
<1>. QED
  BY <1>1, InitInv DEF CInv

LEMMA CustodyNext ==
    CInv /\ [Next]_vars => CInv' /\ [Custody!Next]_(Custody!custodyVars)
<1>. SUFFICES ASSUME CInv, [Next]_vars PROVE CInv' /\ [Custody!Next]_(Custody!custodyVars)
  OBVIOUS
<1>1. IInv'
  BY NextInv DEF CInv
<1>2. CASE UNCHANGED vars
  <2>1. UNCHANGED <<lifecycle, trail, recording, download>>
    BY <1>2 DEF vars
  <2>2. Unsigned' /\ UNCHANGED Custody!custodyVars
    BY <2>1 DEF CInv, Unsigned, Custody!custodyVars, Entries, Permits, Urls
  <2>. QED
    BY <1>1, <2>2 DEF CInv
<1>3. ASSUME NEW c \in Recordings,
             \/ \E w \in Users, e \in Observations :
                   RefuseRecording(c, w, e) \/ \E change \in Changes : BeginRecording(c, w, e, change)
             \/ Record(c) \/ CrashRecording(c)
      PROVE  CInv' /\ [Custody!Next]_(Custody!custodyVars)
  <2>1. UNCHANGED download
    BY <1>3 DEF RefuseRecording, BeginRecording, Record, Update, AuditRecording, CommitRecording,
                CrashRecording
  <2>2. Unsigned'
    BY <2>1 DEF CInv, Unsigned
  <2>3. IInv
    BY DEF CInv
  <2>4. CASE CommitRecording(c)
    BY <1>1, <2>2, <2>3, <2>4, CommitStep DEF CInv, Custody!Next
  <2>5. CASE ~CommitRecording(c)
    <3>1. \/ \E w \in Users, e \in Observations :
                RefuseRecording(c, w, e) \/ \E change \in Changes : BeginRecording(c, w, e, change)
          \/ Update(c) \/ AuditRecording(c) \/ CrashRecording(c)
      BY <1>3, <2>5 DEF Record
    <3>2. UNCHANGED Custody!custodyVars
      BY <2>3, <3>1, RecordingStep
    <3>. QED
      BY <1>1, <2>2, <3>2 DEF CInv
  <2>. QED
    BY <2>4, <2>5
<1>4. ASSUME NEW d \in Downloads, NEW w \in Users, NEW e \in Stored, ReadStatus(d, w, e)
      PROVE  CInv' /\ [Custody!Next]_(Custody!custodyVars)
  BY <1>1, <1>4, PermitStep DEF CInv, Custody!Next
<1>5. ASSUME NEW d \in Downloads, Finish(d) \/ CrashDownload(d) \/ ExpireGrant(d)
      PROVE  CInv' /\ [Custody!Next]_(Custody!custodyVars)
  BY <1>1, <1>5, FinishStep DEF CInv, Custody!Next
<1>. QED
  BY <1>2, <1>3, <1>4, <1>5 DEF Next

\* However recordings and downloads overlap, wait and crash, the committed rows, the
\* audit rows and the URLs are the custody of the artifacts.
THEOREM Implements == Spec => ImplementsCustody
<1>1. Init => Custody!Init
  <2>. SUFFICES ASSUME Init PROVE Custody!Init
    OBVIOUS
  <2>1. DOMAIN trail = {} /\ lifecycle = [e \in Stored |-> NewLifecycle]
    BY DEF Init
  <2>2. \A d \in Downloads : download[d].pc = "idle" /\ ~download[d].live
    BY DEF Init, IdleDownload
  <2>3. Entries = {}
    BY <2>1 DEF Entries
  <2>4. Permits = [d \in Downloads |-> {}] /\ Urls = [d \in Downloads |-> {}]
    BY <2>2 DEF Permits, Urls
  <2>. QED
    BY <2>1, <2>3, <2>4 DEF Custody!Init
<1>. QED
  BY <1>1, CustodyInit, CustodyNext, PTL DEF Spec, ImplementsCustody, Custody!Spec

\* No URL of e works, and no download is about to hand one out.
Withdrawn(e) == \A d \in Downloads : e \notin Permits[d] /\ e \notin Urls[d]

\* While an artifact is not clean, one that is withdrawn stays so, whatever reads and
\* recordings overlap.
StaysWithdrawn ==
    [][\A e \in Stored : Withdrawn(e) /\ lifecycle[e].scan # "clean" => Withdrawn(e)']_vars

\* The safety part of WithdrawnForGood, from the custody alone.
THEOREM StaysWithdrawnAlways == Spec => StaysWithdrawn
<1>1. ASSUME [Custody!Next]_(Custody!custodyVars)
      PROVE  \A e \in Stored : Withdrawn(e) /\ lifecycle[e].scan # "clean" => Withdrawn(e)'
  <2>. SUFFICES ASSUME NEW e \in Stored, Withdrawn(e), lifecycle[e].scan # "clean"
                PROVE  Withdrawn(e)'
    OBVIOUS
  <2>1. DOMAIN Permits = Downloads /\ DOMAIN Urls = Downloads
    BY DEF Permits, Urls
  <2>2. CASE UNCHANGED <<Permits, Urls>>
    BY <2>2 DEF Withdrawn
  <2>3. ASSUME NEW d \in Downloads, NEW a \in Stored, Custody!Permit(d, a)
        PROVE  Withdrawn(e)'
    BY <2>1, <2>3 DEF Custody!Permit, Withdrawn
  <2>4. ASSUME NEW d \in Downloads, Custody!HandOut(d)
        PROVE  Withdrawn(e)'
    BY <2>1, <2>4 DEF Custody!HandOut, Withdrawn
  <2>5. ASSUME NEW d \in Downloads, Custody!GiveUp(d) \/ Custody!Lapse(d)
        PROVE  Withdrawn(e)'
    BY <2>1, <2>5 DEF Custody!GiveUp, Custody!Lapse, Withdrawn
  <2>. QED
    BY <1>1, <2>2, <2>3, <2>4, <2>5 DEF Custody!Next, Custody!Record, Custody!custodyVars
<1>2. CInv /\ [Next]_vars =>
          [\A e \in Stored : Withdrawn(e) /\ lifecycle[e].scan # "clean" => Withdrawn(e)']_vars
  BY <1>1, CustodyNext
<1>. QED
  BY <1>2, CustodyInit, CustodyNext, PTL DEF Spec, StaysWithdrawn

-----------------------------------------------------------------------------
\* The ledger of changes

\* Entries stay, and what is recorded of an artifact changes only with an entry for it
\* that comes after all of its others.
Appended ==
    /\ Entries \subseteq Entries'
    /\ \A e \in Stored : lifecycle'[e] # lifecycle[e] =>
           \E y \in Entries' \ Entries :
               /\ y.artifact = e
               /\ \A z \in Entries : z.artifact = e => z.id < y.id

LedgerAppendOnly == [][Appended]_vars

\* "Every scan transition, legal-hold change ... is written to the append-only tenant
\* audit ledger" (docs/object-storage.md), although the audit row gets its number before
\* the change commits and either may be rolled back.
THEOREM ChangesAudited == Spec => LedgerAppendOnly
<1>1. ASSUME CInv, [Custody!Next]_(Custody!custodyVars)
      PROVE  Appended
  <2>1. CASE UNCHANGED <<lifecycle, Entries>>
    BY <2>1 DEF Appended
  <2>2. ASSUME NEW y \in Entries', y \in Custody!Entry, Custody!Record(y)
        PROVE  Appended
    <3>1. /\ \A z \in Entries : z.id # y.id /\ (z.artifact = y.artifact => z.id < y.id)
          /\ Entries' = Entries \cup {y}
          /\ y.artifact \in Stored
      BY <2>2 DEF Custody!Record, Custody!Entry
    <3>2. \A e \in Stored : e # y.artifact => lifecycle'[e] = lifecycle[e]
      BY <1>1, <2>2 DEF Custody!Record, CInv, IInv, TypeOK
    <3>3. y \in Entries' \ Entries
      BY <3>1
    <3>. QED
      BY <3>1, <3>2, <3>3 DEF Appended
  <2>3. ASSUME NEW d \in Downloads,
               \/ \E e \in Stored : Custody!Permit(d, e)
               \/ Custody!HandOut(d) \/ Custody!GiveUp(d) \/ Custody!Lapse(d)
        PROVE  UNCHANGED <<lifecycle, Entries>>
    BY <2>3 DEF Custody!Permit, Custody!HandOut, Custody!GiveUp, Custody!Lapse
  <2>4. CASE UNCHANGED Custody!custodyVars
    BY <2>1, <2>4 DEF Custody!custodyVars
  <2>. QED
    BY <1>1, <2>1, <2>2, <2>3, <2>4 DEF Custody!Next
<1>2. CInv /\ [Next]_vars => [Appended]_vars
  BY <1>1, CustodyNext
<1>. QED
  BY <1>2, CustodyInit, CustodyNext, PTL DEF Spec, LedgerAppendOnly
=============================================================================
