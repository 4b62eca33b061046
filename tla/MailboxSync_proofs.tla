------------------------- MODULE MailboxSync_proofs -------------------------
(***************************************************************************)
(* Proofs about MailboxSync for every number of messages and mishaps, any  *)
(* folders and invitations, and every finite set of runs.                  *)
(***************************************************************************)
EXTENDS MailboxSync, FiniteSetTheorems, WellFoundedInduction, TLAPS

-----------------------------------------------------------------------------
(* The inductive invariant *)

AtThread == {"insert", "invite", "reconcile", "recount", "rewrite"}

\* A run at a message has one, and from the thread on a thread; a run that
\* reconciles has found a row.
RunsFit ==
  \A r \in Runs :
    /\ pc[r] = "idle" <=> job[r] = "none"
    /\ pc[r] \in AtThread \union {"count"} => page[r] # {}
    /\ pc[r] \in AtThread => thread[r] \in Ids
    /\ pc[r] = "reconcile" => rows[thread[r]] # NoRow

\* A row is of a thread.
RowsFit == \A i \in Ids : rows[i] # NoRow => rows[i].thread \in Ids

TypeInv == TypeOK /\ RunsFit /\ RowsFit

\* Unless a lock was lost or a dispatch came late, one job of the account at
\* most is waiting or running.
AloneInv ==
  ~raced =>
    /\ \A q, r \in Runs : pc[q] # "idle" /\ pc[r] # "idle" => q = r
    /\ \A r \in Runs :
         /\ job[r] # "lost"
         /\ job[r] = "stable" => stable = "active"
         /\ job[r] = "fresh"  => stable = "none"
         /\ pc[r] # "idle"    => fresh = 0 /\ stable # "waiting"
    /\ fresh <= 1
    /\ stable # "none" => fresh = 0

\* Then a message that a run is about to insert has no row, and none has two.
RowsInv ==
  ~raced =>
    /\ \A i, j \in Ids : rows[i] # NoRow /\ rows[j] # NoRow /\ i[1] = j[1] => i = j
    /\ \A r \in Runs : pc[r] \in {"count", "insert"} => ~Known(Current(r)[1])

IInv == TypeInv /\ AloneInv /\ RowsInv

-----------------------------------------------------------------------------
(* The largest of a set, and the newest message of a page *)

\* A set of bounded naturals has a largest element.
LEMMA MaxExists ==
  ASSUME NEW b \in Nat, NEW S, S \subseteq 0..b, S # {}
  PROVE  Max(S) \in S /\ \A y \in S : Max(S) >= y
<1> DEFINE R == OpToRel(<, Nat)
           T == {x \in Nat : b - x \in S}
<1>1. T \subseteq Nat /\ T # {}
  <2>1. PICK x \in S : TRUE
    OBVIOUS
  <2>2. b - x \in T
    BY <2>1
  <2> QED
    BY <2>2
<1>2. IsWellFoundedOn(R, Nat)
  BY NatLessThanWellFounded
<1>3. PICK m \in T : \A y \in T : <<y, m>> \notin R
  <2> HIDE DEF R, T
  <2> QED BY <1>1, <1>2, WFMin
<1>4. \A y \in T : ~(y < m)
  BY <1>1, <1>3 DEF OpToRel
<1>5. b - m \in S /\ \A y \in S : b - m >= y
  <2>1. ASSUME NEW y \in S PROVE b - m >= y
    <3>1. b - y \in T
      BY <2>1
    <3> QED
      BY <3>1, <1>4, <2>1
  <2> QED
    BY <2>1
<1> QED
  BY <1>5 DEF Max

\* The newest message of a page is one of its messages.
LEMMA NewestIn ==
  ASSUME NEW msgs \in SUBSET (Mail \X BOOLEAN), msgs # {}
  PROVE  Newest(msgs) \in msgs
<1> DEFINE S == {m \in Mail : \E p \in msgs : p[1] = m}
<1>1. MaxMail \in Nat /\ S \subseteq 0..MaxMail /\ S # {}
  BY MailboxAssumption DEF Mail
<1>2. PICK m \in S : \A y \in S : m >= y
  <2> HIDE DEF S
  <2> QED BY <1>1, MaxExists
<1>3. PICK p \in msgs : p[1] = m
  BY <1>2
<1>4. \A q \in msgs : q[1] <= p[1]
  BY <1>2, <1>3
<1> QED
  BY <1>4 DEF Newest

\* What syncDelta lists and returns.
LEMMA ListedType ==
  ASSUME TypeOK, NEW s \in FolderState
  PROVE  Listed(s) \subseteq Mail /\ PageCursor(s) \in 0..MaxMail
<1>1. Remaining(s) \subseteq Mail /\ Remaining(s) \subseteq 0..MaxMail /\ MaxMail \in Nat \ {0}
  BY MailboxAssumption DEF Remaining, InFolder, Mail, TypeOK
<1>2. Remaining(s) # {} => Max(Remaining(s)) \in Remaining(s)
  BY <1>1, MaxExists
<1>3. Cardinality(Remaining(s)) > 1 => Remaining(s) # {}
  BY FS_EmptySet
<1>4. Listed(s) \subseteq Mail
  BY <1>1, <1>2 DEF Listed
<1>5. PageCursor(s) \in 0..MaxMail
  BY <1>1, <1>2, <1>3 DEF PageCursor
<1> QED
  BY <1>4, <1>5

\* Rows of a thread can be counted.
LEMMA CountType ==
  ASSUME NEW S, S \subseteq Ids
  PROVE  Cardinality(S) \in Nat
<1>1. IsFiniteSet(Mail)
  BY FS_Interval, MailboxAssumption DEF Mail
<1>2. IsFiniteSet(Ids)
  BY <1>1, FS_Product, MailboxAssumption DEF Ids
<1> QED
  BY <1>2, FS_Subset, FS_CardinalityType

\* No message has the id of none.
LEMMA NoIdIsNone == NoId \notin Ids
  BY DEF NoId, Ids, Mail

\* A row is told from none by its thread.
LEMMA RowIsThere == \A t \in Ids, b \in BOOLEAN : [thread |-> t, read |-> b] # NoRow
  BY NoIdIsNone DEF NoRow
\* The larger of one and a count.
LEMMA MaxOfTwo == \A n \in Nat : Max({1, n}) \in Nat
<1> SUFFICES ASSUME NEW n \in Nat PROVE Max({1, n}) \in Nat
  OBVIOUS
<1>1. \E x \in {1, n} : \A y \in {1, n} : x >= y
  OBVIOUS
<1> QED
  BY <1>1 DEF Max

-----------------------------------------------------------------------------
(* Type correctness *)

\* The start has the declared types.
LEMMA InitType == Init => TypeInv
<1> SUFFICES ASSUME Init PROVE TypeInv
  OBVIOUS
<1>1. TypeOK
  <2>1. Sent \intersect (1 .. Backlog) \subseteq Mail /\ arrived \in 0..MaxMail /\ mishaps \in 0..MaxMishaps
    BY MailboxAssumption DEF Init
  <2>2. cursor \in FolderState /\ at \in [Runs -> FolderState]
    BY MailboxAssumption DEF Init, Start, FolderState, Folder
  <2>3. rows \in [Ids -> [thread : Ids \union {NoId}, read : BOOLEAN]]
    BY DEF Init, NoRow
  <2> QED
    BY <2>1, <2>2, <2>3 DEF Init, TypeOK, Idle, Absent
<1>2. RunsFit /\ RowsFit
  BY DEF Init, RunsFit, RowsFit, AtThread
<1> QED
  BY <1>1, <1>2 DEF TypeInv

\* A run that is at a message is at one of the provider's.
LEMMA CurrentType ==
  ASSUME TypeInv, NEW r \in Runs, pc[r] \in AtThread \union {"count"}
  PROVE  Current(r) \in page[r] /\ Current(r)[1] \in Mail /\ Current(r)[2] \in BOOLEAN
<1>1. page[r] \in SUBSET (Mail \X BOOLEAN) /\ page[r] # {}
  BY DEF TypeInv, TypeOK, RunsFit
<1>2. Current(r) \in page[r]
  BY <1>1, NewestIn DEF Current
<1> QED
  BY <1>1, <1>2

\* Every step keeps the declared types.
LEMMA NextType == TypeInv /\ [Next]_vars => TypeInv'
<1> SUFFICES ASSUME TypeInv, [Next]_vars PROVE TypeInv'
  OBVIOUS
<1> USE DEF TypeInv, TypeOK, RunsFit, RowsFit, AtThread,
            provider, account, queue, runs, mailbox, requests, history
<1>1. CASE Arrive
  BY <1>1, MailboxAssumption DEF Arrive, Mail
<1>2. CASE RequestSync
  BY <1>2 DEF RequestSync
<1>3. CASE ScanDispatch
  BY <1>3 DEF ScanDispatch, RequestSync
<1>4. CASE DispatchLate
  BY <1>4, MailboxAssumption DEF DispatchLate
<1>5. CASE PollIntervalPasses
  <2>1. TypeOK'
    <3>1. recent' \in BOOLEAN
      BY <1>5 DEF PollIntervalPasses
    <3>2. UNCHANGED <<provider, cursor, syncStatus, quiet, claimed, queue, runs, mailbox,
                      requests, history>>
      BY <1>5 DEF PollIntervalPasses
    <3> QED
      BY <3>1, <3>2
  <2>2. RunsFit' /\ RowsFit'
    BY <1>5 DEF PollIntervalPasses
  <2> QED
    BY <2>1, <2>2
<1>6. CASE SyncingGoesStale
  BY ZenonT(60), <1>6 DEF SyncingGoesStale
<1>7. ASSUME NEW t \in Threads, NEW read \in BOOLEAN, MarkThread(t, read) PROVE TypeInv'
  <2>0. Max({1, Cardinality(RowsIn(t))}) \in Nat /\ t \in Ids
    <3>1. t \in Ids /\ RowsIn(t) \subseteq Ids
      BY DEF Threads, RowsIn
    <3>2. Cardinality(RowsIn(t)) \in Nat
      BY <3>1, CountType
    <3> QED
      BY <3>1, <3>2, MaxOfTwo
  <2>1. TypeOK'
    BY <1>7, <2>0, MailboxAssumption DEF MarkThread
  <2>2. RunsFit' /\ RowsFit'
    BY <1>7 DEF MarkThread
  <2> QED
    BY <2>1, <2>2
<1>8. CASE WriteUnreadCount
  BY ZenonT(60), <1>8 DEF WriteUnreadCount
<1>9. ASSUME NEW ok \in BOOLEAN, PushReadState(ok) PROVE TypeInv'
  <2>1. TypeOK'
    BY <1>9 DEF PushReadState, RowsIn, Ids, Idle, NoId
  <2>2. RunsFit'
    BY <1>9 DEF PushReadState
  <2>3. RowsFit'
    BY <1>9 DEF PushReadState
  <2> QED
    BY <2>1, <2>2, <2>3
<1>10. ASSUME NEW r \in Runs, NEW kind \in {"stable", "fresh"}, StartSync(r, kind) PROVE TypeInv'
  <2>0. /\ stable' \in {"none", "waiting", "active"} /\ fresh' \in Nat
        /\ job' = [job EXCEPT ![r] = kind] /\ at' = [at EXCEPT ![r] = cursor]
        /\ pc' = [pc EXCEPT ![r] = "fetch"] /\ syncStatus' = "syncing" /\ quiet' = FALSE
        /\ UNCHANGED <<provider, cursor, recent, claimed, page, thread, count, outdated, mailbox,
                       requests, history>>
    <3>1. CASE kind = "stable"
      BY <1>10, <3>1 DEF StartSync, Goto
    <3>2. CASE kind = "fresh"
      BY <1>10, <3>2 DEF StartSync, Goto
    <3> QED
      BY <3>1, <3>2
  <2>1. TypeOK'
    BY ZenonT(60), <2>0
  <2>2. RunsFit'
    BY <1>10, <2>0 DEF StartSync, Goto
  <2>3. RowsFit'
    BY <1>10, <2>0 DEF StartSync, Goto
  <2> QED
    BY <2>1, <2>2, <2>3
<1>11. ASSUME NEW r \in Runs, NEW missing \in {{}, Listed(at[r])}, Fetch(r, missing) PROVE TypeInv'
  <2>0. Listed(at[r]) \subseteq Mail /\ PageCursor(at[r]) \in 0..MaxMail
    BY ListedType
  <2>1. TypeOK'
    <3>1. at' \in [Runs -> FolderState]
      BY <1>11, <2>0 DEF Fetch, FolderState
    <3>2. page' \in [Runs -> SUBSET (Mail \X BOOLEAN)]
      <4>1. \A m \in Mail : <<m, m \in remoteRead>> \in Mail \X BOOLEAN
        <5>1. ASSUME NEW m \in Mail PROVE <<m, m \in remoteRead>> \in Mail \X BOOLEAN
          <6>1. CASE m \in remoteRead
            <7>1. (m \in remoteRead) = TRUE
              BY <6>1
            <7> QED
              BY <7>1, <5>1
          <6>2. CASE m \notin remoteRead
            <7>1. (m \in remoteRead) = FALSE
              BY <6>2
            <7> QED
              BY <7>1, <5>1
          <6> QED
            BY <6>1, <6>2
        <5> QED
          BY <5>1
      <4>2. {<<m, m \in remoteRead>> : m \in Listed(at[r]) \ missing} \in SUBSET (Mail \X BOOLEAN)
        BY <2>0, <4>1
      <4> QED
        BY <1>11, <4>2 DEF Fetch
    <3>3. withheld' \subseteq Mail /\ mishaps' \in 0 .. MaxMishaps
      BY <1>11, <2>0, MailboxAssumption DEF Fetch
    <3> QED
      BY <1>11, <3>1, <3>2, <3>3 DEF Fetch, Goto
  <2>2. RunsFit'
    BY <1>11, <2>0 DEF Fetch, Goto
  <2>3. RowsFit'
    BY <1>11, <2>0 DEF Fetch, Goto
  <2> QED
    BY <2>1, <2>2, <2>3
<1>12. ASSUME NEW r \in Runs, LookUp(r) PROVE TypeInv'
  <2>0. Current(r)[1] \in Mail => RowsOf(Current(r)[1]) \subseteq Ids
    BY DEF RowsOf
  <2>1. TypeOK'
    BY <1>12, <2>0 DEF LookUp, Goto, RowsOf, Threads, Absent
  <2>2. RunsFit'
    BY <1>12, <2>0 DEF LookUp, Goto, RowsOf, Known
  <2>3. RowsFit'
    BY <1>12, <2>0 DEF LookUp, Goto
  <2> QED
    BY <2>1, <2>2, <2>3
<1>13. ASSUME NEW r \in Runs, NEW filed \in BOOLEAN, UpsertThread(r, filed) PROVE TypeInv'
  <2>0. Current(r)[1] \in Mail /\ Current(r)[2] \in BOOLEAN
    BY <1>13, CurrentType DEF UpsertThread, Goto
  <2>1. TypeOK'
    BY <1>13, <2>0, MailboxAssumption DEF UpsertThread, Goto, Ids, Absent
  <2>2. RunsFit'
    BY <1>13, <2>0 DEF UpsertThread, Goto, Ids
  <2>3. RowsFit'
    BY <1>13, <2>0 DEF UpsertThread, Goto
  <2> QED
    BY <2>1, <2>2, <2>3
<1>14. ASSUME NEW r \in Runs, InsertMessage(r) PROVE TypeInv'
  <2>0. Current(r) \in page[r] /\ Current(r)[1] \in Mail /\ Current(r)[2] \in BOOLEAN
    BY <1>14, CurrentType DEF InsertMessage, Forward, Goto
  <2>4. /\ rows' \in [Ids -> [thread : Ids \union {NoId}, read : BOOLEAN]]
        /\ page' \in [Runs -> SUBSET (Mail \X BOOLEAN)]
        /\ thread' \in [Runs -> Ids \union {NoId}] /\ count' \in [Runs -> Nat]
        /\ pc' \in [Runs -> {"idle", "fetch", "message", "count", "insert", "invite",
                            "reconcile", "recount", "rewrite", "save", "continue"}]
    <3>1. rows' = [rows EXCEPT ![<<Current(r)[1], r>>] = [thread |-> thread[r], read |-> Current(r)[2]]]
      BY <1>14 DEF InsertMessage
    <3>2. rows' \in [Ids -> [thread : Ids \union {NoId}, read : BOOLEAN]]
      BY <2>0, <3>1
    <3>3. CASE Current(r)[1] \in Invites
      BY <1>14, <3>2, <3>3 DEF InsertMessage, Goto
    <3>4. CASE Current(r)[1] \notin Invites
      BY SMTT(30), <1>14, <3>2, <3>4 DEF InsertMessage, Forward, Goto
    <3> QED
      BY <3>3, <3>4
  <2>1. TypeOK'
    BY <1>14, <2>0, <2>4 DEF InsertMessage, Forward, Goto
  <2>2. RunsFit'
    BY <1>14, <2>0, NoIdIsNone, RowIsThere DEF InsertMessage, Forward, Goto
  <2>3. RowsFit'
    BY <1>14, <2>0 DEF InsertMessage, Forward, Goto
  <2> QED
    BY <2>1, <2>2, <2>3
<1>15. ASSUME NEW r \in Runs, RecordInvite(r) PROVE TypeInv'
  <2>0. Current(r) \in page[r] /\ Current(r)[1] \in Mail /\ Current(r)[2] \in BOOLEAN
    BY <1>15, CurrentType DEF RecordInvite, Forward, Goto
  <2>1. TypeOK'
    BY <1>15, <2>0 DEF RecordInvite, Forward, Goto
  <2>2. RunsFit'
    BY <1>15, <2>0 DEF RecordInvite, Forward, Goto
  <2>3. RowsFit'
    BY <1>15, <2>0 DEF RecordInvite, Forward, Goto
  <2> QED
    BY <2>1, <2>2, <2>3
<1>16. ASSUME NEW r \in Runs, Reconcile(r) PROVE TypeInv'
  <2>0. Current(r)[2] \in BOOLEAN
    BY <1>16, CurrentType DEF Reconcile, Goto
  <2>1. TypeOK'
    BY <1>16, <2>0 DEF Reconcile, Goto
  <2>2. RunsFit'
    BY <1>16, <2>0, NoIdIsNone, RowIsThere DEF Reconcile, Goto
  <2>3. RowsFit'
    BY <1>16, <2>0 DEF Reconcile, Goto
  <2> QED
    BY <2>1, <2>2, <2>3
<1>17. ASSUME NEW r \in Runs, Recount(r) PROVE TypeInv'
  <2>0. Recounted(thread[r]) \in Nat
    BY CountType DEF Recounted, UnreadRows, RowsIn
  <2>1. TypeOK'
    BY <1>17, <2>0 DEF Recount, Goto
  <2>2. RunsFit'
    BY <1>17, <2>0 DEF Recount, Goto
  <2>3. RowsFit'
    BY <1>17, <2>0 DEF Recount, Goto
  <2> QED
    BY <2>1, <2>2, <2>3
<1>18. ASSUME NEW r \in Runs, Rewrite(r) PROVE TypeInv'
  BY <1>18 DEF Rewrite, Forward, Goto
<1>19. ASSUME NEW r \in Runs, SaveCursor(r) PROVE TypeInv'
  <2>1. TypeOK'
    BY ZenonT(60), <1>19 DEF SaveCursor, Goto, Advance, CycleComplete, FolderState, Folder
  <2>2. RunsFit'
    BY <1>19 DEF SaveCursor, Goto
  <2>3. RowsFit'
    BY <1>19 DEF SaveCursor, Goto
  <2> QED
    BY <2>1, <2>2, <2>3
<1>20. ASSUME NEW r \in Runs, Continue(r) PROVE TypeInv'
  <2>1. TypeOK'
    BY <1>20, MailboxAssumption DEF Continue, Reset, CycleComplete, Start, FolderState, Folder
  <2>2. RunsFit'
    BY <1>20 DEF Continue, Reset
  <2>3. RowsFit'
    BY <1>20 DEF Continue, Reset
  <2> QED
    BY <2>1, <2>2, <2>3
<1>21. ASSUME NEW r \in Runs, NEW told \in BOOLEAN, NEW again \in BOOLEAN, Fail(r, told, again)
      PROVE  TypeInv'
  <2>0. stable' \in {"none", "waiting", "active"} /\ fresh' \in Nat
    BY <1>21 DEF Fail, GiveBack
  <2>1. TypeOK'
    <3>1. at' \in [Runs -> FolderState] /\ page' \in [Runs -> SUBSET (Mail \X BOOLEAN)]
          /\ thread' \in [Runs -> Ids \union {NoId}] /\ count' \in [Runs -> Nat]
      BY <1>21, MailboxAssumption DEF Fail, Reset, Start, FolderState, Folder
    <3>2. syncStatus' \in {"idle", "syncing", "error", "reconnect"}
          /\ recent' \in BOOLEAN /\ quiet' \in BOOLEAN
      BY <1>21 DEF Fail
    <3> QED
      BY <1>21, <2>0, <3>1, <3>2, MailboxAssumption DEF Fail, Reset
  <2>2. RunsFit'
    BY <1>21, <2>0 DEF Fail, GiveBack, Reset
  <2>3. RowsFit'
    BY <1>21, <2>0 DEF Fail, GiveBack, Reset
  <2> QED
    BY <2>1, <2>2, <2>3
<1>22. ASSUME NEW r \in Runs, LoseLock(r) PROVE TypeInv'
  <2>1. TypeOK'
    BY <1>22, MailboxAssumption DEF LoseLock, GiveBack
  <2>2. RunsFit'
    BY <1>22 DEF LoseLock, GiveBack
  <2>3. RowsFit'
    BY <1>22 DEF LoseLock, GiveBack
  <2> QED
    BY <2>1, <2>2, <2>3
<1>23. CASE UNCHANGED vars
  BY <1>23 DEF vars
<1>24. CASE Revoke
  BY <1>24, MailboxAssumption DEF Revoke
<1>25. CASE MarkMessages
  <2>1. rows' = [i \in Ids |-> IF i \in RowsIn(user.thread) THEN [rows[i] EXCEPT !.read = user.read]
                              ELSE rows[i]]
    BY <1>25 DEF MarkMessages
  <2>2. rows' \in [Ids -> [thread : Ids \union {NoId}, read : BOOLEAN]]
    BY <2>1
  <2>3. TypeOK'
    BY <1>25, <2>2 DEF MarkMessages
  <2>4. \A i \in Ids : rows'[i].thread = rows[i].thread
    BY <2>1
  <2>5. \A i \in Ids : rows[i] = NoRow => rows'[i] = NoRow
    BY <2>1 DEF RowsIn
  <2>6. ASSUME NEW i \in Ids, rows[i] # NoRow PROVE rows'[i] # NoRow
    <3>1. rows[i].thread \in Ids
      BY <2>6
    <3> QED
      BY <2>4, <3>1, NoIdIsNone DEF NoRow
  <2>7. RunsFit'
    BY <1>25, <2>6 DEF MarkMessages
  <2>8. RowsFit'
    BY <2>4, <2>5
  <2> QED
    BY <2>3, <2>7, <2>8
<1>26. CASE LinkCalendar
  BY <1>26, MailboxAssumption DEF LinkCalendar
<1>27. ASSUME NEW m \in Mail, OpenMessage(m) PROVE TypeInv'
  BY <1>27, MailboxAssumption DEF OpenMessage
<1>28. CASE AskReconnect
  BY <1>28 DEF AskReconnect
<1>29. ASSUME NEW enqueued \in BOOLEAN, Reconnect(enqueued) PROVE TypeInv'
  BY <1>29 DEF Reconnect
<1>30. ASSUME NEW r \in Runs, StopForReconnect(r) PROVE TypeInv'
  <2>1. TypeOK'
    <3>1. at' \in [Runs -> FolderState] /\ page' \in [Runs -> SUBSET (Mail \X BOOLEAN)]
          /\ thread' \in [Runs -> Ids \union {NoId}] /\ count' \in [Runs -> Nat]
      BY <1>30, MailboxAssumption DEF StopForReconnect, Reset, Start, FolderState, Folder
    <3>2. stable' \in {"none", "waiting", "active"} /\ outdated' \subseteq Runs
      BY <1>30 DEF StopForReconnect, Reset
    <3> QED
      BY <1>30, <3>1, <3>2 DEF StopForReconnect, Reset
  <2>2. RunsFit' /\ RowsFit'
    BY <1>30 DEF StopForReconnect, Reset
  <2> QED
    BY <2>1, <2>2
<1>31. ASSUME NEW r \in Runs, Work(r) PROVE TypeInv'
  BY <1>31, <1>10, <1>11, <1>12, <1>13, <1>14, <1>15, <1>16, <1>17, <1>18, <1>19, <1>20, <1>30
  DEF Work
<1>32. ASSUME NEW r \in Runs, Mishap(r) PROVE TypeInv'
  BY <1>32, <1>11, <1>13, <1>21, <1>22 DEF Mishap
<1>33. CASE UserStep
  BY <1>33, <1>7, <1>8, <1>9, <1>25, <1>26, <1>27, <1>28, <1>29 DEF UserStep, MarkOn
<1> QED
  BY <1>1, <1>2, <1>3, <1>4, <1>5, <1>6, <1>23, <1>24, <1>31, <1>32, <1>33 DEF Next

-----------------------------------------------------------------------------
(* One job of the account *)

\* A dispatch that looks at the queue, and one job after another, keep the
\* account to one job.
LEMMA NextAlone == TypeInv /\ AloneInv /\ [Next]_vars => AloneInv'
<1> SUFFICES ASSUME TypeInv, AloneInv, [Next]_vars PROVE AloneInv'
  OBVIOUS
<1> USE DEF TypeInv, TypeOK, RunsFit, AloneInv,
            provider, account, queue, runs, mailbox, requests, history
<1>1. CASE Arrive
  BY <1>1 DEF Arrive
<1>2. CASE RequestSync
  BY <1>2 DEF RequestSync, AccountActive
<1>3. CASE ScanDispatch
  BY <1>3 DEF ScanDispatch, RequestSync, AccountActive
<1>4. CASE DispatchLate
  BY <1>4 DEF DispatchLate
<1>5. CASE PollIntervalPasses
  BY <1>5 DEF PollIntervalPasses
<1>6. CASE SyncingGoesStale
  BY <1>6 DEF SyncingGoesStale
<1>7. ASSUME NEW t \in Threads, NEW read \in BOOLEAN, MarkThread(t, read) PROVE AloneInv'
  BY <1>7 DEF MarkThread
<1>8. CASE WriteUnreadCount
  BY <1>8 DEF WriteUnreadCount
<1>9. ASSUME NEW ok \in BOOLEAN, PushReadState(ok) PROVE AloneInv'
  BY <1>9 DEF PushReadState
<1>10. ASSUME NEW r \in Runs, NEW kind \in {"stable", "fresh"}, StartSync(r, kind) PROVE AloneInv'
  <2>1. /\ pc[r] = "idle" /\ UNCHANGED raced
        /\ pc' = [pc EXCEPT ![r] = "fetch"] /\ job' = [job EXCEPT ![r] = kind]
    BY <1>10 DEF StartSync, Goto
  <2>2. CASE kind = "stable"
    <3>1. stable = "waiting" /\ stable' = "active" /\ UNCHANGED fresh
      BY <1>10, <2>2 DEF StartSync
    <3> QED
      BY <2>1, <2>2, <3>1
  <2>3. CASE kind = "fresh"
    <3>1. fresh > 0 /\ fresh' = fresh - 1 /\ UNCHANGED stable
      BY <1>10, <2>3 DEF StartSync
    <3> QED
      BY <2>1, <2>3, <3>1
  <2> QED
    BY <2>2, <2>3
<1>11. ASSUME NEW r \in Runs, NEW missing, Fetch(r, missing) PROVE AloneInv'
  BY <1>11 DEF Fetch, Goto
<1>12. ASSUME NEW r \in Runs, LookUp(r) PROVE AloneInv'
  BY <1>12 DEF LookUp, Goto
<1>13. ASSUME NEW r \in Runs, NEW filed \in BOOLEAN, UpsertThread(r, filed) PROVE AloneInv'
  BY <1>13 DEF UpsertThread, Goto
<1>14. ASSUME NEW r \in Runs, InsertMessage(r) PROVE AloneInv'
  <2>1. pc[r] # "idle" /\ UNCHANGED <<job, stable, fresh, raced>>
    BY <1>14 DEF InsertMessage
  <2>2. pc' = [pc EXCEPT ![r] = "invite"] \/ pc' = [pc EXCEPT ![r] = "message"]
    BY <1>14 DEF InsertMessage, Forward, Goto
  <2> QED
    BY <2>1, <2>2
<1>15. ASSUME NEW r \in Runs, RecordInvite(r) PROVE AloneInv'
  BY <1>15 DEF RecordInvite, Forward, Goto
<1>16. ASSUME NEW r \in Runs, Reconcile(r) PROVE AloneInv'
  BY <1>16 DEF Reconcile, Goto
<1>17. ASSUME NEW r \in Runs, Recount(r) PROVE AloneInv'
  BY <1>17 DEF Recount, Goto
<1>18. ASSUME NEW r \in Runs, Rewrite(r) PROVE AloneInv'
  BY <1>18 DEF Rewrite, Forward, Goto
<1>19. ASSUME NEW r \in Runs, SaveCursor(r) PROVE AloneInv'
  BY <1>19 DEF SaveCursor, Goto
<1>20. ASSUME NEW r \in Runs, Continue(r) PROVE AloneInv'
  BY <1>20 DEF Continue, Reset
<1>21. ASSUME NEW r \in Runs, NEW told \in BOOLEAN, NEW again \in BOOLEAN, Fail(r, told, again)
      PROVE  AloneInv'
  BY <1>21 DEF Fail, GiveBack, Reset
<1>22. ASSUME NEW r \in Runs, LoseLock(r) PROVE AloneInv'
  BY <1>22 DEF LoseLock, GiveBack
<1>23. CASE UNCHANGED vars
  BY <1>23 DEF vars
<1>24. CASE Revoke
  BY <1>24 DEF Revoke
<1>25. CASE MarkMessages
  BY <1>25 DEF MarkMessages
<1>26. CASE LinkCalendar
  BY <1>26 DEF LinkCalendar
<1>27. ASSUME NEW m \in Mail, OpenMessage(m) PROVE AloneInv'
  BY <1>27 DEF OpenMessage
<1>28. CASE AskReconnect
  BY <1>28 DEF AskReconnect
<1>29. ASSUME NEW enqueued \in BOOLEAN, Reconnect(enqueued) PROVE AloneInv'
  BY <1>29 DEF Reconnect, AccountActive
<1>30. ASSUME NEW r \in Runs, StopForReconnect(r) PROVE AloneInv'
  BY <1>30 DEF StopForReconnect, Reset
<1>31. ASSUME NEW r \in Runs, Work(r) PROVE AloneInv'
  BY <1>31, <1>10, <1>11, <1>12, <1>13, <1>14, <1>15, <1>16, <1>17, <1>18, <1>19, <1>20, <1>30
  DEF Work
<1>32. ASSUME NEW r \in Runs, Mishap(r) PROVE AloneInv'
  BY <1>32, <1>11, <1>13, <1>21, <1>22 DEF Mishap
<1>33. CASE UserStep
  BY <1>33, <1>7, <1>8, <1>9, <1>25, <1>26, <1>27, <1>28, <1>29 DEF UserStep, MarkOn
<1> QED
  BY <1>1, <1>2, <1>3, <1>4, <1>5, <1>6, <1>23, <1>24, <1>31, <1>32, <1>33 DEF Next

-----------------------------------------------------------------------------
(* One row of a message *)

\* The message of a run stays the same while its page does.
LEMMA SameMessage ==
  \A r \in Runs : page'[r] = page[r] => Current(r)' = Current(r)
  BY DEF Current

\* No row comes or goes.
RowsStay == \A i \in Ids : rows'[i] = NoRow <=> rows[i] = NoRow

\* Marking a thread changes flags only.
LEMMA MarkKeepsRows ==
  ASSUME TypeInv, MarkMessages
  PROVE  RowsStay
<1>1. \A i \in Ids : rows'[i].thread = rows[i].thread
  BY DEF MarkMessages, TypeInv, TypeOK
<1>2. \A i \in Ids : rows[i] = NoRow => rows'[i] = NoRow
  BY DEF MarkMessages, RowsIn
<1>3. ASSUME NEW i \in Ids, rows[i] # NoRow PROVE rows'[i] # NoRow
  <2>1. rows[i].thread \in Ids
    BY <1>3 DEF TypeInv, RowsFit
  <2> QED
    BY <1>1, <2>1, NoIdIsNone DEF NoRow
<1> QED
  BY <1>2, <1>3 DEF RowsStay

\* So does a reconciliation.
LEMMA ReconcileKeepsRows ==
  ASSUME TypeInv, NEW r \in Runs, Reconcile(r)
  PROVE  RowsStay
<1>1. thread[r] \in Ids /\ rows[thread[r]] # NoRow /\ rows[thread[r]].thread \in Ids
  BY DEF TypeInv, RunsFit, RowsFit, AtThread, Reconcile
<1>2. rows' = [rows EXCEPT ![thread[r]].read = Current(r)[2]]
  BY DEF Reconcile
<1>3. rows'[thread[r]].thread = rows[thread[r]].thread
  BY <1>1, <1>2 DEF TypeInv, TypeOK
<1>4. rows'[thread[r]] # NoRow
  BY <1>1, <1>3, NoIdIsNone DEF NoRow
<1>5. \A i \in Ids : i # thread[r] => rows'[i] = rows[i]
  BY <1>2 DEF TypeInv, TypeOK
<1> QED
  BY <1>1, <1>4, <1>5 DEF RowsStay

\* A message is known as long as no row comes or goes.
LEMMA KnownStays == RowsStay => \A m : Known(m)' <=> Known(m)
<1> SUFFICES ASSUME RowsStay, NEW m PROVE Known(m)' <=> Known(m)
  OBVIOUS
<1> QED
  BY DEF RowsStay, Known, RowsOf

\* A step that leaves the rows there are, and brings no run to an insert.
LEMMA RowsUntouched ==
  ASSUME RowsInv, RowsStay, raced => raced',
         \A r \in Runs : pc'[r] \in {"count", "insert"} =>
           pc[r] \in {"count", "insert"} /\ page'[r] = page[r]
  PROVE  RowsInv'
<1>1. ASSUME ~raced', NEW i \in Ids, NEW j \in Ids, rows'[i] # NoRow, rows'[j] # NoRow, i[1] = j[1]
      PROVE  i = j
  BY <1>1 DEF RowsInv, RowsStay
<1>2. ASSUME ~raced', NEW r \in Runs, pc'[r] \in {"count", "insert"}
      PROVE  ~Known(Current(r)[1])'
  BY <1>2, KnownStays, SameMessage DEF RowsInv
<1> QED
  BY <1>1, <1>2 DEF RowsInv

\* The run that inserts a message has looked for it, and is alone.
LEMMA NextRows == TypeInv /\ AloneInv /\ RowsInv /\ [Next]_vars => RowsInv'
<1> SUFFICES ASSUME TypeInv, AloneInv, RowsInv, [Next]_vars PROVE RowsInv'
  OBVIOUS
<1> USE DEF provider, account, queue, runs, mailbox, requests, history
<1>1. CASE Arrive
  BY <1>1, RowsUntouched DEF Arrive, RowsStay, TypeInv, TypeOK
<1>2. CASE RequestSync
  BY <1>2, RowsUntouched DEF RequestSync, RowsStay, TypeInv, TypeOK
<1>3. CASE ScanDispatch
  BY <1>3, RowsUntouched DEF ScanDispatch, RequestSync, RowsStay, TypeInv, TypeOK
<1>4. CASE DispatchLate
  BY <1>4, RowsUntouched DEF DispatchLate, RowsStay, TypeInv, TypeOK
<1>5. CASE PollIntervalPasses
  BY <1>5, RowsUntouched DEF PollIntervalPasses, RowsStay, TypeInv, TypeOK
<1>6. CASE SyncingGoesStale
  BY <1>6, RowsUntouched DEF SyncingGoesStale, RowsStay, TypeInv, TypeOK
<1>7. ASSUME NEW t \in Threads, NEW read \in BOOLEAN, MarkThread(t, read) PROVE RowsInv'
  BY <1>7, RowsUntouched DEF MarkThread, RowsStay, TypeInv, TypeOK
<1>8. CASE WriteUnreadCount
  BY <1>8, RowsUntouched DEF WriteUnreadCount, RowsStay, TypeInv, TypeOK
<1>9. ASSUME NEW ok \in BOOLEAN, PushReadState(ok) PROVE RowsInv'
  BY <1>9, RowsUntouched DEF PushReadState, RowsStay, TypeInv, TypeOK
<1>10. ASSUME NEW r \in Runs, NEW kind \in {"stable", "fresh"}, StartSync(r, kind) PROVE RowsInv'
  BY <1>10, RowsUntouched DEF StartSync, Goto, RowsStay, TypeInv, TypeOK
<1>11. ASSUME NEW r \in Runs, NEW missing, Fetch(r, missing) PROVE RowsInv'
  BY <1>11, RowsUntouched DEF Fetch, Goto, RowsStay, TypeInv, TypeOK
<1>12. ASSUME NEW r \in Runs, LookUp(r) PROVE RowsInv'
  <2>1. UNCHANGED <<rows, page, raced>> /\ RowsStay
    BY <1>12 DEF LookUp, RowsStay
  <2>2. CASE Known(Current(r)[1])
    <3>1. pc' = [pc EXCEPT ![r] = "reconcile"]
      BY <1>12, <2>2 DEF LookUp, Found, Goto
    <3> QED
      BY <2>1, <3>1, RowsUntouched DEF TypeInv, TypeOK
  <2>3. CASE ~Known(Current(r)[1])
    <3>1. pc' = [pc EXCEPT ![r] = "count"] /\ page'[r] = page[r]
      BY <1>12, <2>3 DEF LookUp, Found, Goto
    <3>2. ~Known(Current(r)[1])'
      BY <2>1, <2>3, <3>1, KnownStays, SameMessage
    <3>3. ASSUME NEW q \in Runs, q # r, pc'[q] \in {"count", "insert"}, ~raced'
          PROVE  ~Known(Current(q)[1])'
      BY <2>1, <3>1, <3>3, KnownStays, SameMessage DEF RowsInv, TypeInv, TypeOK
    <3>4. ~raced' => \A i, j \in Ids : rows'[i] # NoRow /\ rows'[j] # NoRow /\ i[1] = j[1] => i = j
      BY <2>1 DEF RowsInv
    <3> QED
      BY <3>2, <3>3, <3>4 DEF RowsInv
  <2> QED
    BY <2>2, <2>3
<1>13. ASSUME NEW r \in Runs, NEW filed \in BOOLEAN, UpsertThread(r, filed) PROVE RowsInv'
  BY <1>13, RowsUntouched DEF UpsertThread, Goto, RowsStay, TypeInv, TypeOK
<1>14. ASSUME NEW r \in Runs, InsertMessage(r) PROVE RowsInv'
  <2> SUFFICES ASSUME ~raced' PROVE RowsInv'
    BY DEF RowsInv
  <2> DEFINE m == Current(r)[1]
  <2>1. m \in Mail /\ ~raced /\ ~Known(m) /\ pc[r] = "insert"
    BY <1>14, CurrentType DEF InsertMessage, RowsInv, AtThread
  <2>2. rows' = [rows EXCEPT ![<<m, r>>] = [thread |-> thread[r], read |-> Current(r)[2]]]
    BY <1>14 DEF InsertMessage
  <2>3. \A i \in Ids : i[1] = m => rows[i] = NoRow
    BY <2>1 DEF Known, RowsOf
  <2>4. \A i \in Ids : rows'[i] # NoRow => i = <<m, r>> \/ (rows[i] # NoRow /\ i[1] # m)
    BY <2>2, <2>3 DEF TypeInv, TypeOK
  <2>5. \A i, j \in Ids : rows'[i] # NoRow /\ rows'[j] # NoRow /\ i[1] = j[1] => i = j
    BY <2>1, <2>4 DEF RowsInv
  <2>6. pc' = [pc EXCEPT ![r] = "invite"] \/ pc' = [pc EXCEPT ![r] = "message"]
    BY <1>14 DEF InsertMessage, Forward, Goto
  <2>7. \A q \in Runs : pc'[q] \notin {"count", "insert"}
    BY <2>1, <2>6 DEF AloneInv, TypeInv, TypeOK
  <2> QED
    BY <2>5, <2>7 DEF RowsInv
<1>15. ASSUME NEW r \in Runs, RecordInvite(r) PROVE RowsInv'
  BY <1>15, RowsUntouched DEF RecordInvite, Forward, Goto, RowsStay, TypeInv, TypeOK
<1>16. ASSUME NEW r \in Runs, Reconcile(r) PROVE RowsInv'
  BY <1>16, ReconcileKeepsRows, RowsUntouched DEF Reconcile, Goto, TypeInv, TypeOK
<1>17. ASSUME NEW r \in Runs, Recount(r) PROVE RowsInv'
  BY <1>17, RowsUntouched DEF Recount, Goto, RowsStay, TypeInv, TypeOK
<1>18. ASSUME NEW r \in Runs, Rewrite(r) PROVE RowsInv'
  BY <1>18, RowsUntouched DEF Rewrite, Forward, Goto, RowsStay, TypeInv, TypeOK
<1>19. ASSUME NEW r \in Runs, SaveCursor(r) PROVE RowsInv'
  BY <1>19, RowsUntouched DEF SaveCursor, Goto, RowsStay, TypeInv, TypeOK
<1>20. ASSUME NEW r \in Runs, Continue(r) PROVE RowsInv'
  BY <1>20, RowsUntouched DEF Continue, Reset, RowsStay, TypeInv, TypeOK
<1>21. ASSUME NEW r \in Runs, NEW told \in BOOLEAN, NEW again \in BOOLEAN, Fail(r, told, again)
      PROVE  RowsInv'
  BY <1>21, RowsUntouched DEF Fail, GiveBack, Reset, RowsStay, TypeInv, TypeOK
<1>22. ASSUME NEW r \in Runs, LoseLock(r) PROVE RowsInv'
  BY <1>22, RowsUntouched DEF LoseLock, GiveBack, RowsStay, TypeInv, TypeOK
<1>23. CASE UNCHANGED vars
  BY <1>23, RowsUntouched DEF vars, RowsStay, TypeInv, TypeOK
<1>24. CASE Revoke
  BY <1>24, RowsUntouched DEF Revoke, RowsStay, TypeInv, TypeOK
<1>25. CASE MarkMessages
  BY <1>25, MarkKeepsRows, RowsUntouched DEF MarkMessages
<1>26. CASE LinkCalendar
  BY <1>26, RowsUntouched DEF LinkCalendar, RowsStay, TypeInv, TypeOK
<1>27. ASSUME NEW m \in Mail, OpenMessage(m) PROVE RowsInv'
  BY <1>27, RowsUntouched DEF OpenMessage, RowsStay, TypeInv, TypeOK
<1>28. CASE AskReconnect
  BY <1>28, RowsUntouched DEF AskReconnect, RowsStay, TypeInv, TypeOK
<1>29. ASSUME NEW enqueued \in BOOLEAN, Reconnect(enqueued) PROVE RowsInv'
  BY <1>29, RowsUntouched DEF Reconnect, RowsStay, TypeInv, TypeOK
<1>30. ASSUME NEW r \in Runs, StopForReconnect(r) PROVE RowsInv'
  BY <1>30, RowsUntouched DEF StopForReconnect, Reset, RowsStay, TypeInv, TypeOK
<1>31. ASSUME NEW r \in Runs, Work(r) PROVE RowsInv'
  BY <1>31, <1>10, <1>11, <1>12, <1>13, <1>14, <1>15, <1>16, <1>17, <1>18, <1>19, <1>20, <1>30
  DEF Work
<1>32. ASSUME NEW r \in Runs, Mishap(r) PROVE RowsInv'
  BY <1>32, <1>11, <1>13, <1>21, <1>22 DEF Mishap
<1>33. CASE UserStep
  BY <1>33, <1>7, <1>8, <1>9, <1>25, <1>26, <1>27, <1>28, <1>29 DEF UserStep, MarkOn
<1> QED
  BY <1>1, <1>2, <1>3, <1>4, <1>5, <1>6, <1>23, <1>24, <1>31, <1>32, <1>33 DEF Next

-----------------------------------------------------------------------------
(* Invitations *)

\* A run is between the look for a message and its invitation.
Importing == {"count", "insert", "invite"}

\* A step that leaves the rows there are, records no invitation of the message,
\* and brings no run to an import.
LEMMA MissedUntouched ==
  ASSUME NEW m \in Mail, InviteMissed(m), RowsStay, m \notin invited',
         \A r \in Runs : pc'[r] \in Importing => pc[r] \in Importing /\ page'[r] = page[r]
  PROVE  InviteMissed(m)'
<1>1. Known(m)'
  BY KnownStays DEF InviteMissed
<1>2. ASSUME NEW r \in Runs, pc'[r] \in {"count", "insert", "invite"} PROVE Current(r)'[1] # m
  BY <1>2, SameMessage DEF InviteMissed, Importing
<1> QED
  BY <1>1, <1>2 DEF InviteMissed

\* Whatever finds the message known does not look at its invitation.
LEMMA NextMissed ==
  ASSUME TypeInv, NEW m \in Mail \ Embedded, InviteMissed(m), [Next]_vars
  PROVE  InviteMissed(m)'
<1> DEFINE Goal == InviteMissed(m)'
<1>0. m \in Mail /\ m \notin Embedded /\ Known(m) /\ m \notin invited
  BY DEF InviteMissed
<1> USE <1>0 DEF provider, account, queue, runs, mailbox, requests, history
<1> HIDE DEF Goal
<1>1. CASE Arrive
  BY <1>1, MissedUntouched DEF Arrive, Goal, Importing, RowsStay, TypeInv, TypeOK
<1>2. CASE RequestSync
  BY <1>2, MissedUntouched DEF RequestSync, Goal, Importing, RowsStay, TypeInv, TypeOK
<1>3. CASE ScanDispatch
  BY <1>3, MissedUntouched DEF ScanDispatch, RequestSync, Goal, Importing, RowsStay, TypeInv, TypeOK
<1>4. CASE DispatchLate
  BY <1>4, MissedUntouched DEF DispatchLate, Goal, Importing, RowsStay, TypeInv, TypeOK
<1>5. CASE PollIntervalPasses
  BY <1>5, MissedUntouched DEF PollIntervalPasses, Goal, Importing, RowsStay, TypeInv, TypeOK
<1>6. CASE SyncingGoesStale
  BY <1>6, MissedUntouched DEF SyncingGoesStale, Goal, Importing, RowsStay, TypeInv, TypeOK
<1>7. ASSUME NEW t \in Threads, NEW read \in BOOLEAN, MarkThread(t, read) PROVE Goal
  BY <1>7, MissedUntouched DEF MarkThread, Goal, Importing, RowsStay, TypeInv, TypeOK
<1>8. CASE WriteUnreadCount
  BY <1>8, MissedUntouched DEF WriteUnreadCount, Goal, Importing, RowsStay, TypeInv, TypeOK
<1>9. ASSUME NEW ok \in BOOLEAN, PushReadState(ok) PROVE Goal
  BY <1>9, MissedUntouched DEF PushReadState, Goal, Importing, RowsStay, TypeInv, TypeOK
<1>10. ASSUME NEW r \in Runs, NEW kind \in {"stable", "fresh"}, StartSync(r, kind) PROVE Goal
  BY <1>10, MissedUntouched DEF StartSync, Goto, Goal, Importing, RowsStay, TypeInv, TypeOK
<1>11. ASSUME NEW r \in Runs, NEW missing, Fetch(r, missing) PROVE Goal
  BY <1>11, MissedUntouched DEF Fetch, Goto, Goal, Importing, RowsStay, TypeInv, TypeOK
<1>12. ASSUME NEW r \in Runs, LookUp(r) PROVE Goal
  <2>1. UNCHANGED <<rows, page, invited>> /\ RowsStay
    BY <1>12 DEF LookUp, RowsStay
  <2>2. CASE Known(Current(r)[1])
    <3>1. pc' = [pc EXCEPT ![r] = "reconcile"]
      BY <1>12, <2>2 DEF LookUp, Found, Goto
    <3> QED
      BY <2>1, <3>1, MissedUntouched DEF Goal, Importing, TypeInv, TypeOK
  <2>3. CASE ~Known(Current(r)[1])
    <3>1. pc' = [pc EXCEPT ![r] = "count"] /\ Current(r)[1] # m
      BY <1>12, <2>3 DEF LookUp, Found, Goto
    <3>2. Known(m)'
      BY <2>1, KnownStays
    <3>3. ASSUME NEW q \in Runs, pc'[q] \in Importing PROVE Current(q)'[1] # m
      BY <2>1, <3>1, <3>3, SameMessage DEF InviteMissed, Importing, TypeInv, TypeOK
    <3> QED
      BY <2>1, <3>2, <3>3 DEF Goal, InviteMissed, Importing
  <2> QED
    BY <2>2, <2>3
<1>13. ASSUME NEW r \in Runs, NEW filed \in BOOLEAN, UpsertThread(r, filed) PROVE Goal
  BY <1>13, MissedUntouched DEF UpsertThread, Goto, Goal, Importing, RowsStay, TypeInv, TypeOK
<1>14. ASSUME NEW r \in Runs, InsertMessage(r) PROVE Goal
  <2>1. pc[r] = "insert" /\ Current(r)[1] # m /\ UNCHANGED invited
    BY <1>14 DEF InsertMessage, InviteMissed
  <2>2. rows' = [rows EXCEPT ![<<Current(r)[1], r>>] = [thread |-> thread[r], read |-> Current(r)[2]]]
    BY <1>14 DEF InsertMessage
  <2>3. \A i \in Ids : i[1] = m => rows'[i] = rows[i]
    BY <2>1, <2>2 DEF TypeInv, TypeOK
  <2>4. Known(m)'
    BY <2>3 DEF Known, RowsOf
  <2>5. \A q \in Runs : pc'[q] \in Importing => pc[q] \in Importing /\ page'[q] = page[q]
    <3>1. CASE Current(r)[1] \in Invites
      BY <1>14, <2>1, <3>1 DEF InsertMessage, Goto, Importing, TypeInv, TypeOK
    <3>2. CASE Current(r)[1] \notin Invites
      BY <1>14, <2>1, <3>2 DEF InsertMessage, Forward, Goto, Importing, TypeInv, TypeOK
    <3> QED
      BY <3>1, <3>2
  <2>6. ASSUME NEW q \in Runs, pc'[q] \in Importing PROVE Current(q)'[1] # m
    BY <2>5, <2>6, SameMessage DEF InviteMissed, Importing
  <2> QED
    BY <2>1, <2>4, <2>6 DEF Goal, InviteMissed, Importing
<1>15. ASSUME NEW r \in Runs, RecordInvite(r) PROVE Goal
  <2>1. Current(r)[1] # m
    BY <1>15 DEF RecordInvite, InviteMissed
  <2> QED
    BY <1>15, <2>1, MissedUntouched
    DEF RecordInvite, Forward, Goto, Goal, Importing, RowsStay, TypeInv, TypeOK
<1>16. ASSUME NEW r \in Runs, Reconcile(r) PROVE Goal
  <2>1. RowsStay
    BY <1>16, ReconcileKeepsRows
  <2> QED
    BY <1>16, <2>1, MissedUntouched DEF Reconcile, Goto, Goal, Importing, TypeInv, TypeOK
<1>17. ASSUME NEW r \in Runs, Recount(r) PROVE Goal
  BY <1>17, MissedUntouched DEF Recount, Goto, Goal, Importing, RowsStay, TypeInv, TypeOK
<1>18. ASSUME NEW r \in Runs, Rewrite(r) PROVE Goal
  BY <1>18, MissedUntouched DEF Rewrite, Forward, Goto, Goal, Importing, RowsStay, TypeInv, TypeOK
<1>19. ASSUME NEW r \in Runs, SaveCursor(r) PROVE Goal
  BY <1>19, MissedUntouched DEF SaveCursor, Goto, Goal, Importing, RowsStay, TypeInv, TypeOK
<1>20. ASSUME NEW r \in Runs, Continue(r) PROVE Goal
  BY <1>20, MissedUntouched DEF Continue, Reset, Goal, Importing, RowsStay, TypeInv, TypeOK
<1>21. ASSUME NEW r \in Runs, NEW told \in BOOLEAN, NEW again \in BOOLEAN, Fail(r, told, again)
       PROVE  Goal
  BY <1>21, MissedUntouched DEF Fail, GiveBack, Reset, Goal, Importing, RowsStay, TypeInv, TypeOK
<1>22. ASSUME NEW r \in Runs, LoseLock(r) PROVE Goal
  BY <1>22, MissedUntouched DEF LoseLock, GiveBack, Goal, Importing, RowsStay, TypeInv, TypeOK
<1>23. CASE UNCHANGED vars
  BY <1>23, MissedUntouched DEF vars, Goal, Importing, RowsStay, TypeInv, TypeOK
<1>24. CASE Revoke
  BY <1>24, MissedUntouched DEF Revoke, Goal, Importing, RowsStay, TypeInv, TypeOK
<1>25. CASE MarkMessages
  <2>1. RowsStay
    BY <1>25, MarkKeepsRows
  <2> QED
    BY <1>25, <2>1, MissedUntouched DEF MarkMessages, Goal, Importing, TypeInv, TypeOK
<1>26. CASE LinkCalendar
  BY <1>26, MissedUntouched DEF LinkCalendar, Goal, Importing, RowsStay, TypeInv, TypeOK
<1>27. ASSUME NEW n \in Mail, OpenMessage(n) PROVE Goal
  BY <1>27, MissedUntouched DEF OpenMessage, Goal, Importing, RowsStay, TypeInv, TypeOK
<1>28. CASE AskReconnect
  BY <1>28, MissedUntouched DEF AskReconnect, Goal, Importing, RowsStay, TypeInv, TypeOK
<1>29. ASSUME NEW enqueued \in BOOLEAN, Reconnect(enqueued) PROVE Goal
  BY <1>29, MissedUntouched DEF Reconnect, Goal, Importing, RowsStay, TypeInv, TypeOK
<1>30. ASSUME NEW r \in Runs, StopForReconnect(r) PROVE Goal
  BY <1>30, MissedUntouched DEF StopForReconnect, Reset, Goal, Importing, RowsStay, TypeInv, TypeOK
<1> QED
  BY <1>1, <1>2, <1>3, <1>4, <1>5, <1>6, <1>7, <1>8, <1>9, <1>10, <1>11, <1>12, <1>13, <1>14,
     <1>15, <1>16, <1>17, <1>18, <1>19, <1>20, <1>21, <1>22, <1>23, <1>24, <1>25, <1>26, <1>27,
     <1>28, <1>29, <1>30
  DEF Goal, Next, UserStep, MarkOn, Work, Mishap

-----------------------------------------------------------------------------
(* The cursor *)

\* The places of a run that has a page, and of one whose message has a row.
AtRow  == {"invite", "reconcile", "recount", "rewrite"}
AtPage == AtRow \union {"message", "count", "insert"}

\* The run has the message on its page.
Reads(r, m) == pc[r] \in AtPage /\ \E p \in page[r] : p[1] = m

\* What is known or on a page has arrived; a run that is past the insert of a
\* message finds it known.
PagesInv ==
  /\ \A m \in Mail : Known(m) => m <= arrived
  /\ \A r \in Runs : \A p \in page[r] : p[1] <= arrived
  /\ \A r \in Runs : pc[r] \in AtRow => Known(Current(r)[1])

Older(m, n) == m < n /\ SameFolder(m, n)

\* A run fetches at the cursor.  Nothing that is older than a message of its page
\* lies behind the cursor, before or after it moves on; and what will then be
\* behind it, older than something known, is known, withheld, or on the page.
CursorInv ==
  Provider = "gmail" /\ ~raced =>
    /\ \A m, n \in Mail :
         Older(m, n) /\ Known(n) /\ Passed(cursor, m) => Known(m) \/ m \in withheld
    /\ \A r \in Runs : pc[r] = "fetch" => at[r] = cursor
    /\ \A r \in Runs, m, n \in Mail : pc[r] \in AtPage /\ Older(m, n) =>
         /\ Reads(r, n) => ~Passed(cursor, m) /\ ~Passed(Advance(at[r]), m)
         /\ Known(n) /\ Passed(Advance(at[r]), m) => Known(m) \/ m \in withheld \/ Reads(r, m)

SkipInv == PagesInv /\ CursorInv

\* What all steps but two do to pages, rows and cursor: what becomes known was on
\* a page, what leaves a page is known, and nobody's cursor moves.
Onward ==
  /\ cursor' = cursor /\ arrived <= arrived' /\ withheld \subseteq withheld' /\ (raced => raced')
  /\ \A m \in Mail : /\ Known(m) => Known(m)'
                     /\ Known(m)' => Known(m) \/ \E r \in Runs : Reads(r, m)
  /\ \A r \in Runs :
       /\ page'[r] \subseteq page[r]
       /\ pc'[r] = "fetch" => at'[r] = cursor \/ (pc[r] = "fetch" /\ at'[r] = at[r])
       /\ pc'[r] \in AtPage => /\ pc[r] \in AtPage /\ at'[r] = at[r]
                               /\ \A p \in page[r] \ page'[r] : Known(p[1])'
       /\ pc'[r] \in AtRow => page'[r] = page[r] /\ (pc[r] \in AtRow \/ Known(Current(r)[1])')

\* Mail is numbered, and pages hold mail.
LEMMA PageTypes ==
  ASSUME TypeInv
  PROVE  /\ arrived \in Nat /\ Mail \subseteq Nat
         /\ \A r \in Runs : \A p \in page[r] : p[1] \in Mail
BY MailboxAssumption DEF TypeInv, TypeOK, Mail

\* Unless runs overlap, a run that has a page is the only one.
LEMMA OneReader ==
  ASSUME AloneInv, ~raced, NEW q \in Runs, NEW r \in Runs, pc[q] \in AtPage, pc[r] \in AtPage
  PROVE  q = r
BY DEF AloneInv, AtPage, AtRow

\* Steps of that kind keep the invariant.
LEMMA OnwardKeeps ==
  ASSUME TypeInv, TypeInv', AloneInv, SkipInv, Onward
  PROVE  SkipInv'
<1>1. PagesInv'
  <2>1. ASSUME NEW m \in Mail, Known(m)' PROVE m <= arrived'
    <3>1. m <= arrived
      BY <2>1 DEF SkipInv, PagesInv, Onward, Reads
    <3> QED
      BY <3>1, PageTypes DEF Onward, TypeInv, TypeOK
  <2>2. ASSUME NEW r \in Runs, NEW p \in page'[r] PROVE p[1] <= arrived'
    <3>1. p[1] <= arrived /\ p[1] \in Mail
      BY <2>2, PageTypes DEF SkipInv, PagesInv, Onward
    <3> QED
      BY <3>1, PageTypes DEF Onward, TypeInv, TypeOK
  <2>3. ASSUME NEW r \in Runs, pc'[r] \in AtRow PROVE Known(Current(r)[1])'
    <3>1. page'[r] = page[r] /\ (pc[r] \in AtRow \/ Known(Current(r)[1])')
      BY <2>3 DEF Onward
    <3>2. CASE pc[r] \in AtRow
      <4>1. Current(r)' = Current(r) /\ Known(Current(r)[1]) /\ Current(r)[1] \in Mail
        BY <3>1, <3>2, SameMessage, CurrentType DEF SkipInv, PagesInv, AtRow, AtThread
      <4>2. PICK m \in Mail : m = Current(r)[1]
        BY <4>1
      <4>3. Known(m)'
        BY <4>1, <4>2 DEF Onward
      <4> QED
        BY <4>1, <4>2, <4>3 DEF Known, RowsOf
    <3> QED
      BY <3>1, <3>2
  <2> QED
    BY <2>1, <2>2, <2>3 DEF PagesInv
<1>2. CursorInv'
  <2> SUFFICES ASSUME Provider = "gmail", ~raced' PROVE CursorInv'
    BY DEF CursorInv
  <2>1. ~raced
    BY DEF Onward
  <2>2. \A r \in Runs, m \in Mail : Reads(r, m)' => Reads(r, m) /\ pc[r] \in AtPage
    BY DEF Onward, Reads
  <2>3. \A m : Passed(cursor, m)' <=> Passed(cursor, m)
    BY DEF Onward, Passed
  <2>4. \A r \in Runs : \A m : pc'[r] \in AtPage => (Passed(Advance(at[r]), m)' <=> Passed(Advance(at[r]), m))
    BY DEF Onward, Passed, Advance
  <2>5. \A m, n : Older(m, n)' <=> Older(m, n)
    BY DEF Older, SameFolder
  <2>6. ASSUME NEW m \in Mail, NEW n \in Mail, Older(m, n), Known(n)', Passed(cursor, m)
        PROVE  Known(m)' \/ m \in withheld'
    <3>1. Known(n)
      BY <2>1, <2>6 DEF Onward, SkipInv, CursorInv, Reads
    <3> QED
      BY <2>1, <2>6, <3>1 DEF Onward, SkipInv, CursorInv
  <2>7. ASSUME NEW r \in Runs, pc'[r] = "fetch" PROVE at'[r] = cursor'
    BY <2>1, <2>7 DEF Onward, SkipInv, CursorInv
  <2>8. ASSUME NEW r \in Runs, NEW m \in Mail, NEW n \in Mail, pc'[r] \in AtPage, Older(m, n), Reads(r, n)'
        PROVE  ~Passed(cursor, m) /\ ~Passed(Advance(at[r]), m)
    BY <2>1, <2>2, <2>8 DEF SkipInv, CursorInv
  <2>9. ASSUME NEW r \in Runs, NEW m \in Mail, NEW n \in Mail, pc'[r] \in AtPage, Older(m, n),
               Known(n)', Passed(Advance(at[r]), m)
        PROVE  Known(m)' \/ m \in withheld' \/ Reads(r, m)'
    <3>1. pc[r] \in AtPage
      BY <2>9 DEF Onward
    <3>2. Known(n)
      <4>1. ASSUME NEW q \in Runs, Reads(q, n) PROVE FALSE
        <5>1. q = r
          BY <2>1, <3>1, <4>1, OneReader DEF Reads
        <5> QED
          BY <2>1, <2>9, <3>1, <4>1, <5>1 DEF SkipInv, CursorInv
      <4> QED
        BY <2>9, <4>1 DEF Onward
    <3>3. Known(m) \/ m \in withheld \/ Reads(r, m)
      BY <2>1, <2>9, <3>1, <3>2 DEF SkipInv, CursorInv
    <3>4. ASSUME Reads(r, m) PROVE Known(m)' \/ Reads(r, m)'
      <4>1. PICK p \in page[r] : p[1] = m
        BY <3>4 DEF Reads
      <4>2. p \in page'[r] \/ Known(p[1])'
        BY <2>9, <4>1 DEF Onward
      <4>3. Known(p[1])' => Known(m)'
        BY <4>1 DEF Known, RowsOf
      <4> QED
        BY <2>9, <4>1, <4>2, <4>3 DEF Reads
    <3> QED
      BY <3>3, <3>4 DEF Onward
  <2> QED
    BY <2>3, <2>4, <2>5, <2>6, <2>7, <2>8, <2>9 DEF CursorInv
<1> QED
  BY <1>1, <1>2 DEF SkipInv

\* What one run does in such a step when no row comes or goes: nothing, or it ends,
\* or starts at the cursor, or goes on at its message, or leaves it with a row.
RunOnward(r) ==
  \/ pc'[r] = pc[r] /\ page'[r] = page[r] /\ at'[r] = at[r]
  \/ pc'[r] = "idle" /\ page'[r] = {}
  \/ pc'[r] = "fetch" /\ page'[r] = page[r] /\ at'[r] = cursor
  \/ /\ pc[r] \in AtPage /\ pc'[r] \in AtPage /\ page'[r] = page[r] /\ at'[r] = at[r]
     /\ pc'[r] \in AtRow => pc[r] \in AtRow \/ Known(Current(r)[1])
  \/ /\ pc[r] \in AtRow /\ pc'[r] = "message" /\ at'[r] = at[r]
     /\ page'[r] = page[r] \ {Current(r)}

\* Such steps of all runs are a step of that kind.
LEMMA OnwardIf ==
  ASSUME SkipInv, RowsStay, cursor' = cursor, arrived <= arrived', withheld \subseteq withheld',
         raced => raced', \A r \in Runs : RunOnward(r)
  PROVE  Onward
<1>1. \A m : Known(m)' <=> Known(m)
  BY KnownStays
<1>2. ASSUME NEW r \in Runs
      PROVE  /\ page'[r] \subseteq page[r]
             /\ pc'[r] = "fetch" => at'[r] = cursor \/ (pc[r] = "fetch" /\ at'[r] = at[r])
             /\ pc'[r] \in AtPage => /\ pc[r] \in AtPage /\ at'[r] = at[r]
                                     /\ \A p \in page[r] \ page'[r] : Known(p[1])'
  <2>1. pc[r] \in AtRow => Known(Current(r)[1])
    BY DEF SkipInv, PagesInv
  <2> QED
    BY <1>1, <2>1 DEF RunOnward, AtPage, AtRow
<1>3. ASSUME NEW r \in Runs, pc'[r] \in AtRow
      PROVE  page'[r] = page[r] /\ (pc[r] \in AtRow \/ Known(Current(r)[1])')
  <2>1. page'[r] = page[r] /\ (pc[r] \in AtRow \/ Known(Current(r)[1]))
    BY <1>3 DEF RunOnward, AtPage, AtRow
  <2>2. Current(r)' = Current(r)
    BY <2>1, SameMessage
  <2>3. Known(Current(r)[1]) => Known(Current(r)[1])'
    BY <2>2 DEF RowsStay, Known, RowsOf
  <2> QED
    BY <2>1, <2>3
<1> QED
  BY <1>1, <1>2, <1>3 DEF Onward

\* The insert makes the message of the run known, which was on its page.
LEMMA InsertOnward ==
  ASSUME TypeInv, SkipInv, NEW r \in Runs, InsertMessage(r)
  PROVE  Onward
<1> DEFINE m == Current(r)[1]
<1>1. Current(r) \in page[r] /\ m \in Mail /\ pc[r] = "insert" /\ thread[r] \in Ids
  BY CurrentType DEF InsertMessage, TypeInv, RunsFit, AtThread
<1>2. rows' = [rows EXCEPT ![<<m, r>>] = [thread |-> thread[r], read |-> Current(r)[2]]]
  BY DEF InsertMessage
<1>3. <<m, r>> \in Ids /\ rows'[<<m, r>>] # NoRow
  <2>1. Current(r)[2] \in BOOLEAN
    BY <1>1, CurrentType DEF AtThread
  <2>2. <<m, r>> \in Ids
    BY <1>1 DEF Ids
  <2> QED
    BY <1>1, <1>2, <2>1, <2>2, RowIsThere DEF TypeInv, TypeOK
<1>4. \A i \in Ids : i # <<m, r>> => rows'[i] = rows[i]
  BY <1>2 DEF TypeInv, TypeOK
<1>5. \A n \in Mail : /\ Known(n) => Known(n)'
                      /\ Known(n)' => Known(n) \/ n = m
  BY <1>3, <1>4 DEF Known, RowsOf
<1>6. PICK k \in Mail : k = m
  BY <1>1
<1>7. Known(k)'
  BY <1>3, <1>6 DEF Known, RowsOf
<1>8. Reads(r, k)
  BY <1>1, <1>6 DEF Reads, AtPage
<1>9. ASSUME NEW q \in Runs, q # r PROVE pc'[q] = pc[q] /\ page'[q] = page[q]
  <2>1. CASE m \in Invites
    BY <1>9, <2>1 DEF InsertMessage, Goto, TypeInv, TypeOK
  <2>2. CASE m \notin Invites
    BY <1>9, <2>2 DEF InsertMessage, Forward, Goto, TypeInv, TypeOK
  <2> QED
    BY <2>1, <2>2
<1>10. \/ pc'[r] = "invite" /\ page'[r] = page[r]
       \/ pc'[r] = "message" /\ page'[r] = page[r] \ {Current(r)}
  <2>1. CASE m \in Invites
    BY <2>1 DEF InsertMessage, Goto, TypeInv, TypeOK
  <2>2. CASE m \notin Invites
    BY <2>2 DEF InsertMessage, Forward, Goto, TypeInv, TypeOK
  <2> QED
    BY <2>1, <2>2
<1>11. /\ cursor' = cursor /\ arrived' = arrived /\ withheld' = withheld /\ raced' = raced
       /\ at' = at
  BY DEF InsertMessage, account, provider, history
<1>12. arrived <= arrived'
  BY <1>11, PageTypes
<1>13. \A n \in Mail : /\ Known(n) => Known(n)'
                       /\ Known(n)' => Known(n) \/ \E q \in Runs : Reads(q, n)
  BY <1>5, <1>6, <1>8
<1>14. ASSUME NEW q \in Runs, pc'[q] \in AtRow
       PROVE  page'[q] = page[q] /\ (pc[q] \in AtRow \/ Known(Current(q)[1])')
  <2>1. CASE q # r
    BY <1>9, <1>14, <2>1
  <2>2. CASE q = r
    <3>1. page'[r] = page[r]
      BY <1>10, <1>14, <2>2 DEF AtRow
    <3>2. Current(r)' = Current(r)
      BY <3>1, SameMessage
    <3>3. Known(Current(r)[1])'
      BY <1>6, <1>7, <3>2 DEF Known, RowsOf
    <3> QED
      BY <2>2, <3>1, <3>3
  <2> QED
    BY <2>1, <2>2
<1>15. ASSUME NEW q \in Runs
       PROVE  /\ page'[q] \subseteq page[q]
              /\ pc'[q] = "fetch" => pc[q] = "fetch" /\ at'[q] = at[q]
              /\ pc'[q] \in AtPage => /\ pc[q] \in AtPage /\ at'[q] = at[q]
                                      /\ \A p \in page[q] \ page'[q] : Known(p[1])'
  <2>1. CASE q # r
    BY <1>9, <1>11, <2>1
  <2>2. CASE q = r
    <3>1. \A p \in page[r] \ page'[r] : p = Current(r)
      BY <1>10
    <3>2. \A p \in page[r] \ page'[r] : Known(p[1])'
      BY <1>6, <1>7, <3>1 DEF Known, RowsOf
    <3> QED
      BY <1>1, <1>10, <1>11, <2>2, <3>2 DEF AtPage, AtRow
  <2> QED
    BY <2>1, <2>2
<1> QED
  BY <1>11, <1>12, <1>13, <1>14, <1>15 DEF Onward

\* All steps are of that kind but those that fetch a page or save the cursor.
LEMMA OnwardSteps ==
  ASSUME TypeInv, SkipInv, [Next]_vars
  PROVE  \/ Onward
         \/ \E r \in Runs : Fetch(r, {}) \/ Fetch(r, Listed(at[r])) \/ SaveCursor(r)
<1> USE PageTypes, OnwardIf DEF provider, account, queue, runs, mailbox, requests, history
<1>1. CASE Arrive
  BY <1>1 DEF Arrive, RowsStay, RunOnward
<1>2. CASE RequestSync
  BY <1>2 DEF RequestSync, RowsStay, RunOnward
<1>3. CASE ScanDispatch
  BY <1>3 DEF ScanDispatch, RequestSync, RowsStay, RunOnward
<1>4. CASE DispatchLate
  BY <1>4 DEF DispatchLate, RowsStay, RunOnward
<1>5. CASE PollIntervalPasses
  BY <1>5 DEF PollIntervalPasses, RowsStay, RunOnward
<1>6. CASE SyncingGoesStale
  BY <1>6 DEF SyncingGoesStale, RowsStay, RunOnward
<1>7. ASSUME NEW t \in Threads, NEW read \in BOOLEAN, MarkThread(t, read) PROVE Onward
  BY <1>7 DEF MarkThread, RowsStay, RunOnward
<1>8. CASE WriteUnreadCount
  BY <1>8 DEF WriteUnreadCount, RowsStay, RunOnward
<1>9. ASSUME NEW ok \in BOOLEAN, PushReadState(ok) PROVE Onward
  BY <1>9 DEF PushReadState, RowsStay, RunOnward
<1>10. ASSUME NEW r \in Runs, NEW kind \in {"stable", "fresh"}, StartSync(r, kind) PROVE Onward
  BY <1>10 DEF StartSync, Goto, RowsStay, RunOnward, TypeInv, TypeOK
<1>11. ASSUME NEW r \in Runs, LookUp(r) PROVE Onward
  <2>1. pc' = [pc EXCEPT ![r] = "count"] \/ (Known(Current(r)[1]) /\ pc' = [pc EXCEPT ![r] = "reconcile"])
    BY <1>11 DEF LookUp, Found, Goto
  <2>2. /\ pc[r] = "message"
        /\ UNCHANGED <<arrived, cursor, at, page, rows, raced, withheld>>
    BY <1>11 DEF LookUp
  <2>3. \A q \in Runs : RunOnward(q)
    BY <2>1, <2>2 DEF RunOnward, AtPage, AtRow, TypeInv, TypeOK
  <2> QED
    BY <2>2, <2>3 DEF RowsStay
<1>12. ASSUME NEW r \in Runs, NEW filed \in BOOLEAN, UpsertThread(r, filed) PROVE Onward
  BY <1>12 DEF UpsertThread, Goto, RowsStay, RunOnward, AtPage, AtRow, TypeInv, TypeOK
<1>13. ASSUME NEW r \in Runs, InsertMessage(r) PROVE Onward
  BY <1>13, InsertOnward
<1>14. ASSUME NEW r \in Runs, RecordInvite(r) PROVE Onward
  BY <1>14 DEF RecordInvite, Forward, Goto, RowsStay, RunOnward, AtPage, AtRow, TypeInv, TypeOK
<1>15. ASSUME NEW r \in Runs, Reconcile(r) PROVE Onward
  <2>1. RowsStay
    BY <1>15, ReconcileKeepsRows
  <2> QED
    BY <1>15, <2>1 DEF Reconcile, Goto, RunOnward, AtPage, AtRow, TypeInv, TypeOK
<1>16. ASSUME NEW r \in Runs, Recount(r) PROVE Onward
  BY <1>16 DEF Recount, Goto, RowsStay, RunOnward, AtPage, AtRow, TypeInv, TypeOK
<1>17. ASSUME NEW r \in Runs, Rewrite(r) PROVE Onward
  BY <1>17 DEF Rewrite, Forward, Goto, RowsStay, RunOnward, AtPage, AtRow, TypeInv, TypeOK
<1>18. ASSUME NEW r \in Runs, Continue(r) PROVE Onward
  BY <1>18 DEF Continue, Reset, RowsStay, RunOnward, TypeInv, TypeOK
<1>19. ASSUME NEW r \in Runs, NEW told \in BOOLEAN, NEW again \in BOOLEAN, Fail(r, told, again)
       PROVE  Onward
  BY <1>19 DEF Fail, Reset, RowsStay, RunOnward, TypeInv, TypeOK
<1>20. ASSUME NEW r \in Runs, LoseLock(r) PROVE Onward
  BY <1>20 DEF LoseLock, RowsStay, RunOnward, TypeInv, TypeOK
<1>21. CASE UNCHANGED vars
  BY <1>21 DEF vars, RowsStay, RunOnward
<1>24. CASE Revoke
  BY <1>24 DEF Revoke, RowsStay, RunOnward
<1>25. CASE MarkMessages
  <2>1. RowsStay
    BY <1>25, MarkKeepsRows
  <2> QED
    BY <1>25, <2>1 DEF MarkMessages, RunOnward
<1>26. CASE LinkCalendar
  BY <1>26 DEF LinkCalendar, RowsStay, RunOnward
<1>27. ASSUME NEW m \in Mail, OpenMessage(m) PROVE Onward
  BY <1>27 DEF OpenMessage, RowsStay, RunOnward
<1>28. CASE AskReconnect
  BY <1>28 DEF AskReconnect, RowsStay, RunOnward
<1>29. ASSUME NEW enqueued \in BOOLEAN, Reconnect(enqueued) PROVE Onward
  BY <1>29 DEF Reconnect, RowsStay, RunOnward
<1>30. ASSUME NEW r \in Runs, StopForReconnect(r) PROVE Onward
  BY <1>30 DEF StopForReconnect, Reset, RowsStay, RunOnward, TypeInv, TypeOK
<1> QED
  BY <1>1, <1>2, <1>3, <1>4, <1>5, <1>6, <1>7, <1>8, <1>9, <1>10, <1>11, <1>12, <1>13, <1>14,
     <1>15, <1>16, <1>17, <1>18, <1>19, <1>20, <1>21, <1>24, <1>25, <1>26, <1>27, <1>28, <1>29, <1>30
  DEF Next, UserStep, MarkOn, Work, Mishap

\* A set that does not have more than one element has no two.
LEMMA AtMostOne ==
  ASSUME NEW S, IsFiniteSet(S), ~(Cardinality(S) > 1), NEW x \in S, NEW y \in S
  PROVE  x = y
<1>1. Cardinality(S) = 0 \/ Cardinality(S) = 1
  BY FS_CardinalityType
<1>2. S = {} \/ \E e : S = {e}
  BY <1>1, FS_EmptySet, FS_Singleton
<1> QED
  BY <1>2

\* Gmail's page is the newest message that remains.
LEMMA GmailLists ==
  ASSUME TypeOK, Provider = "gmail", NEW s \in FolderState
  PROVE  /\ IsFiniteSet(Remaining(s))
         /\ Remaining(s) = {m \in Mail : /\ m <= arrived /\ (m \in Sent) = (s.folder = "sent")
                                         /\ s.page = 0 \/ m < s.page}
         /\ Remaining(s) = {} => Listed(s) = {}
         /\ Remaining(s) # {} =>
              /\ Max(Remaining(s)) \in Remaining(s) /\ \A m \in Remaining(s) : m <= Max(Remaining(s))
              /\ Listed(s) = {Max(Remaining(s))}
<1>1. MaxMail \in Nat /\ arrived \in 0..MaxMail
  BY MailboxAssumption DEF TypeOK
<1>2. Remaining(s) = {m \in Mail : /\ m <= arrived /\ (m \in Sent) = (s.folder = "sent")
                                   /\ s.page = 0 \/ m < s.page}
  BY <1>1 DEF Remaining, InFolder, Mail
<1>3. Remaining(s) \subseteq Mail /\ Remaining(s) \subseteq 0..MaxMail
  BY <1>1, <1>2 DEF Mail
<1>4. IsFiniteSet(Remaining(s))
  <2>1. IsFiniteSet(0..MaxMail)
    BY <1>1, FS_Interval
  <2> QED
    BY <1>3, <2>1, FS_Subset
<1>5. Remaining(s) # {} =>
        Max(Remaining(s)) \in Remaining(s) /\ \A m \in Remaining(s) : Max(Remaining(s)) >= m
  BY <1>1, <1>3, MaxExists
<1>6. Remaining(s) # {} => \A m \in Remaining(s) : m <= Max(Remaining(s))
  <2> SUFFICES ASSUME Remaining(s) # {}, NEW m \in Remaining(s) PROVE m <= Max(Remaining(s))
    OBVIOUS
  <2>1. m \in Nat /\ Max(Remaining(s)) \in Nat
    BY <1>1, <1>3, <1>5 DEF Mail
  <2> QED
    BY <1>5, <2>1
<1> QED
  BY <1>2, <1>4, <1>5, <1>6 DEF Listed

\* Where a run that fetched at s saves the cursor.
After(s) == Advance([s EXCEPT !.page = PageCursor(s)])

\* Gmail's page and what comes after it meet: nothing older than the page lies
\* behind either, and what is first behind the latter is on the page.
LEMMA PagesMeet ==
  ASSUME TypeOK, Provider = "gmail", NEW s \in FolderState, NEW m \in Mail
  PROVE  /\ \A n \in Listed(s) : Older(m, n) => ~Passed(s, m) /\ ~Passed(After(s), m)
         /\ m <= arrived /\ ~Passed(s, m) /\ Passed(After(s), m) => m \in Listed(s)
<1> DEFINE R == Remaining(s)
<1>1. /\ IsFiniteSet(R)
      /\ R = {k \in Mail : /\ k <= arrived /\ (k \in Sent) = (s.folder = "sent")
                           /\ s.page = 0 \/ k < s.page}
      /\ R = {} => Listed(s) = {}
      /\ R # {} => Max(R) \in R /\ (\A k \in R : k <= Max(R)) /\ Listed(s) = {Max(R)}
  BY GmailLists
<1>2. s.folder \in Folder /\ s.page \in Nat /\ Mail \subseteq Nat \ {0} /\ arrived \in Nat
  BY MailboxAssumption DEF FolderState, Mail, TypeOK
<1>3. [s EXCEPT !.page = PageCursor(s)] = [folder |-> s.folder, page |-> PageCursor(s)]
  BY DEF FolderState
<1> HIDE DEF R
<1>4. m <= arrived /\ ~Passed(s, m) => m \in R
  BY <1>1, <1>2 DEF Passed
<1>5. ASSUME NEW n \in Listed(s), Older(m, n)
      PROVE  n \in R /\ m \in R /\ m < n /\ ~Passed(s, m) /\ n = Max(R)
  <2>1. n \in R /\ n = Max(R)
    BY <1>1, <1>5
  <2>2. m < n /\ (m \in Sent) = (s.folder = "sent") /\ (s.page = 0 \/ m < s.page) /\ m <= arrived
    BY <1>1, <1>2, <1>5, <2>1 DEF Older, SameFolder
  <2> QED
    BY <1>1, <1>2, <2>1, <2>2 DEF Passed
<1>6. CASE Cardinality(R) > 1
  <2>1. R # {} /\ PageCursor(s) = Max(R)
    BY <1>6, FS_EmptySet DEF PageCursor, R
  <2>2. After(s) = [folder |-> s.folder, page |-> Max(R)] /\ Max(R) \in Nat \ {0}
    BY <1>1, <1>2, <1>3, <2>1 DEF After, Advance
  <2>3. \A n \in Listed(s) : Older(m, n) => ~Passed(s, m) /\ ~Passed(After(s), m)
    BY <1>1, <1>2, <1>5, <2>2 DEF Passed
  <2>4. m \in R /\ Passed(After(s), m) => m \in Listed(s)
    BY <1>1, <1>2, <2>1, <2>2 DEF Passed
  <2> QED
    BY <1>4, <2>3, <2>4
<1>7. CASE ~(Cardinality(R) > 1)
  <2>1. \A x, y \in R : x = y
    BY <1>1, <1>7, AtMostOne
  <2>2. \A n \in Listed(s) : ~Older(m, n)
    BY <1>2, <1>5, <2>1
  <2>3. m \in R => m \in Listed(s)
    BY <1>1, <2>1
  <2> QED
    BY <1>4, <2>2, <2>3
<1> QED
  BY <1>6, <1>7

\* A fetch at the cursor leaves nothing between its page and where it goes on.
LEMMA FetchKeeps ==
  ASSUME TypeInv, TypeInv', AloneInv, SkipInv, NEW r \in Runs, NEW missing \in {{}, Listed(at[r])},
         Fetch(r, missing)
  PROVE  SkipInv'
<1>1. /\ pc[r] = "fetch" /\ pc' = [pc EXCEPT ![r] = "message"]
      /\ page' = [page EXCEPT ![r] = {<<m, m \in remoteRead>> : m \in Listed(at[r]) \ missing}]
      /\ at' = [at EXCEPT ![r].page = PageCursor(at[r])]
      /\ withheld' = withheld \union missing
      /\ UNCHANGED <<arrived, cursor, rows, raced>>
  BY DEF Fetch, Goto, provider, account, mailbox
<1>2. \A m : Known(m)' <=> Known(m)
  BY <1>1, KnownStays DEF RowsStay
<1>3. Listed(at[r]) \subseteq Remaining(at[r]) /\ \A m \in Remaining(at[r]) : m <= arrived
  <2>1. Remaining(at[r]) \subseteq 0..MaxMail /\ MaxMail \in Nat
        /\ \A m \in Remaining(at[r]) : m <= arrived
    BY MailboxAssumption DEF Remaining, InFolder, Mail, TypeInv, TypeOK
  <2>2. Remaining(at[r]) # {} => Max(Remaining(at[r])) \in Remaining(at[r])
    BY <2>1, MaxExists
  <2> QED
    BY <2>1, <2>2 DEF Listed
<1>4. \A q \in Runs : q # r => pc'[q] = pc[q] /\ page'[q] = page[q]
  BY <1>1 DEF TypeInv, TypeOK
<1>5. page'[r] = {<<m, m \in remoteRead>> : m \in Listed(at[r]) \ missing} /\ pc'[r] = "message"
  BY <1>1 DEF TypeInv, TypeOK
<1>6. PagesInv'
  <2>1. \A m \in Mail : Known(m)' => m <= arrived'
    BY <1>1, <1>2 DEF SkipInv, PagesInv
  <2>2. \A q \in Runs : \A p \in page'[q] : p[1] <= arrived'
    BY <1>1, <1>3, <1>4, <1>5 DEF SkipInv, PagesInv
  <2>3. ASSUME NEW q \in Runs, pc'[q] \in AtRow PROVE Known(Current(q)[1])'
    <3>1. q # r /\ pc[q] \in AtRow
      BY <1>4, <1>5, <2>3 DEF AtRow
    <3>2. Current(q)' = Current(q) /\ Known(Current(q)[1])
      BY <1>4, <3>1, SameMessage DEF SkipInv, PagesInv
    <3> QED
      BY <1>1, <3>2 DEF Known, RowsOf
  <2> QED
    BY <2>1, <2>2, <2>3 DEF PagesInv
<1>7. CursorInv'
  <2> SUFFICES ASSUME Provider = "gmail", ~raced' PROVE CursorInv'
    BY DEF CursorInv
  <2>1. ~raced /\ at[r] = cursor /\ cursor \in FolderState
    BY <1>1 DEF SkipInv, CursorInv, TypeInv, TypeOK
  <2>2. Advance(at'[r]) = After(cursor)
    BY <1>1, <2>1 DEF After, TypeInv, TypeOK
  <2>3. \A q \in Runs : q # r => pc'[q] = "idle"
    BY <1>1, <1>4, <2>1 DEF AloneInv
  <2>4. /\ \A m : Passed(cursor, m)' <=> Passed(cursor, m)
        /\ \A m, n : Older(m, n)' <=> Older(m, n)
        /\ \A m : Passed(Advance(at[r]), m)' <=> Passed(After(cursor), m)
    <3>1. cursor' = cursor /\ Advance(at[r])' = After(cursor)
      BY <1>1, <2>2 DEF Advance
    <3> QED
      BY <3>1 DEF Passed, Older, SameFolder
  <2>5. \A m \in Mail : Reads(r, m)' <=> m \in Listed(cursor) \ missing
    <3>1. ASSUME NEW m \in Mail, NEW p \in page'[r], p[1] = m PROVE m \in Listed(cursor) \ missing
      BY <1>5, <2>1, <3>1
    <3>2. ASSUME NEW m \in Listed(cursor) \ missing PROVE \E p \in page'[r] : p[1] = m
      <4>1. <<m, m \in remoteRead>> \in page'[r]
        BY <1>5, <2>1, <3>2
      <4> QED
        BY <4>1
    <3> QED
      BY <1>5, <3>1, <3>2 DEF Reads, AtPage
  <2>6. ASSUME NEW m \in Mail, NEW n \in Mail, Older(m, n), Known(n), Passed(cursor, m)
        PROVE  Known(m)' \/ m \in withheld'
    BY <1>1, <1>2, <2>1, <2>6 DEF SkipInv, CursorInv
  <2>7. ASSUME NEW m \in Mail, NEW n \in Mail, Older(m, n), Reads(r, n)'
        PROVE  ~Passed(cursor, m) /\ ~Passed(After(cursor), m)
    BY <2>1, <2>5, <2>7, PagesMeet DEF TypeInv
  <2>8. ASSUME NEW m \in Mail, NEW n \in Mail, Older(m, n), Known(n), Passed(After(cursor), m)
        PROVE  Known(m)' \/ m \in withheld' \/ Reads(r, m)'
    <3>1. CASE Passed(cursor, m)
      BY <2>6, <2>8, <3>1
    <3>2. CASE ~Passed(cursor, m)
      <4>1. m <= arrived
        BY <2>8, PageTypes DEF SkipInv, PagesInv, Older
      <4>2. m \in Listed(cursor)
        BY <2>1, <2>8, <3>2, <4>1, PagesMeet DEF TypeInv
      <4> QED
        BY <1>1, <2>1, <2>5, <4>2
    <3> QED
      BY <3>1, <3>2
  <2>9. \A q \in Runs : /\ pc'[q] # "fetch"
                        /\ pc'[q] \in AtPage => q = r
    BY <1>5, <2>3 DEF AtPage, AtRow
  <2> QED
    BY <1>2, <2>4, <2>6, <2>7, <2>8, <2>9 DEF CursorInv
<1> QED
  BY <1>6, <1>7 DEF SkipInv

\* The cursor is saved when the page is done.
LEMMA SaveKeeps ==
  ASSUME TypeInv, AloneInv, SkipInv, NEW r \in Runs, SaveCursor(r)
  PROVE  SkipInv'
<1>1. /\ pc[r] = "message" /\ page[r] = {} /\ cursor' = Advance(at[r])
      /\ pc' = [pc EXCEPT ![r] = "continue"]
      /\ UNCHANGED <<arrived, page, rows, raced, withheld>>
  BY DEF SaveCursor, Goto, provider, mailbox, history
<1>2. \A m : Known(m)' <=> Known(m)
  BY <1>1, KnownStays DEF RowsStay
<1>3. \A q \in Runs : pc'[q] = IF q = r THEN "continue" ELSE pc[q]
  BY <1>1 DEF TypeInv, TypeOK
<1>4. PagesInv'
  <2>1. ASSUME NEW q \in Runs, pc'[q] \in AtRow PROVE Known(Current(q)[1])'
    <3>1. pc[q] \in AtRow /\ Current(q)' = Current(q)
      BY <1>1, <1>3, <2>1, SameMessage DEF AtRow
    <3>2. Known(Current(q)[1])
      BY <3>1 DEF SkipInv, PagesInv
    <3> QED
      BY <1>1, <3>1, <3>2 DEF Known, RowsOf
  <2> QED
    BY <1>1, <1>2, <2>1 DEF SkipInv, PagesInv
<1>5. CursorInv'
  <2> SUFFICES ASSUME Provider = "gmail", ~raced' PROVE CursorInv'
    BY DEF CursorInv
  <2>1. \A q \in Runs : pc'[q] # "fetch" /\ pc'[q] \notin AtPage
    BY <1>1, <1>3 DEF AloneInv, AtPage, AtRow
  <2>2. \A m : Passed(cursor, m)' <=> Passed(Advance(at[r]), m)
    BY <1>1 DEF Passed
  <2>3. \A m, n : Older(m, n)' <=> Older(m, n)
    BY DEF Older, SameFolder
  <2>4. ASSUME NEW m \in Mail, NEW n \in Mail, Older(m, n), Known(n), Passed(Advance(at[r]), m)
        PROVE  Known(m) \/ m \in withheld
    <3>1. Known(m) \/ m \in withheld \/ Reads(r, m)
      BY <1>1, <2>4 DEF SkipInv, CursorInv, AtPage
    <3> QED
      BY <1>1, <3>1 DEF Reads
  <2> QED
    BY <1>1, <1>2, <2>1, <2>2, <2>3, <2>4 DEF CursorInv
<1> QED
  BY <1>4, <1>5 DEF SkipInv

\* Every step keeps it.
LEMMA NextSkip == TypeInv /\ TypeInv' /\ AloneInv /\ SkipInv /\ [Next]_vars => SkipInv'
BY OnwardSteps, OnwardKeeps, FetchKeeps, SaveKeeps

\* Before the first fetch nothing is known.
LEMMA InitSkip == Init => SkipInv
<1> SUFFICES ASSUME Init PROVE SkipInv
  OBVIOUS
<1>1. \A m : ~Known(m)
  BY DEF Init, Known, RowsOf
<1>2. \A r \in Runs : pc[r] = "idle" /\ page[r] = {}
  BY DEF Init
<1> QED
  BY <1>1, <1>2 DEF SkipInv, PagesInv, CursorInv, AtRow, AtPage

-----------------------------------------------------------------------------
(* The theorems *)

\* The start satisfies the invariant.
LEMMA InitInv == Init => IInv
<1> SUFFICES ASSUME Init PROVE IInv
  OBVIOUS
<1>1. TypeInv
  BY InitType
<1>2. \A m : ~Known(m)
  BY DEF Init, Known, RowsOf
<1> QED
  BY <1>1, <1>2 DEF Init, IInv, AloneInv, RowsInv

\* The inductive invariant.
THEOREM Inductive == Spec => []IInv
<1>1. IInv /\ [Next]_vars => IInv'
  BY NextType, NextAlone, NextRows DEF IInv
<1> QED
  BY InitInv, <1>1, PTL DEF Spec

\* Every reachable state has the declared types.
THEOREM TypeCorrect == Spec => []TypeOK
<1>1. IInv => TypeOK
  BY DEF IInv, TypeInv
<1> QED
  BY Inductive, <1>1, PTL

\* A message has one row at most unless a lock was lost or a dispatch came late.
THEOREM OneRow == Spec => []OneRowPerMessage
<1>1. ASSUME IInv PROVE OneRowPerMessage
  <2>1. SUFFICES ASSUME ~raced, NEW m \in Mail PROVE Cardinality(RowsOf(m)) <= 1
    BY DEF OneRowPerMessage
  <2>2. CASE RowsOf(m) = {}
    BY <2>2, FS_EmptySet
  <2>3. CASE \E i : RowsOf(m) = {i}
    BY <2>3, FS_Singleton
  <2>4. \A i, j \in RowsOf(m) : i = j
    BY <1>1, <2>1 DEF IInv, RowsInv, RowsOf
  <2> QED
    BY <2>2, <2>3, <2>4
<1> QED
  BY Inductive, <1>1, PTL

\* An invitation that its import missed is missed for good, unless the stored text
\* of the message holds it: no retry, no later sync and no second run brings it
\* into the calendar, and neither does a calendar that is linked later.
THEOREM InvitationsMissed == Spec => MissedForGood
<1>1. ASSUME IInv, [Next]_vars
      PROVE  [\A m \in Invites \ Embedded : InviteMissed(m) => InviteMissed(m)']_vars
  <2>1. ASSUME NEW m \in Invites \ Embedded, InviteMissed(m) PROVE InviteMissed(m)'
    BY <1>1, <2>1, NextMissed, MailboxAssumption DEF IInv
  <2> QED
    BY <2>1
<1> QED
  BY Inductive, <1>1, PTL DEF Spec, MissedForGood

\* Gmail's cursor passes over no message unless a lock was lost or a dispatch
\* came late.
THEOREM CursorSkipsNothing == Spec => []NothingSkipped
<1>1. SkipInv => NothingSkipped
  BY DEF SkipInv, CursorInv, NothingSkipped, Older
<1>2. IInv /\ IInv' /\ SkipInv /\ [Next]_vars => SkipInv'
  BY NextSkip DEF IInv
<1> QED
  BY Inductive, InitSkip, <1>1, <1>2, PTL DEF Spec
=============================================================================
