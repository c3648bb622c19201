-------------------------- MODULE ClubSeasonProofs --------------------------
(***************************************************************************)
(* Unlock requests and late profiles, for any number of users, clubs and   *)
(* requests in progress.  A session counts the approvals before it commits *)
(* its own, and others may commit meanwhile; what it found stays true      *)
(* because approvals are never deleted, so that their clubs only grow.     *)
(* What else it relies on stays true unless two requests raced about it.   *)
(***************************************************************************)
EXTENDS MCClubSeason, FiniteSetTheorems, TLAPS

ClubsIn(A, k) == {a.club : a \in {b \in A : b.request = k}}

\* What a request in progress found is still so.
Sound(w) ==
  /\ w.op \in {"approve", "approved"} =>
       /\ unlock[w.request] # NoRow /\ unlock[w.request].by # w.by
       /\ ClubOf[w.by] # NoClub
  /\ w.op = "approved" /\ w.quorum =>
       Cardinality(ClubsIn(approvals, w.request) \cup {ClubOf[w.by]}) >= MinApprovals
  /\ w.op = "approved" /\ w.auto =>
       /\ w.quorum /\ profile # NoRow
       /\ w.saw.late /\ w.saw.status \in {"submitted", "resubmitted"}
  /\ w.op = "reject" => unlock[w.request] # NoRow
  /\ w.op \in {"submit", "submitted", "transition"} => profile # NoRow
  /\ w.op = "transition" => w.target \in Transitions(w.saw.status)

RequestsSound == \A t \in Threads : txn[t] # NoTxn => Sound(txn[t])

ApprovalsByOthers ==
  \A a \in approvals : unlock[a.request] # NoRow /\ unlock[a.request].by # a.by

IInv == /\ TypeOK /\ IsFiniteSet(approvals) /\ RequestsSound
        /\ ApprovalsByOthers /\ ApprovedByQuorum

\* No step deletes a row, or changes the author of an unlock request.
Grows == /\ \A k \in RequestIds : unlock[k] # NoRow =>
              unlock'[k] # NoRow /\ unlock'[k].by = unlock[k].by
         /\ approvals \subseteq approvals' /\ IsFiniteSet(approvals')
         /\ profile # NoRow => profile' # NoRow

NoneApproved ==
  \A k \in RequestIds : unlock'[k] # NoRow /\ unlock'[k].status = "approved" =>
     unlock[k] # NoRow /\ unlock[k].status = "approved"

-----------------------------------------------------------------------------
(* Clubs *)

LEMMA ClubsFinite ==
  ASSUME NEW A, IsFiniteSet(A), NEW k, NEW c
  PROVE  /\ IsFiniteSet(ClubsIn(A, k)) /\ IsFiniteSet(ClubsIn(A, k) \cup {c})
         /\ Cardinality(ClubsIn(A, k)) \in Nat /\ Cardinality(ClubsIn(A, k) \cup {c}) \in Nat
<1> DEFINE S == {b \in A : b.request = k}
<1>1. IsFiniteSet(S)
  <2>1. S \subseteq A
    OBVIOUS
  <2> QED
    BY <2>1, FS_Subset
<1>2. IsFiniteSet({a.club : a \in S})
  <2> HIDE DEF S
  <2> DEFINE f == [a \in S |-> a.club]
  <2>1. f \in Surjection(S, {a.club : a \in S})
    BY DEF Surjection
  <2> QED
    BY <1>1, <2>1, FS_Surjection
<1>3. IsFiniteSet(ClubsIn(A, k))
  BY <1>2 DEF ClubsIn
<1>4. IsFiniteSet(ClubsIn(A, k) \cup {c})
  BY <1>3, FS_AddElement
<1> QED
  BY <1>3, <1>4, FS_CardinalityType

LEMMA ClubsGrow ==
  ASSUME NEW A, NEW B, A \subseteq B, IsFiniteSet(B), NEW k, NEW c
  PROVE  /\ Cardinality(ClubsIn(A, k)) <= Cardinality(ClubsIn(B, k))
         /\ Cardinality(ClubsIn(A, k) \cup {c}) <= Cardinality(ClubsIn(B, k) \cup {c})
<1>1. ClubsIn(A, k) \subseteq ClubsIn(B, k)
  BY DEF ClubsIn
<1>2. ClubsIn(A, k) \cup {c} \subseteq ClubsIn(B, k) \cup {c}
  BY <1>1
<1>3. IsFiniteSet(ClubsIn(B, k)) /\ IsFiniteSet(ClubsIn(B, k) \cup {c})
  BY ClubsFinite
<1> QED
  BY <1>1, <1>2, <1>3, FS_Subset

LEMMA ClubsForIn == ASSUME NEW k PROVE ClubsFor(k) = ClubsIn(approvals, k)
  BY DEF ClubsFor, ClubsIn

LEMMA QuorumCounts ==
  ASSUME NEW k, NEW u
  PROVE  Quorum(k, u) <=> Cardinality(ClubsIn(approvals, k) \cup {ClubOf[u]}) >= MinApprovals
<1>1. ClubsBehind(ApprovalsOf(k)) = ClubsIn(approvals, k)
  BY DEF ClubsBehind, ApprovalsOf, ClubsIn
<1> QED
  BY <1>1 DEF Quorum

-----------------------------------------------------------------------------
(* The invariant *)

LEMMA InitEstablishes == Init => IInv
  BY FS_EmptySet DEF Init, IInv, TypeOK, RequestsSound, ApprovalsByOthers, ApprovedByQuorum

\* The fields of a transaction by its operation.
LEMMA TxnFields ==
  ASSUME TypeOK, NEW t \in Threads, txn[t] # NoTxn
  PROVE  /\ txn[t] \in TxnType
         /\ txn[t].op \in {"approve", "approved"} =>
              txn[t].request \in RequestIds /\ txn[t].by \in Users
         /\ txn[t].op = "approved" => txn[t].quorum \in BOOLEAN /\ txn[t].auto \in BOOLEAN
         /\ txn[t].op = "reject" => txn[t].request \in RequestIds
         /\ txn[t].op \in {"submit", "submitted"} =>
              /\ txn[t].by \in Users /\ txn[t].status \in {"submitted", "resubmitted"}
              /\ txn[t].late \in BOOLEAN /\ txn[t].wasLate \in BOOLEAN
         /\ txn[t].op = "transition" =>
              /\ txn[t].target \in {"reviewed", "approved", "returned"}
              /\ txn[t].saw \in Profile
  BY DEF TypeOK, TxnType

\* A request that begins or goes on, with what it has found.
LEMMA LoadKeeps ==
  ASSUME IInv, NEW t \in Threads, NEW row \in TxnType, Flush(t, row), Sound(row)
  PROVE  IInv'
<1>1. txn' \in [Threads -> TxnType \cup {NoTxn}]
  BY DEF Flush, IInv, TypeOK
<1>2. UNCHANGED <<windowOpen, squadReady, profile, unlock, approvals, staff>>
  BY DEF Flush, environment
<1>3. RequestsSound'
  <2>1. ASSUME NEW u \in Threads, txn'[u] # NoTxn PROVE Sound(txn'[u])
    BY <2>1 DEF IInv, TypeOK, RequestsSound, Flush
  <2> QED
    BY <1>2, <2>1 DEF RequestsSound, Sound
<1> QED
  BY <1>1, <1>2, <1>3 DEF IInv, TypeOK, ApprovalsByOthers, ApprovedByQuorum, ClubsFor

\* A request that ends, or a step outside the requests.
LEMMA RequestsStaySound ==
  ASSUME IInv, Grows, UNCHANGED txn \/ \E t \in Threads : End(t)
  PROVE  txn' \in [Threads -> TxnType \cup {NoTxn}] /\ RequestsSound'
<1>1. txn' \in [Threads -> TxnType \cup {NoTxn}]
  BY DEF IInv, TypeOK, End
<1>2. ASSUME NEW u \in Threads, txn'[u] # NoTxn PROVE txn'[u] = txn[u] /\ txn[u] # NoTxn
  BY <1>2 DEF IInv, TypeOK, End
<1>3. ASSUME NEW u \in Threads, txn[u] # NoTxn, txn[u].op = "approved", txn[u].quorum
      PROVE  Cardinality(ClubsIn(approvals', txn[u].request) \cup {ClubOf[txn[u].by]})
               >= MinApprovals
  <2> DEFINE k == txn[u].request
             c == ClubOf[txn[u].by]
  <2>1. Cardinality(ClubsIn(approvals, k) \cup {c}) >= MinApprovals
    BY <1>3 DEF IInv, RequestsSound, Sound
  <2>2. Cardinality(ClubsIn(approvals, k) \cup {c}) <= Cardinality(ClubsIn(approvals', k) \cup {c})
    BY ClubsGrow DEF Grows
  <2>3. /\ Cardinality(ClubsIn(approvals, k) \cup {c}) \in Nat
        /\ Cardinality(ClubsIn(approvals', k) \cup {c}) \in Nat
    BY ClubsFinite DEF IInv, Grows
  <2> QED
    BY <2>1, <2>2, <2>3, ClubSeasonAssumption
<1>4. ASSUME NEW u \in Threads, txn'[u] # NoTxn PROVE Sound(txn[u])'
  <2>1. txn'[u] = txn[u] /\ txn[u] # NoTxn /\ Sound(txn[u])
    BY <1>2, <1>4 DEF IInv, RequestsSound
  <2>2. ASSUME txn[u].op \in {"approve", "approved"}
        PROVE  /\ unlock'[txn[u].request] # NoRow
               /\ unlock'[txn[u].request].by # txn[u].by
               /\ ClubOf[txn[u].by] # NoClub
    BY <2>1, <2>2, TxnFields DEF Sound, IInv, Grows
  <2>3. txn[u].op = "reject" => unlock'[txn[u].request] # NoRow
    BY <2>1, TxnFields DEF Sound, IInv, Grows
  <2>4. /\ txn[u].op = "approved" /\ txn[u].auto => txn[u].quorum /\ profile' # NoRow
        /\ txn[u].op \in {"submit", "submitted", "transition"} => profile' # NoRow
    BY <2>1 DEF Sound, Grows
  <2> QED
    BY <1>3, <2>1, <2>2, <2>3, <2>4 DEF Sound
<1> QED
  BY <1>1, <1>4 DEF RequestsSound

LEMMA QuorumStays ==
  ASSUME IInv, Grows, NoneApproved, UNCHANGED approvals
  PROVE  ApprovalsByOthers' /\ ApprovedByQuorum'
<1>1. ApprovalsByOthers'
  BY DEF IInv, TypeOK, Approval, ApprovalsByOthers, Grows
<1>2. ApprovedByQuorum'
  BY DEF IInv, ApprovedByQuorum, ClubsFor, Grows, NoneApproved
<1> QED
  BY <1>1, <1>2

LEMMA StaysSound ==
  ASSUME IInv, Grows, NoneApproved, UNCHANGED approvals,
         UNCHANGED txn \/ \E t \in Threads : End(t),
         windowOpen' \in BOOLEAN, squadReady' \in BOOLEAN, profile' \in Profile \cup {NoRow},
         unlock' \in [RequestIds -> UnlockRequest \cup {NoRow}], staff' \subseteq StaffIds
  PROVE  IInv'
  BY RequestsStaySound, QuorumStays DEF IInv, TypeOK, Grows

\* Nothing of what the invariant is about changes.
LEMMA NothingChanges ==
  ASSUME IInv, UNCHANGED <<profile, unlock, approvals>>
  PROVE  /\ Grows /\ NoneApproved /\ profile' \in Profile \cup {NoRow}
         /\ unlock' \in [RequestIds -> UnlockRequest \cup {NoRow}]
  BY DEF IInv, TypeOK, Grows, NoneApproved

\* A row that is inserted, or the status of one that is set.
LEMMA UnlockInserted ==
  ASSUME IInv, NEW k \in RequestIds, unlock[k] = NoRow, NEW u \in Users,
         unlock' = [unlock EXCEPT ![k] = [by |-> u, status |-> "pending"]],
         UNCHANGED approvals, profile # NoRow => profile' # NoRow
  PROVE  Grows /\ NoneApproved /\ unlock' \in [RequestIds -> UnlockRequest \cup {NoRow}]
  BY DEF IInv, TypeOK, UnlockRequest, Grows, NoneApproved

LEMMA StatusSet ==
  ASSUME IInv, NEW k \in RequestIds, unlock[k] # NoRow, NEW s \in {"approved", "rejected"},
         unlock' = [unlock EXCEPT ![k].status = s]
  PROVE  /\ unlock' \in [RequestIds -> UnlockRequest \cup {NoRow}]
         /\ unlock'[k].status = s
         /\ \A j \in RequestIds : j # k => unlock'[j] = unlock[j]
         /\ \A j \in RequestIds : unlock[j] # NoRow =>
              unlock'[j] # NoRow /\ unlock'[j].by = unlock[j].by
<1>1. unlock[k] \in UnlockRequest
  BY DEF IInv, TypeOK
<1>2. /\ [unlock[k] EXCEPT !.status = s] \in UnlockRequest
      /\ [unlock[k] EXCEPT !.status = s].by = unlock[k].by
      /\ [unlock[k] EXCEPT !.status = s].status = s
  BY <1>1 DEF UnlockRequest
<1> QED
  BY <1>2, NullAssumption DEF IInv, TypeOK

-----------------------------------------------------------------------------
(* Unlock requests *)

LEMMA BeginUnlockKeeps ==
  ASSUME IInv, NEW t \in Threads, NEW u \in Users, NEW k \in RequestIds,
         BeginApprove(t, u, k) \/ BeginReject(t, u, k)
  PROVE  IInv'
<1>1. unlock[k] # NoRow /\ unlock[k].by # u
  BY DEF BeginApprove, BeginReject, MayDecide, WithStatus
<1>2. CASE BeginApprove(t, u, k)
  <2> DEFINE row == [op |-> "approve", by |-> u, request |-> k]
  <2>1. row \in TxnType /\ Sound(row)
    BY <1>1, <1>2 DEF TxnType, Sound, BeginApprove
  <2> QED
    BY <1>2, <2>1, LoadKeeps DEF BeginApprove, Begin, Flush
<1>3. CASE BeginReject(t, u, k)
  <2> DEFINE row == [op |-> "reject", request |-> k]
  <2>1. row \in TxnType /\ Sound(row)
    BY <1>1 DEF TxnType, Sound
  <2> QED
    BY <1>3, <2>1, LoadKeeps DEF BeginReject, Begin, Flush
<1> QED
  BY <1>2, <1>3

LEMMA FlushApproveKeeps == ASSUME IInv, NEW t \in Threads, FlushApprove(t) PROVE IInv'
<1> DEFINE k == txn[t].request
           u == txn[t].by
           auto == Quorum(k, u) /\ Awaiting
           row == [op |-> "approved", by |-> u, request |-> k, quorum |-> Quorum(k, u),
                   auto |-> auto, saw |-> IF auto THEN profile ELSE NoRow]
<1>1. txn[t] # NoTxn /\ txn[t].op = "approve" /\ k \in RequestIds /\ u \in Users
  BY TxnFields DEF FlushApprove, Running, IInv
<1>2. unlock[k] # NoRow /\ unlock[k].by # u /\ ClubOf[u] # NoClub
  BY <1>1 DEF IInv, RequestsSound, Sound
<1>3. Quorum(k, u) \in BOOLEAN /\ (Quorum(k, u) /\ Awaiting) \in BOOLEAN
  BY DEF Quorum
<1>4. row \in TxnType
  <2>1. (IF auto THEN profile ELSE NoRow) \in Profile \cup {NoRow}
    BY DEF IInv, TypeOK
  <2> QED
    BY <1>1, <1>3, <2>1 DEF TxnType
<1>5. Sound(row)
  <2>1. row.op = "approved" /\ row.by = u /\ row.request = k /\ row.quorum = Quorum(k, u)
        /\ row.auto = (Quorum(k, u) /\ Awaiting) /\ row.saw = IF auto THEN profile ELSE NoRow
    OBVIOUS
  <2>2. row.auto => /\ row.quorum /\ profile # NoRow
                    /\ row.saw.late /\ row.saw.status \in {"submitted", "resubmitted"}
    BY <2>1 DEF Awaiting
  <2>3. row.quorum => Cardinality(ClubsIn(approvals, k) \cup {ClubOf[u]}) >= MinApprovals
    BY <2>1, QuorumCounts
  <2> HIDE DEF row
  <2> QED
    BY <1>2, <2>1, <2>2, <2>3 DEF Sound
<1>6. Flush(t, row)
  BY DEF FlushApprove
<1> HIDE DEF row
<1> QED
  BY <1>4, <1>5, <1>6, LoadKeeps

\* The approval that is inserted brings its club to those of the request.
LEMMA ApprovalInserted ==
  ASSUME IInv, NEW k \in RequestIds, NEW u \in Users, unlock[k] # NoRow, unlock[k].by # u,
         ClubOf[u] # NoClub,
         approvals' = approvals \cup {[request |-> k, by |-> u, club |-> ClubOf[u]]}
  PROVE  /\ approvals' \subseteq Approval /\ IsFiniteSet(approvals')
         /\ ClubsIn(approvals', k) = ClubsIn(approvals, k) \cup {ClubOf[u]}
<1> DEFINE a == [request |-> k, by |-> u, club |-> ClubOf[u]]
<1>1. a \in Approval /\ a.request = k /\ a.club = ClubOf[u]
  BY ClubSeasonAssumption DEF Approval
<1>2. approvals' = approvals \cup {a}
  OBVIOUS
<1> HIDE DEF a
<1>3. IsFiniteSet(approvals')
  BY <1>2, FS_AddElement DEF IInv
<1>4. ClubsIn(approvals', k) = ClubsIn(approvals, k) \cup {ClubOf[u]}
  BY <1>1, <1>2 DEF ClubsIn
<1> QED
  BY <1>1, <1>2, <1>3, <1>4 DEF IInv, TypeOK

LEMMA CommitApproveKeeps == ASSUME IInv, NEW t \in Threads, CommitApprove(t) PROVE IInv'
<1> DEFINE k == txn[t].request
           u == txn[t].by
<1>1. /\ txn[t] # NoTxn /\ txn[t].op = "approved" /\ k \in RequestIds /\ u \in Users
      /\ txn[t].quorum \in BOOLEAN /\ txn[t].auto \in BOOLEAN
  BY TxnFields DEF CommitApprove, Running, IInv
<1>2. /\ unlock[k] # NoRow /\ unlock[k].by # u /\ ClubOf[u] # NoClub
      /\ txn[t].quorum => Cardinality(ClubsIn(approvals, k) \cup {ClubOf[u]}) >= MinApprovals
      /\ txn[t].auto => profile # NoRow
  BY <1>1 DEF IInv, RequestsSound, Sound
<1>3. /\ approvals' = approvals \cup {[request |-> k, by |-> u, club |-> ClubOf[u]]}
      /\ unlock' = IF txn[t].quorum THEN [unlock EXCEPT ![k].status = "approved"] ELSE unlock
      /\ profile' = IF txn[t].auto THEN [profile EXCEPT !.status = "approved"] ELSE profile
      /\ UNCHANGED <<windowOpen, squadReady, staff>> /\ End(t)
  BY DEF CommitApprove, environment
<1>4. /\ approvals' \subseteq Approval /\ IsFiniteSet(approvals')
      /\ ClubsIn(approvals', k) = ClubsIn(approvals, k) \cup {ClubOf[u]}
  BY <1>1, <1>2, <1>3, ApprovalInserted
<1>5. /\ unlock' \in [RequestIds -> UnlockRequest \cup {NoRow}]
      /\ \A j \in RequestIds : j # k => unlock'[j] = unlock[j]
      /\ \A j \in RequestIds : unlock[j] # NoRow =>
           unlock'[j] # NoRow /\ unlock'[j].by = unlock[j].by
      /\ ~txn[t].quorum => unlock' = unlock
  <2>1. CASE txn[t].quorum
    BY <1>1, <1>2, <1>3, <2>1, StatusSet
  <2>2. CASE ~txn[t].quorum
    BY <1>3, <2>2 DEF IInv, TypeOK
  <2> QED
    BY <2>1, <2>2
<1>6. profile' \in Profile \cup {NoRow} /\ (profile # NoRow => profile' # NoRow)
  <2>1. CASE txn[t].auto
    <3>1. profile \in Profile
      BY <1>2, <2>1 DEF IInv, TypeOK
    <3>2. profile' \in Profile
      BY <1>3, <2>1, <3>1 DEF Profile, ProfileStatus
    <3> QED
      BY <3>2, NullAssumption
  <2>2. CASE ~txn[t].auto
    BY <1>3, <2>2 DEF IInv, TypeOK
  <2> QED
    BY <2>1, <2>2
<1>7. Grows
  BY <1>3, <1>4, <1>5, <1>6 DEF Grows
<1>8. txn' \in [Threads -> TxnType \cup {NoTxn}] /\ RequestsSound'
  BY <1>3, <1>7, RequestsStaySound
<1>9. ApprovalsByOthers'
  BY <1>1, <1>2, <1>3, <1>5 DEF IInv, TypeOK, Approval, ApprovalsByOthers
<1>10. ApprovedByQuorum'
  <2> SUFFICES ASSUME NEW j \in RequestIds, unlock'[j] # NoRow, unlock'[j].status = "approved"
               PROVE  /\ Cardinality(ClubsIn(approvals', j)) >= MinApprovals
                      /\ \A a \in approvals' : a.request = j => a.by # unlock'[j].by
    BY DEF ApprovedByQuorum, ClubsFor, ClubsIn
  <2>1. \A a \in approvals' : a.request = j => a.by # unlock'[j].by
    BY <1>9 DEF ApprovalsByOthers
  <2>2. CASE j = k /\ txn[t].quorum
    BY <1>2, <1>4, <2>1, <2>2
  <2>3. CASE ~(j = k /\ txn[t].quorum)
    <3>1. unlock'[j] = unlock[j]
      BY <1>5, <2>3
    <3>2. Cardinality(ClubsIn(approvals, j)) >= MinApprovals
      BY <3>1, ClubsForIn DEF IInv, ApprovedByQuorum
    <3>3. Cardinality(ClubsIn(approvals, j)) <= Cardinality(ClubsIn(approvals', j))
      BY <1>7, ClubsGrow DEF Grows
    <3>4. /\ Cardinality(ClubsIn(approvals, j)) \in Nat
          /\ Cardinality(ClubsIn(approvals', j)) \in Nat
      BY <1>4, ClubsFinite DEF IInv
    <3> QED
      BY <2>1, <3>2, <3>3, <3>4, ClubSeasonAssumption
  <2> QED
    BY <2>1, <2>2, <2>3
<1> QED
  BY <1>3, <1>4, <1>5, <1>6, <1>8, <1>9, <1>10 DEF IInv, TypeOK

LEMMA CommitRejectKeeps == ASSUME IInv, NEW t \in Threads, CommitReject(t) PROVE IInv'
<1> DEFINE k == txn[t].request
<1>1. k \in RequestIds /\ unlock[k] # NoRow
  BY TxnFields DEF CommitReject, Running, IInv, RequestsSound, Sound
<1>2. /\ unlock' = [unlock EXCEPT ![k].status = "rejected"] /\ End(t)
      /\ UNCHANGED <<windowOpen, squadReady, profile, approvals, staff>>
  BY DEF CommitReject, environment
<1>3. /\ unlock' \in [RequestIds -> UnlockRequest \cup {NoRow}]
      /\ unlock'[k].status = "rejected"
      /\ \A j \in RequestIds : j # k => unlock'[j] = unlock[j]
      /\ \A j \in RequestIds : unlock[j] # NoRow =>
           unlock'[j] # NoRow /\ unlock'[j].by = unlock[j].by
  BY <1>1, <1>2, StatusSet
<1>4. Grows /\ NoneApproved
  BY <1>2, <1>3 DEF Grows, NoneApproved, IInv
<1> QED
  BY <1>2, <1>3, <1>4, StaysSound DEF IInv, TypeOK

-----------------------------------------------------------------------------
(* The profile *)

LEMMA BeginSubmitKeeps ==
  ASSUME IInv, NEW t \in Threads, NEW u \in Users, BeginSubmit(t, u) PROVE IInv'
<1> DEFINE s == IF profile.status = "draft" THEN "submitted" ELSE "resubmitted"
           row == [op |-> "submit", by |-> u, late |-> ~windowOpen, wasLate |-> profile.late,
                   status |-> s]
<1>1. profile # NoRow /\ profile.late \in BOOLEAN
  BY DEF BeginSubmit, IInv, TypeOK, Profile
<1>2. (~windowOpen) \in BOOLEAN /\ s \in {"submitted", "resubmitted"}
  OBVIOUS
<1>3. row \in TxnType /\ Sound(row)
  <2> HIDE DEF s
  <2> QED
    BY <1>1, <1>2 DEF TxnType, Sound
<1>4. Flush(t, row)
  BY DEF BeginSubmit, Begin, Flush
<1> HIDE DEF row
<1> QED
  BY <1>3, <1>4, LoadKeeps

LEMMA FlushSubmitKeeps == ASSUME IInv, NEW t \in Threads, FlushSubmit(t) PROVE IInv'
<1> DEFINE row == [op |-> "submitted", by |-> txn[t].by, late |-> txn[t].late,
                   wasLate |-> txn[t].wasLate, status |-> txn[t].status,
                   request |-> NeedsRequest(txn[t].late)]
<1>1. /\ txn[t] # NoTxn /\ txn[t].op = "submit" /\ profile # NoRow
      /\ txn[t].by \in Users /\ txn[t].status \in {"submitted", "resubmitted"}
      /\ txn[t].late \in BOOLEAN /\ txn[t].wasLate \in BOOLEAN
  BY TxnFields DEF FlushSubmit, Running, IInv, RequestsSound, Sound
<1>2. NeedsRequest(txn[t].late) \in BOOLEAN
  BY DEF NeedsRequest
<1>3. row \in TxnType /\ Sound(row)
  BY <1>1, <1>2 DEF TxnType, Sound
<1>4. Flush(t, row)
  BY DEF FlushSubmit
<1> HIDE DEF row
<1> QED
  BY <1>3, <1>4, LoadKeeps

LEMMA CommitSubmitKeeps ==
  ASSUME IInv, NEW t \in Threads, NEW k \in RequestIds, CommitSubmit(t, k) PROVE IInv'
<1>1. /\ txn[t] # NoTxn /\ txn[t].op = "submitted" /\ profile \in Profile
      /\ txn[t].by \in Users /\ txn[t].status \in {"submitted", "resubmitted"}
      /\ txn[t].late \in BOOLEAN
  BY TxnFields DEF CommitSubmit, Running, IInv, RequestsSound, Sound, TypeOK
<1>2. profile' \in Profile
  BY <1>1 DEF CommitSubmit, Profile, ProfileStatus
<1>3. profile' # NoRow
  BY <1>2, NullAssumption
<1>4. /\ UNCHANGED <<windowOpen, squadReady, approvals, staff>> /\ End(t)
      /\ \/ unlock[k] = NoRow
            /\ unlock' = [unlock EXCEPT ![k] = [by |-> txn[t].by, status |-> "pending"]]
         \/ UNCHANGED unlock
  BY DEF CommitSubmit, environment
<1>5. Grows /\ NoneApproved /\ unlock' \in [RequestIds -> UnlockRequest \cup {NoRow}]
  <2>1. CASE UNCHANGED unlock
    BY <1>3, <1>4, <2>1 DEF IInv, TypeOK, Grows, NoneApproved
  <2>2. CASE ~UNCHANGED unlock
    BY <1>1, <1>3, <1>4, <2>2, UnlockInserted
  <2> QED
    BY <2>1, <2>2
<1> QED
  BY <1>2, <1>4, <1>5, StaysSound DEF IInv, TypeOK

LEMMA BeginTransitionKeeps ==
  ASSUME IInv, NEW t \in Threads, NEW target \in ProfileStatus, BeginTransition(t, target)
  PROVE  IInv'
<1> DEFINE row == [op |-> "transition", target |-> target, saw |-> profile]
<1>1. profile \in Profile /\ profile # NoRow /\ target \in Transitions(profile.status)
  BY DEF BeginTransition, IInv, TypeOK
<1>2. target \in {"reviewed", "approved", "returned"}
  BY <1>1 DEF Transitions
<1>3. row \in TxnType
  BY <1>1, <1>2 DEF TxnType
<1>4. Sound(row)
  BY <1>1 DEF Sound
<1> QED
  BY <1>3, <1>4, LoadKeeps DEF BeginTransition, Begin, Flush

LEMMA CommitTransitionKeeps == ASSUME IInv, NEW t \in Threads, CommitTransition(t) PROVE IInv'
<1>1. profile \in Profile /\ txn[t].target \in {"reviewed", "approved", "returned"}
  BY TxnFields DEF CommitTransition, Running, IInv, RequestsSound, Sound, TypeOK
<1>2. profile' \in Profile
  BY <1>1 DEF CommitTransition, Profile, ProfileStatus
<1>3. /\ UNCHANGED <<windowOpen, squadReady, unlock, approvals, staff>> /\ End(t)
      /\ profile' # NoRow
  BY <1>2, NullAssumption DEF CommitTransition, environment
<1>4. Grows /\ NoneApproved
  BY <1>3 DEF Grows, NoneApproved, IInv
<1> QED
  BY <1>2, <1>3, <1>4, StaysSound DEF IInv, TypeOK

-----------------------------------------------------------------------------
(* The staff, and the steps outside the requests *)

LEMMA StaffStepKeeps == ASSUME IInv, NEW t \in Threads, StaffStep(t) PROVE IInv'
<1>1. CASE BeginAddStaff(t)
  <2> DEFINE row == [op |-> "add_staff"]
  <2>1. row \in TxnType /\ Sound(row)
    BY DEF TxnType, Sound
  <2> QED
    BY <1>1, <2>1, LoadKeeps DEF BeginAddStaff, Begin, Flush
<1>2. ASSUME NEW s \in StaffIds, BeginRemoveStaff(t, s) PROVE IInv'
  <2> DEFINE row == [op |-> "remove_staff", staff |-> s]
  <2>1. row \in TxnType /\ Sound(row)
    BY DEF TxnType, Sound
  <2> QED
    BY <1>2, <2>1, LoadKeeps DEF BeginRemoveStaff, Begin, Flush
<1>3. CASE CommitRemoveStaff(t) \/ \E s \in StaffIds : CommitAddStaff(t, s)
  <2>1. /\ UNCHANGED <<windowOpen, squadReady, profile, unlock, approvals>> /\ End(t)
        /\ staff' \subseteq StaffIds
    BY <1>3 DEF CommitRemoveStaff, CommitAddStaff, environment, IInv, TypeOK
  <2> QED
    BY <2>1, NothingChanges, StaysSound DEF IInv, TypeOK
<1> QED
  BY <1>1, <1>2, <1>3 DEF StaffStep

LEMMA OutsideKeeps ==
  ASSUME IInv,
         \/ WindowChanges \/ SquadCompletes \/ CreateProfile
         \/ \E u \in Users, k \in RequestIds : CreateUnlockRequest(u, k)
         \/ \E t \in Threads : Rollback(t)
         \/ UNCHANGED vars
  PROVE  IInv'
<1>1. CASE WindowChanges \/ SquadCompletes \/ UNCHANGED vars \/ \E t \in Threads : Rollback(t)
  <2>1. /\ UNCHANGED <<profile, unlock, approvals, staff>>
        /\ UNCHANGED txn \/ \E t \in Threads : End(t)
        /\ windowOpen' \in BOOLEAN /\ squadReady' \in BOOLEAN
    BY <1>1 DEF WindowChanges, SquadCompletes, vars, Rollback, environment, IInv, TypeOK
  <2> QED
    BY <2>1, NothingChanges, StaysSound DEF IInv, TypeOK
<1>2. CASE CreateProfile
  <2>1. profile' \in Profile
    BY <1>2 DEF CreateProfile, Profile, ProfileStatus
  <2>2. /\ UNCHANGED <<windowOpen, squadReady, unlock, approvals, staff, txn>>
        /\ profile' # NoRow
    BY <1>2, <2>1, NullAssumption DEF CreateProfile, environment
  <2>3. Grows /\ NoneApproved
    BY <2>2 DEF Grows, NoneApproved, IInv
  <2> QED
    BY <2>1, <2>2, <2>3, StaysSound DEF IInv, TypeOK
<1>3. ASSUME NEW u \in Users, NEW k \in RequestIds, CreateUnlockRequest(u, k) PROVE IInv'
  <2>1. UNCHANGED <<windowOpen, squadReady, profile, approvals, staff, txn>>
    BY <1>3 DEF CreateUnlockRequest, environment
  <2>2. Grows /\ NoneApproved /\ unlock' \in [RequestIds -> UnlockRequest \cup {NoRow}]
    BY <1>3, <2>1, UnlockInserted DEF CreateUnlockRequest
  <2> QED
    BY <2>1, <2>2, StaysSound DEF IInv, TypeOK
<1> QED
  BY <1>1, <1>2, <1>3

LEMMA StepKeeps == IInv /\ [Next]_vars => IInv'
<1> SUFFICES ASSUME IInv, [Next]_vars PROVE IInv'
  OBVIOUS
<1>1. ASSUME NEW t \in Threads, UnlockStep(t) PROVE IInv'
  BY <1>1, BeginUnlockKeeps, FlushApproveKeeps, CommitApproveKeeps, CommitRejectKeeps
     DEF UnlockStep
<1>2. ASSUME NEW t \in Threads, ProfileStep(t) PROVE IInv'
  BY <1>2, BeginSubmitKeeps, FlushSubmitKeeps, CommitSubmitKeeps, BeginTransitionKeeps,
     CommitTransitionKeeps DEF ProfileStep
<1>3. ASSUME NEW t \in Threads, StaffStep(t) PROVE IInv'
  BY <1>3, StaffStepKeeps
<1> QED
  BY <1>1, <1>2, <1>3, OutsideKeeps DEF Next

LEMMA Invariance == Spec => []IInv
  BY InitEstablishes, StepKeeps, PTL DEF Spec

\* The types of the rows of a club in a season, and of what the requests in progress hold.
THEOREM ClubSeasonTypeOK == Spec => []TypeOK
<1>1. IInv => TypeOK
  BY DEF IInv
<1> QED
  BY <1>1, Invariance, PTL

\* However the requests of league admins interleave, an unlock request is approved only by users
\* of MinApprovals different clubs, none of whom made it (decide_unlock_request).
THEOREM ApprovalsReachQuorum == Spec => []ApprovedByQuorum
<1>1. IInv => ApprovedByQuorum
  BY DEF IInv
<1> QED
  BY <1>1, Invariance, PTL

-----------------------------------------------------------------------------
(* How a profile is approved *)

\* The request of t commits what it saw reviewed, or late and waiting, with a quorum.
Approves(t) ==
  /\ txn[t] # NoTxn /\ txn'[t] = NoTxn /\ txn[t].op \in {"transition", "approved"}
  /\ \/ txn[t].op = "transition" /\ txn[t].saw.status = "reviewed"
     \/ /\ txn[t].op = "approved"
        /\ txn[t].saw.late /\ txn[t].saw.status \in {"submitted", "resubmitted"}
        /\ unlock'[txn[t].request].status = "approved"
        /\ LET behind == {a \in approvals' : a.request = txn[t].request}
           IN  Cardinality(ClubsBehind(behind)) >= MinApprovals

LEMMA StepApproves == IInv /\ [Next]_vars => ApprovalStep
<1> SUFFICES ASSUME IInv, [Next]_vars, profile # NoRow, profile.status # "approved",
                    profile'.status = "approved"
             PROVE  \E t \in Threads : Approves(t)
  BY DEF ApprovalStep, Approves
<1>1. profile' # profile
  OBVIOUS
<1>2. ASSUME NEW t \in Threads, CommitTransition(t) PROVE Approves(t)
  <2>1. /\ txn[t] # NoTxn /\ txn[t].op = "transition" /\ txn'[t] = NoTxn
        /\ txn[t].target \in Transitions(txn[t].saw.status)
    BY <1>2, TxnFields DEF CommitTransition, Running, End, IInv, TypeOK, RequestsSound, Sound
  <2>2. profile' = [profile EXCEPT !.status = txn[t].target] /\ profile \in Profile
    BY <1>2 DEF CommitTransition, IInv, TypeOK
  <2>3. txn[t].target = "approved"
    BY <2>2 DEF Profile
  <2>4. txn[t].saw.status = "reviewed"
    BY <2>1, <2>3 DEF Transitions
  <2> QED
    BY <2>1, <2>4 DEF Approves
<1>3. ASSUME NEW t \in Threads, CommitApprove(t) PROVE Approves(t)
  <2> DEFINE k == txn[t].request
  <2>1. txn[t] # NoTxn /\ txn[t].op = "approved" /\ txn'[t] = NoTxn /\ k \in RequestIds
        /\ txn[t].auto \in BOOLEAN /\ txn[t].quorum \in BOOLEAN
    BY <1>3, TxnFields DEF CommitApprove, Running, End, IInv, TypeOK
  <2>2. txn[t].auto
    BY <1>1, <1>3, <2>1 DEF CommitApprove
  <2>3. /\ txn[t].quorum /\ unlock[k] # NoRow
        /\ txn[t].saw.late /\ txn[t].saw.status \in {"submitted", "resubmitted"}
    BY <2>1, <2>2 DEF IInv, RequestsSound, Sound
  <2>4. unlock'[k].status = "approved" /\ unlock'[k] # NoRow
    BY <1>3, <2>1, <2>3, StatusSet DEF CommitApprove
  <2>5. ApprovedByQuorum'
    BY StepKeeps DEF IInv
  <2>6. Cardinality({a.club : a \in {b \in approvals' : b.request = k}}) >= MinApprovals
    BY <2>1, <2>4, <2>5 DEF ApprovedByQuorum, ClubsFor
  <2> QED
    BY <2>1, <2>3, <2>4, <2>6 DEF Approves, ClubsBehind
<1>4. ASSUME NEW t \in Threads, NEW k \in RequestIds, CommitSubmit(t, k) PROVE FALSE
  <2>1. txn[t].status \in {"submitted", "resubmitted"} /\ profile'.status = txn[t].status
    BY <1>4, TxnFields DEF CommitSubmit, Running, IInv
  <2> QED
    BY <2>1
<1>5. CASE \E t \in Threads : UnlockStep(t) \/ ProfileStep(t) \/ StaffStep(t)
  BY <1>1, <1>2, <1>3, <1>4, <1>5 DEF UnlockStep, ProfileStep, StaffStep, BeginApprove,
     BeginReject, FlushApprove, CommitReject, BeginSubmit, FlushSubmit, BeginTransition,
     BeginAddStaff, CommitRemoveStaff, CommitAddStaff, BeginRemoveStaff, Begin, Flush
<1>6. CASE ~\E t \in Threads : UnlockStep(t) \/ ProfileStep(t) \/ StaffStep(t)
  BY <1>1, <1>6 DEF Next, WindowChanges, SquadCompletes, CreateProfile, CreateUnlockRequest,
     Rollback, vars
<1> QED
  BY <1>5, <1>6

\* A profile is approved only by the commit of a request that had loaded it reviewed, or late and
\* waiting for its review while its unlock request gets the quorum (transition_profile,
\* _auto_approve_late_profile).
THEOREM ProfilesApproved == Spec => ProfileApproval
<1>1. IInv /\ [Next]_vars => [ApprovalStep]_vars
  BY StepApproves
<1> QED
  BY <1>1, Invariance, PTL DEF Spec, ProfileApproval

-----------------------------------------------------------------------------
(* Requests in progress at the same time *)

Lifecycle == {<<"draft", "submitted">>, <<"returned", "resubmitted">>,
              <<"reviewed", "resubmitted">>, <<"reviewed", "approved">>, <<"reviewed", "returned">>}

Follows(row, status) ==
  <<row.status, status>> \in
     Lifecycle \cup {"submitted", "resubmitted"} \X ({"reviewed", "returned"}
                                                     \cup IF row.late THEN {"approved"} ELSE {})

\* The status that the request brings is the next one of the profile, or the profile has it.
LedOn(t) ==
  Leads(t) /\ Unraced("led apart", "profile") =>
     profile.status = Goal(t) \/ Follows(profile, Goal(t))

\* What the request decides has not been decided, or in the same way.
StillOpen(t) ==
  LET k == txn[t].request IN
    Works(t, {"reject", "approve", "approved"}) /\ Unraced("rejected while approved", k) =>
      /\ Works(t, {"reject"}) => unlock[k].status \in {"pending", "rejected"}
      /\ Works(t, {"approve", "approved"}) => unlock[k].status \in {"pending", "approved"}

\* An approval that found no quorum completes none.
CountStands(t) ==
  LET k == txn[t].request IN
    Works(t, {"approved"}) /\ ~txn[t].quorum /\ Unraced("approved twice", k) =>
      Cardinality(ClubsIn(approvals, k) \cup {ClubOf[txn[t].by]}) < MinApprovals

Tracked == \E k \in RequestIds : unlock[k] # NoRow /\ unlock[k].status \in {"pending", "rejected"}

\* A late profile that an approval leaves behind does not wait for one; a submission that makes
\* the profile late or finds it late leaves behind, or finds, a request that tracks it.
TracksLate(t) ==
  Unraced("submitted while unlocked", "profile") =>
    /\ Works(t, {"approved"}) /\ txn[t].quorum /\ ~txn[t].auto => ~Awaiting
    /\ Works(t, {"submitted"}) /\ txn[t].late => txn[t].request \/ Tracked
    /\ Submits(t) /\ ~txn[t].wasLate /\ ~txn[t].late /\ profile.late => Tracked

RoomLeft(t) == Works(t, {"add_staff"}) /\ Unraced("added twice", "staff") => HasRoom

FoundStillHolds(t) == LedOn(t) /\ StillOpen(t) /\ CountStands(t) /\ TracksLate(t) /\ RoomLeft(t)

RaceInv == /\ IsFiniteSet(staff) /\ Racing \subseteq races
           /\ PromisesUnlessRaced
           /\ \A t \in Threads : FoundStillHolds(t)

\* What a step may do to the profile and to unlock requests, unless requests raced.
Promises == /\ Unraced("led apart", "profile") => LifecycleStep
            /\ \A k \in RequestIds : Unraced("rejected while approved", k) => DecisionStands(k)

LEMMA IdleFinds ==
  ASSUME NEW t \in Threads, txn[t] = NoTxn PROVE FoundStillHolds(t)
  BY DEF FoundStillHolds, LedOn, StillOpen, CountStands, TracksLate, RoomLeft, Leads, Submits, Works

LEMMA RaceInvInit == MCInit => RaceInv
<1> SUFFICES ASSUME MCInit PROVE RaceInv
  OBVIOUS
<1>1. IsFiniteSet(staff) /\ Cardinality(staff) = 0
  BY FS_EmptySet DEF MCInit, Init
<1>2. \A t \in Threads : txn[t] = NoTxn
  BY DEF MCInit, Init
<1>3. Racing = {}
  BY <1>2 DEF Racing, InProgress
<1>4. StaffWithinCap
  BY <1>1, ClubSeasonAssumption DEF StaffWithinCap
<1>5. PromisesUnlessRaced
  BY <1>4 DEF MCInit, Init, PromisesUnlessRaced, QuorumDecides, LateSubmissionTracked
<1> QED
  BY <1>1, <1>2, <1>3, <1>5, IdleFinds DEF RaceInv

\* Requests in progress are in no race that is not recorded.
LEMMA NoRace ==
  ASSUME RaceInv, NEW t \in Threads, NEW u \in Threads, t # u
  PROVE  /\ \A k \in RequestIds : /\ Unraced("approved twice", k) => ~ApprovedTwice(k, t, u)
                                  /\ Unraced("rejected while approved", k)
                                       => ~RejectedWhileApproved(k, t, u)
         /\ Unraced("led apart", "profile") => ~LedApart(t, u)
         /\ Unraced("submitted while unlocked", "profile") => ~SubmittedWhileUnlocked(t, u)
         /\ Unraced("added twice", "staff") => ~AddedTwice(t, u)
<1>1. txn[t] # NoTxn /\ txn[u] # NoTxn => RacesOf(t, u) \subseteq races
  BY DEF RaceInv, Racing, InProgress
<1>2. ASSUME NEW k \in RequestIds, ApprovedTwice(k, t, u) PROVE ~Unraced("approved twice", k)
  <2>1. <<"approved twice", k>> \in RacesOf(t, u)
    BY <1>2 DEF RacesOf
  <2> QED
    BY <1>1, <1>2, <2>1 DEF ApprovedTwice, Works, Unraced
<1>3. ASSUME NEW k \in RequestIds, RejectedWhileApproved(k, t, u)
      PROVE  ~Unraced("rejected while approved", k)
  <2>1. <<"rejected while approved", k>> \in RacesOf(t, u)
    BY <1>3 DEF RacesOf
  <2> QED
    BY <1>1, <1>3, <2>1 DEF RejectedWhileApproved, Works, Unraced
<1>4. ASSUME LedApart(t, u) PROVE ~Unraced("led apart", "profile")
  <2>1. <<"led apart", "profile">> \in RacesOf(t, u)
    BY <1>4 DEF RacesOf
  <2> QED
    BY <1>1, <1>4, <2>1 DEF LedApart, Leads, Submits, Works, Unraced
<1>5. ASSUME SubmittedWhileUnlocked(t, u) PROVE ~Unraced("submitted while unlocked", "profile")
  <2>1. <<"submitted while unlocked", "profile">> \in RacesOf(t, u)
    BY <1>5 DEF RacesOf
  <2> QED
    BY <1>1, <1>5, <2>1 DEF SubmittedWhileUnlocked, Submits, Works, Unraced
<1>6. ASSUME AddedTwice(t, u) PROVE ~Unraced("added twice", "staff")
  <2>1. <<"added twice", "staff">> \in RacesOf(t, u)
    BY <1>6 DEF RacesOf
  <2> QED
    BY <1>1, <1>6, <2>1 DEF AddedTwice, Works, Unraced
<1> QED
  BY <1>2, <1>3, <1>4, <1>5, <1>6

\* A request that goes on finds what it found, if the tables that this depends on stay.
LEMMA GoesOn ==
  ASSUME races \subseteq races', NEW u \in Threads, txn'[u] = txn[u]
  PROVE  /\ UNCHANGED profile /\ LedOn(u) => LedOn(u)'
         /\ /\ StillOpen(u)
            /\ Works(u, {"reject", "approve", "approved"})
                 => unlock'[txn[u].request].status = unlock[txn[u].request].status
            => StillOpen(u)'
         /\ /\ CountStands(u)
            /\ Works(u, {"approved"})
                 => ClubsIn(approvals', txn[u].request) = ClubsIn(approvals, txn[u].request)
            => CountStands(u)'
         /\ UNCHANGED profile /\ (Tracked => Tracked') /\ TracksLate(u) => TracksLate(u)'
         /\ UNCHANGED staff /\ RoomLeft(u) => RoomLeft(u)'
<1>1. \A kind, x : Unraced(kind, x)' => Unraced(kind, x)
  BY DEF Unraced
<1>2. /\ \A ops : Works(u, ops)' <=> Works(u, ops)
      /\ (Submits(u)' <=> Submits(u)) /\ (Leads(u)' <=> Leads(u)) /\ Goal(u)' = Goal(u)
  BY DEF Works, Submits, Leads, Goal
<1>3. UNCHANGED profile /\ LedOn(u) => LedOn(u)'
  BY <1>1, <1>2 DEF LedOn, Follows
<1>4. /\ StillOpen(u)
      /\ Works(u, {"reject", "approve", "approved"})
           => unlock'[txn[u].request].status = unlock[txn[u].request].status
      => StillOpen(u)'
  BY <1>1 DEF StillOpen, Works
<1>5. /\ CountStands(u)
      /\ Works(u, {"approved"})
           => ClubsIn(approvals', txn[u].request) = ClubsIn(approvals, txn[u].request)
      => CountStands(u)'
  BY <1>1 DEF CountStands, Works
<1>6. UNCHANGED profile /\ (Tracked => Tracked') /\ TracksLate(u) => TracksLate(u)'
  BY <1>1 DEF TracksLate, Works, Submits, Awaiting
<1>7. UNCHANGED staff /\ RoomLeft(u) => RoomLeft(u)'
  BY <1>1 DEF RoomLeft, Works, HasRoom
<1> QED
  BY <1>3, <1>4, <1>5, <1>6, <1>7

\* The rows stay; a request may begin or go on, if what it found is so, or end.
LEMMA QuietKeeps ==
  ASSUME RaceInv, races \subseteq races', UNCHANGED <<profile, unlock, approvals, staff>>,
         \A u \in Threads : txn'[u] = txn[u] \/ txn'[u] = NoTxn \/ FoundStillHolds(u)'
  PROVE  PromisesUnlessRaced' /\ (\A u \in Threads : FoundStillHolds(u)') /\ Promises
<1>1. ASSUME NEW u \in Threads PROVE FoundStillHolds(u)'
  <2>1. CASE txn'[u] = txn[u]
    <3>1. FoundStillHolds(u) /\ Tracked' = Tracked
      BY DEF RaceInv, Tracked
    <3> QED
      BY <2>1, <3>1, GoesOn DEF FoundStillHolds
  <2>2. CASE txn'[u] = NoTxn
    BY <2>2 DEF FoundStillHolds, LedOn, StillOpen, CountStands, TracksLate, RoomLeft, Leads,
       Submits, Works
  <2> QED
    BY <1>1, <2>1, <2>2
<1>2. PromisesUnlessRaced'
  BY DEF RaceInv, PromisesUnlessRaced, QuorumDecides, LateSubmissionTracked, StaffWithinCap,
     ClubsFor, Unraced
<1>3. Promises
  BY DEF Promises, LifecycleStep, DecisionStands
<1> QED
  BY <1>1, <1>2, <1>3
\* A request begins in the state in which its guards hold.
LEMMA BeginFinds ==
  ASSUME IInv, NEW t \in Threads,
         \/ \E u \in Users, k \in RequestIds : BeginApprove(t, u, k) \/ BeginReject(t, u, k)
         \/ \E u \in Users : BeginSubmit(t, u)
         \/ \E target \in ProfileStatus : BeginTransition(t, target)
         \/ BeginAddStaff(t) \/ \E s \in StaffIds : BeginRemoveStaff(t, s)
  PROVE  /\ FoundStillHolds(t)' /\ UNCHANGED <<profile, unlock, approvals, staff>>
         /\ \A u \in Threads : u # t => txn'[u] = txn[u]
<1>0. PICK work : Begin(t, work)
  BY DEF BeginApprove, BeginReject, BeginSubmit, BeginTransition, BeginAddStaff, BeginRemoveStaff
<1>1. /\ UNCHANGED <<profile, unlock, approvals, staff>> /\ txn'[t] = work
      /\ \A u \in Threads : u # t => txn'[u] = txn[u]
  BY <1>0 DEF Begin, IInv, TypeOK
<1> USE <1>1 DEF Begin, IInv, TypeOK, FoundStillHolds, LedOn, StillOpen, CountStands, TracksLate,
                 RoomLeft, Leads, Submits, Goal, Works
<1>2. ASSUME NEW u \in Users, NEW k \in RequestIds, BeginApprove(t, u, k)
      PROVE  FoundStillHolds(t)'
  BY <1>2 DEF BeginApprove, MayDecide, WithStatus
<1>3. ASSUME NEW u \in Users, NEW k \in RequestIds, BeginReject(t, u, k)
      PROVE  FoundStillHolds(t)'
  BY <1>3 DEF BeginReject, MayDecide, WithStatus
<1>4. ASSUME NEW u \in Users, BeginSubmit(t, u) PROVE FoundStillHolds(t)'
  BY <1>4 DEF BeginSubmit, Follows, Lifecycle
<1>5. ASSUME NEW target \in ProfileStatus, BeginTransition(t, target)
      PROVE  FoundStillHolds(t)'
  BY <1>5 DEF BeginTransition, Transitions, Follows, Lifecycle
<1>6. CASE BeginAddStaff(t)
  BY <1>6 DEF BeginAddStaff, HasRoom
<1>7. ASSUME NEW s \in StaffIds, BeginRemoveStaff(t, s) PROVE FoundStillHolds(t)'
  BY <1>7 DEF BeginRemoveStaff
<1> QED
  BY <1>1, <1>2, <1>3, <1>4, <1>5, <1>6, <1>7

\* It goes on with what it has counted: without a quorum its approval decides nothing, and with
\* one a late profile is loaded if one waits for it.
LEMMA FlushFinds ==
  ASSUME IInv, races \subseteq races', NEW t \in Threads, FoundStillHolds(t),
         FlushApprove(t) \/ FlushSubmit(t)
  PROVE  /\ FoundStillHolds(t)' /\ UNCHANGED <<profile, unlock, approvals, staff>>
         /\ \A u \in Threads : u # t => txn'[u] = txn[u]
<1>1. CASE FlushApprove(t)
  <2> DEFINE k == txn[t].request
             u == txn[t].by
  <2>1. /\ txn[t] # NoTxn /\ txn[t].op = "approve"
        /\ txn'[t].op = "approved" /\ txn'[t].by = u /\ txn'[t].request = k
        /\ txn'[t].quorum = Quorum(k, u) /\ txn'[t].auto = (Quorum(k, u) /\ Awaiting)
        /\ UNCHANGED <<profile, unlock, approvals, staff>>
        /\ \A o \in Threads : o # t => txn'[o] = txn[o]
    BY <1>1 DEF FlushApprove, Flush, Running, IInv, TypeOK
  <2>2. k \in RequestIds /\ Awaiting' = Awaiting
    BY <2>1, TxnFields DEF IInv, Awaiting
  <2> USE <2>1, <2>2 DEF Works, Submits
  <2>3. LedOn(t)'
    BY DEF LedOn, Leads, Goal, Follows, Awaiting
  <2>4. StillOpen(t)'
    BY DEF FoundStillHolds, StillOpen, Unraced
  <2>5. CountStands(t)'
    <3>1. Cardinality(ClubsIn(approvals, k) \cup {ClubOf[u]}) \in Nat
      BY ClubsFinite DEF IInv
    <3>2. ~Quorum(k, u) => Cardinality(ClubsIn(approvals, k) \cup {ClubOf[u]}) < MinApprovals
      BY <3>1, QuorumCounts, ClubSeasonAssumption
    <3> QED
      BY <3>2 DEF CountStands
  <2>6. TracksLate(t)' /\ RoomLeft(t)'
    BY DEF TracksLate, RoomLeft
  <2> QED
    BY <2>3, <2>4, <2>5, <2>6 DEF FoundStillHolds
<1>2. CASE FlushSubmit(t)
  <2>1. /\ txn[t] # NoTxn /\ txn[t].op = "submit"
        /\ txn'[t].op = "submitted" /\ txn'[t].late = txn[t].late
        /\ txn'[t].wasLate = txn[t].wasLate /\ txn'[t].status = txn[t].status
        /\ txn'[t].request = NeedsRequest(txn[t].late)
        /\ UNCHANGED <<profile, unlock, approvals, staff>>
        /\ \A o \in Threads : o # t => txn'[o] = txn[o]
    BY <1>2 DEF FlushSubmit, Flush, Running, IInv, TypeOK
  <2>2. Tracked' = Tracked /\ (txn[t].late => NeedsRequest(txn[t].late) \/ Tracked)
    BY <2>1 DEF NeedsRequest, WithStatus, Tracked
  <2> USE <2>1, <2>2 DEF Works, Submits
  <2>3. LedOn(t)'
    BY DEF FoundStillHolds, LedOn, Leads, Goal, Follows, Unraced
  <2>4. TracksLate(t)'
    BY DEF FoundStillHolds, TracksLate, Unraced
  <2>5. StillOpen(t)' /\ CountStands(t)' /\ RoomLeft(t)'
    BY DEF StillOpen, CountStands, RoomLeft
  <2> QED
    BY <2>3, <2>4, <2>5 DEF FoundStillHolds
<1> QED
  BY <1>1, <1>2

\* A request that ends leaves the others as they are.
LEMMA OthersStay ==
  ASSUME IInv, NEW t \in Threads, End(t)
  PROVE  /\ txn'[t] = NoTxn /\ FoundStillHolds(t)'
         /\ \A u \in Threads : u # t => txn'[u] = txn[u]
<1>1. txn'[t] = NoTxn /\ \A u \in Threads : u # t => txn'[u] = txn[u]
  BY DEF End, IInv, TypeOK
<1> QED
  BY <1>1 DEF FoundStillHolds, LedOn, StillOpen, CountStands, TracksLate, RoomLeft, Leads,
     Submits, Works

\* A row of an unlock request is new: nobody approves it, nor can have approved it.
LEMMA NewRequestKeeps ==
  ASSUME IInv, NEW k \in RequestIds, unlock[k] = NoRow, NEW u \in Users,
         unlock' = [unlock EXCEPT ![k] = [by |-> u, status |-> "pending"]], UNCHANGED approvals
  PROVE  /\ \A j \in RequestIds : QuorumDecides(j) => QuorumDecides(j)'
         /\ \A j \in RequestIds : DecisionStands(j)
         /\ Tracked'
         /\ \A o \in Threads : Works(o, {"reject", "approve", "approved"}) =>
              unlock'[txn[o].request].status = unlock[txn[o].request].status
<1>1. /\ unlock'[k] = [by |-> u, status |-> "pending"]
      /\ \A j \in RequestIds : j # k => unlock'[j] = unlock[j]
  BY DEF IInv, TypeOK
<1>2. ClubsFor(k) = {}
  BY DEF ClubsFor, IInv, ApprovalsByOthers
<1>3. Cardinality(ClubsFor(k)) < MinApprovals
  BY <1>2, FS_EmptySet, ClubSeasonAssumption
<1>4. \A j \in RequestIds : ClubsFor(j)' = ClubsFor(j)
  BY DEF ClubsFor
<1>5. \A j \in RequestIds : QuorumDecides(j) => QuorumDecides(j)'
  BY <1>1, <1>3, <1>4 DEF QuorumDecides
<1>6. \A j \in RequestIds : DecisionStands(j)
  BY <1>1 DEF DecisionStands
<1>7. Tracked'
  <2>1. unlock'[k] \in UnlockRequest /\ unlock'[k].status = "pending"
    BY <1>1 DEF UnlockRequest
  <2> QED
    BY <2>1, NullAssumption DEF Tracked
<1>8. ASSUME NEW o \in Threads, Works(o, {"reject", "approve", "approved"})
      PROVE  unlock'[txn[o].request].status = unlock[txn[o].request].status
  <2>1. txn[o].request \in RequestIds /\ unlock[txn[o].request] # NoRow
    BY <1>8, TxnFields DEF Works, IInv, RequestsSound, Sound
  <2> QED
    BY <1>1, <2>1
<1> QED
  BY <1>5, <1>6, <1>7, <1>8

\* A step outside the requests: there is no request about a row that is new.
LEMMA OutsideRaces ==
  ASSUME IInv, RaceInv, races \subseteq races',
         \/ WindowChanges \/ SquadCompletes \/ CreateProfile
         \/ \E u \in Users, k \in RequestIds : CreateUnlockRequest(u, k)
  PROVE  PromisesUnlessRaced' /\ (\A u \in Threads : FoundStillHolds(u)') /\ Promises
<1>1. CASE WindowChanges \/ SquadCompletes
  BY <1>1, QuietKeeps DEF WindowChanges, SquadCompletes
<1>2. CASE CreateProfile
  <2>1. /\ profile = NoRow /\ profile' = [status |-> "draft", late |-> FALSE]
        /\ UNCHANGED <<unlock, approvals, staff, txn>>
    BY <1>2 DEF CreateProfile
  <2>2. ASSUME NEW t \in Threads PROVE FoundStillHolds(t)'
    <3>1. ~Leads(t) /\ ~Submits(t)
      BY <2>1 DEF IInv, RequestsSound, Sound, Works, Leads, Submits
    <3>2. ~Leads(t)' /\ ~Submits(t)' /\ ~Awaiting'
      BY <2>1, <3>1 DEF Leads, Submits, Works, Awaiting
    <3>3. LedOn(t)' /\ TracksLate(t)'
      BY <3>2 DEF LedOn, TracksLate, Submits, Works
    <3>4. StillOpen(t)' /\ CountStands(t)' /\ RoomLeft(t)'
      BY <2>1, GoesOn DEF RaceInv, FoundStillHolds
    <3> QED
      BY <3>3, <3>4 DEF FoundStillHolds
  <2>3. PromisesUnlessRaced'
    BY <2>1 DEF RaceInv, PromisesUnlessRaced, QuorumDecides, LateSubmissionTracked,
       StaffWithinCap, ClubsFor, Unraced
  <2>4. Promises
    BY <2>1 DEF Promises, LifecycleStep, DecisionStands
  <2> QED
    BY <2>2, <2>3, <2>4
<1>3. ASSUME NEW u \in Users, NEW k \in RequestIds, CreateUnlockRequest(u, k)
      PROVE  PromisesUnlessRaced' /\ (\A t \in Threads : FoundStillHolds(t)') /\ Promises
  <2>1. /\ unlock[k] = NoRow
        /\ unlock' = [unlock EXCEPT ![k] = [by |-> u, status |-> "pending"]]
        /\ UNCHANGED <<profile, approvals, staff, txn>>
    BY <1>3 DEF CreateUnlockRequest
  <2>2. /\ \A j \in RequestIds : QuorumDecides(j) => QuorumDecides(j)'
        /\ \A j \in RequestIds : DecisionStands(j)
        /\ Tracked'
        /\ \A o \in Threads : Works(o, {"reject", "approve", "approved"}) =>
             unlock'[txn[o].request].status = unlock[txn[o].request].status
    BY <2>1, NewRequestKeeps
  <2>3. ASSUME NEW t \in Threads PROVE FoundStillHolds(t)'
    <3>1. FoundStillHolds(t) /\ txn'[t] = txn[t] /\ \A j : ClubsIn(approvals', j) = ClubsIn(approvals, j)
      BY <2>1 DEF RaceInv
    <3> QED
      BY <2>1, <2>2, <3>1, GoesOn DEF FoundStillHolds
  <2>4. PromisesUnlessRaced'
    BY <2>1, <2>2 DEF RaceInv, PromisesUnlessRaced, LateSubmissionTracked, Tracked,
       StaffWithinCap, Unraced
  <2>5. Promises
    BY <2>1, <2>2 DEF Promises, LifecycleStep
  <2> QED
    BY <2>3, <2>4, <2>5
<1> QED
  BY <1>1, <1>2, <1>3
-----------------------------------------------------------------------------
(* Commits *)

\* A request that leads the profile to a status leads it on, and to where the others in progress
\* lead it, too.
LEMMA LeadsOn ==
  ASSUME IInv, RaceInv, races \subseteq races', NEW t \in Threads, Leads(t), profile # NoRow,
         profile'.status = Goal(t), profile'.late = profile.late \/ Submits(t)
  PROVE  /\ Unraced("led apart", "profile") => LifecycleStep
         /\ \A u \in Threads : u # t /\ txn'[u] = txn[u] => LedOn(u)'
<1>1. ASSUME Unraced("led apart", "profile") PROVE LifecycleStep
  <2>1. profile.status = Goal(t) \/ Follows(profile, Goal(t))
    BY <1>1 DEF RaceInv, FoundStillHolds, LedOn
  <2> QED
    BY <2>1 DEF LifecycleStep, Follows, Lifecycle
<1>2. ASSUME NEW u \in Threads, u # t, txn'[u] = txn[u] PROVE LedOn(u)'
  <2>1. (Leads(u)' <=> Leads(u)) /\ Goal(u)' = Goal(u)
    BY <1>2 DEF Leads, Submits, Goal, Works
  <2>2. Unraced("led apart", "profile")' => ~LedApart(t, u)
    BY <1>2, NoRace DEF Unraced
  <2> QED
    BY <2>1, <2>2 DEF LedApart, LedOn
<1> QED
  BY <1>1, <1>2

\* An approval decides the request if it completes the quorum, and then approves the late
\* profile that waits for it.
LEMMA ApproveRaces ==
  ASSUME IInv, RaceInv, races \subseteq races', NEW t \in Threads, CommitApprove(t)
  PROVE  PromisesUnlessRaced' /\ (\A u \in Threads : FoundStillHolds(u)') /\ Promises
<1> DEFINE k == txn[t].request
           c == ClubOf[txn[t].by]
<1>1. /\ Works(t, {"approved"}) /\ k \in RequestIds /\ txn[t].by \in Users
      /\ unlock[k] \in UnlockRequest /\ unlock[k] # NoRow /\ unlock[k].by # txn[t].by /\ c # NoClub
      /\ txn[t].quorum \in BOOLEAN /\ txn[t].auto \in BOOLEAN
      /\ txn[t].auto => txn[t].quorum /\ profile # NoRow /\ profile \in Profile
  BY TxnFields DEF CommitApprove, Running, IInv, TypeOK, RequestsSound, Sound, Works
<1>2. /\ approvals' = approvals \cup {[request |-> k, by |-> txn[t].by, club |-> c]}
      /\ unlock' = IF txn[t].quorum THEN [unlock EXCEPT ![k].status = "approved"] ELSE unlock
      /\ profile' = IF txn[t].auto THEN [profile EXCEPT !.status = "approved"] ELSE profile
      /\ UNCHANGED staff /\ End(t)
  BY DEF CommitApprove
<1>3. /\ \A j \in RequestIds : j # k => unlock'[j] = unlock[j]
      /\ txn[t].quorum => unlock'[k].status = "approved"
      /\ ~txn[t].quorum => unlock' = unlock
  BY <1>1, <1>2, StatusSet
<1>4. /\ ClubsIn(approvals', k) = ClubsIn(approvals, k) \cup {c}
      /\ \A j \in RequestIds : j # k => ClubsIn(approvals', j) = ClubsIn(approvals, j)
  <2>1. ClubsIn(approvals', k) = ClubsIn(approvals, k) \cup {c}
    BY <1>1, <1>2, ApprovalInserted
  <2>2. ASSUME NEW j \in RequestIds, j # k PROVE ClubsIn(approvals', j) = ClubsIn(approvals, j)
    BY <1>2, <2>2 DEF ClubsIn
  <2> QED
    BY <2>1, <2>2
<1>5. FoundStillHolds(t)' /\ \A u \in Threads : u # t => txn'[u] = txn[u]
  BY <1>2, OthersStay
<1>6. txn[t].auto => /\ profile'.status = "approved" /\ profile'.late = profile.late
                     /\ Leads(t) /\ Goal(t) = "approved"
  BY <1>1, <1>2 DEF Profile, Leads, Goal, Submits, Works
\* After an approval with a quorum no late profile waits.
<1>7. Unraced("submitted while unlocked", "profile") /\ txn[t].quorum => ~Awaiting'
  <2>1. CASE txn[t].auto
    BY <1>6, <2>1 DEF Awaiting
  <2>2. CASE ~txn[t].auto
    BY <1>1, <1>2, <2>2 DEF Awaiting, RaceInv, FoundStillHolds, TracksLate
  <2> QED
    BY <2>1, <2>2
<1>8. ASSUME NEW u \in Threads, u # t PROVE FoundStillHolds(u)'
  <2>1. txn'[u] = txn[u] /\ FoundStillHolds(u)
    BY <1>5, <1>8 DEF RaceInv
  <2>2. LedOn(u)'
    <3>1. CASE txn[t].auto
      BY <1>1, <1>6, <1>8, <2>1, <3>1, LeadsOn
    <3>2. CASE ~txn[t].auto
      BY <1>2, <2>1, <3>2, GoesOn DEF FoundStillHolds
    <3> QED
      BY <1>1, <3>1, <3>2
  <2>3. StillOpen(u)'
    <3>1. CASE /\ Works(u, {"reject", "approve", "approved"}) /\ txn[u].request = k
               /\ Unraced("rejected while approved", k)
      <4>1. ~Works(u, {"reject"})
        BY <1>1, <1>8, <3>1, NoRace DEF RejectedWhileApproved, Works
      <4>2. unlock'[k].status \in {"pending", "approved"}
        BY <1>3, <2>1, <3>1, <4>1 DEF FoundStillHolds, StillOpen, Works
      <4> QED
        BY <2>1, <3>1, <4>1, <4>2 DEF StillOpen, Works
    <3>2. CASE Works(u, {"reject", "approve", "approved"}) /\ txn[u].request # k
      <4>1. txn[u].request \in RequestIds
        BY <3>2, TxnFields DEF Works, IInv
      <4> QED
        BY <1>3, <2>1, <3>2, <4>1, GoesOn DEF FoundStillHolds
    <3>3. CASE \/ ~Works(u, {"reject", "approve", "approved"})
               \/ txn[u].request = k /\ ~Unraced("rejected while approved", k)
      BY <2>1, <3>3 DEF StillOpen, Works, Unraced
    <3> QED
      BY <3>1, <3>2, <3>3
  <2>4. CountStands(u)'
    <3>1. CASE Works(u, {"approved"}) /\ txn[u].request = k
      <4>1. ~Unraced("approved twice", k)
        BY <1>1, <1>8, <3>1, NoRace DEF ApprovedTwice
      <4> QED
        BY <2>1, <3>1, <4>1 DEF CountStands, Unraced
    <3>2. CASE Works(u, {"approved"}) /\ txn[u].request # k
      <4>1. txn[u].request \in RequestIds
        BY <3>2, TxnFields DEF Works, IInv
      <4> QED
        BY <1>4, <2>1, <3>2, <4>1, GoesOn DEF FoundStillHolds
    <3>3. CASE ~Works(u, {"approved"})
      BY <2>1, <3>3 DEF CountStands, Works
    <3> QED
      BY <3>1, <3>2, <3>3
  <2>5. TracksLate(u)'
    <3>1. CASE txn[t].quorum /\ Unraced("submitted while unlocked", "profile")
      <4>1. ~Submits(u)
        BY <1>1, <1>8, <3>1, NoRace DEF SubmittedWhileUnlocked
      <4> QED
        BY <1>7, <2>1, <3>1, <4>1 DEF TracksLate, Submits, Works
    <3>2. CASE txn[t].quorum /\ ~Unraced("submitted while unlocked", "profile")
      BY <3>2 DEF TracksLate, Unraced
    <3>3. CASE ~txn[t].quorum
      <4>1. UNCHANGED <<profile, unlock>> /\ Tracked' = Tracked
        BY <1>1, <1>2, <3>3 DEF Tracked
      <4> QED
        BY <2>1, <4>1, GoesOn DEF FoundStillHolds
    <3> QED
      BY <1>1, <3>1, <3>2, <3>3
  <2>6. RoomLeft(u)'
    BY <1>2, <2>1, GoesOn DEF FoundStillHolds
  <2> QED
    BY <2>2, <2>3, <2>4, <2>5, <2>6 DEF FoundStillHolds
<1>9. ASSUME NEW j \in RequestIds, Unraced("approved twice", j) PROVE QuorumDecides(j)'
  <2>1. CASE j = k /\ unlock'[j] # NoRow /\ unlock'[j].status = "pending"
    <3>1. ~txn[t].quorum
      BY <1>3, <2>1
    <3>2. Cardinality(ClubsIn(approvals, k) \cup {c}) < MinApprovals
      BY <1>1, <1>9, <2>1, <3>1 DEF RaceInv, FoundStillHolds, CountStands
    <3> QED
      BY <1>4, <2>1, <3>2 DEF QuorumDecides, ClubsFor, ClubsIn
  <2>2. CASE j # k
    <3>1. ClubsFor(j)' = ClubsFor(j) /\ unlock'[j] = unlock[j]
      BY <1>3, <1>4, <2>2 DEF ClubsFor, ClubsIn
    <3> QED
      BY <1>9, <3>1 DEF RaceInv, PromisesUnlessRaced, QuorumDecides
  <2> QED
    BY <2>1, <2>2 DEF QuorumDecides
<1>10. Unraced("submitted while unlocked", "profile") => LateSubmissionTracked'
  <2>1. CASE txn[t].quorum
    BY <1>7, <2>1 DEF LateSubmissionTracked, Awaiting
  <2>2. CASE ~txn[t].quorum
    BY <1>1, <1>2, <2>2 DEF RaceInv, PromisesUnlessRaced, LateSubmissionTracked
  <2> QED
    BY <2>1, <2>2
<1>11. PromisesUnlessRaced'
  BY <1>2, <1>9, <1>10 DEF RaceInv, PromisesUnlessRaced, StaffWithinCap, Unraced
<1>12. Unraced("led apart", "profile") => LifecycleStep
  <2>1. CASE txn[t].auto
    BY <1>1, <1>6, <2>1, LeadsOn
  <2>2. CASE ~txn[t].auto
    BY <1>2, <2>2 DEF LifecycleStep
  <2> QED
    BY <1>1, <2>1, <2>2
<1>13. ASSUME NEW j \in RequestIds, Unraced("rejected while approved", j) PROVE DecisionStands(j)
  <2>1. CASE j = k /\ txn[t].quorum /\ unlock[k].status # "pending"
    <3>1. unlock[k].status = "approved"
      BY <1>1, <1>13, <2>1 DEF RaceInv, FoundStillHolds, StillOpen, Works
    <3>2. [unlock[k] EXCEPT !.status = "approved"] = unlock[k]
      BY <1>1, <3>1 DEF UnlockRequest
    <3>3. unlock'[k] = unlock[k]
      BY <1>1, <1>2, <2>1, <3>2 DEF IInv, TypeOK
    <3> QED
      BY <2>1, <3>3 DEF DecisionStands
  <2>2. CASE j # k \/ ~txn[t].quorum \/ unlock[k].status = "pending"
    BY <1>3, <2>2 DEF DecisionStands
  <2> QED
    BY <2>1, <2>2
<1> QED
  BY <1>5, <1>8, <1>11, <1>12, <1>13 DEF Promises
\* A rejection decides no request that another one approves.
LEMMA RejectRaces ==
  ASSUME IInv, RaceInv, races \subseteq races', NEW t \in Threads, CommitReject(t)
  PROVE  PromisesUnlessRaced' /\ (\A u \in Threads : FoundStillHolds(u)') /\ Promises
<1> DEFINE k == txn[t].request
<1>1. /\ Works(t, {"reject"}) /\ k \in RequestIds
      /\ unlock[k] \in UnlockRequest /\ unlock[k] # NoRow
  BY TxnFields DEF CommitReject, Running, IInv, TypeOK, RequestsSound, Sound, Works
<1>2. /\ unlock' = [unlock EXCEPT ![k].status = "rejected"] /\ End(t)
      /\ UNCHANGED <<profile, approvals, staff>>
  BY DEF CommitReject
<1>3. /\ \A j \in RequestIds : j # k => unlock'[j] = unlock[j]
      /\ unlock'[k].status = "rejected" /\ unlock'[k] # NoRow
  BY <1>1, <1>2, StatusSet
<1>4. FoundStillHolds(t)' /\ \A u \in Threads : u # t => txn'[u] = txn[u]
  BY <1>2, OthersStay
<1>5. Tracked'
  BY <1>1, <1>3 DEF Tracked
<1>6. ASSUME NEW u \in Threads, u # t PROVE FoundStillHolds(u)'
  <2>1. txn'[u] = txn[u] /\ FoundStillHolds(u)
    BY <1>4, <1>6 DEF RaceInv
  <2>2. StillOpen(u)'
    <3>1. CASE /\ Works(u, {"reject", "approve", "approved"}) /\ txn[u].request = k
               /\ Unraced("rejected while approved", k)
      <4>1. ~Works(u, {"approve", "approved"})
        BY <1>1, <1>6, <3>1, NoRace DEF RejectedWhileApproved
      <4> QED
        BY <1>3, <2>1, <3>1, <4>1 DEF StillOpen, Works
    <3>2. CASE Works(u, {"reject", "approve", "approved"}) /\ txn[u].request # k
      <4>1. txn[u].request \in RequestIds
        BY <3>2, TxnFields DEF Works, IInv
      <4> QED
        BY <1>3, <2>1, <3>2, <4>1, GoesOn DEF FoundStillHolds
    <3>3. CASE \/ ~Works(u, {"reject", "approve", "approved"})
               \/ txn[u].request = k /\ ~Unraced("rejected while approved", k)
      BY <2>1, <3>3 DEF StillOpen, Works, Unraced
    <3> QED
      BY <3>1, <3>2, <3>3
  <2> QED
    BY <1>2, <1>5, <2>1, <2>2, GoesOn DEF FoundStillHolds
<1>7. PromisesUnlessRaced'
  BY <1>2, <1>3, <1>5 DEF RaceInv, PromisesUnlessRaced, QuorumDecides, LateSubmissionTracked,
     Tracked, StaffWithinCap, ClubsFor, Unraced
<1>8. ASSUME NEW j \in RequestIds, Unraced("rejected while approved", j) PROVE DecisionStands(j)
  <2>1. CASE j = k /\ unlock[k].status # "pending"
    <3>1. unlock[k].status = "rejected"
      BY <1>1, <1>8, <2>1 DEF RaceInv, FoundStillHolds, StillOpen, Works
    <3>2. [unlock[k] EXCEPT !.status = "rejected"] = unlock[k]
      BY <1>1, <3>1 DEF UnlockRequest
    <3>3. unlock'[k] = unlock[k]
      BY <1>1, <1>2, <3>2 DEF IInv, TypeOK
    <3> QED
      BY <2>1, <3>3 DEF DecisionStands
  <2>2. CASE j # k \/ unlock[k].status = "pending"
    BY <1>3, <2>2 DEF DecisionStands
  <2> QED
    BY <2>1, <2>2
<1> QED
  BY <1>2, <1>4, <1>6, <1>7, <1>8 DEF Promises, LifecycleStep

\* A late submission leaves behind a request that is still to be decided, and nothing approves
\* that one meanwhile.
LEMMA SubmitRaces ==
  ASSUME IInv, RaceInv, races \subseteq races', NEW t \in Threads, NEW k \in RequestIds,
         CommitSubmit(t, k)
  PROVE  PromisesUnlessRaced' /\ (\A u \in Threads : FoundStillHolds(u)') /\ Promises
<1>1. /\ Works(t, {"submitted"}) /\ Submits(t) /\ Leads(t) /\ Goal(t) = txn[t].status
      /\ profile # NoRow /\ txn[t].by \in Users
      /\ txn[t].late \in BOOLEAN /\ txn[t].wasLate \in BOOLEAN
  BY TxnFields DEF CommitSubmit, Running, IInv, RequestsSound, Sound, Works, Submits, Leads, Goal
<1>2. /\ profile'.status = txn[t].status
      /\ profile'.late = IF txn[t].late # txn[t].wasLate THEN txn[t].late ELSE profile.late
      /\ UNCHANGED <<approvals, staff>> /\ End(t)
  BY DEF CommitSubmit
<1>3. /\ \A j \in RequestIds : QuorumDecides(j) => QuorumDecides(j)'
      /\ \A j \in RequestIds : DecisionStands(j)
      /\ txn[t].request \/ Tracked => Tracked'
      /\ \A o \in Threads : Works(o, {"reject", "approve", "approved"}) =>
           unlock'[txn[o].request].status = unlock[txn[o].request].status
  <2>1. CASE txn[t].request
    <3>1. /\ unlock[k] = NoRow
          /\ unlock' = [unlock EXCEPT ![k] = [by |-> txn[t].by, status |-> "pending"]]
      BY <2>1 DEF CommitSubmit
    <3> QED
      BY <1>1, <1>2, <3>1, NewRequestKeeps
  <2>2. CASE ~txn[t].request
    <3>1. UNCHANGED unlock
      BY <2>2 DEF CommitSubmit
    <3> QED
      BY <1>2, <2>2, <3>1 DEF QuorumDecides, DecisionStands, ClubsFor, Tracked
  <2> QED
    BY <2>1, <2>2
<1>4. FoundStillHolds(t)' /\ \A u \in Threads : u # t => txn'[u] = txn[u]
  BY <1>2, OthersStay
<1>5. FoundStillHolds(t)
  BY DEF RaceInv
<1>6. Unraced("submitted while unlocked", "profile") /\ txn[t].late => Tracked'
  BY <1>1, <1>3, <1>5 DEF FoundStillHolds, TracksLate
<1>7. /\ Unraced("led apart", "profile") => LifecycleStep
      /\ \A u \in Threads : u # t /\ txn'[u] = txn[u] => LedOn(u)'
  BY <1>1, <1>2, LeadsOn
<1>8. ASSUME NEW u \in Threads, u # t PROVE FoundStillHolds(u)'
  <2>1. txn'[u] = txn[u] /\ FoundStillHolds(u)
    BY <1>4, <1>8 DEF RaceInv
  <2>2. LedOn(u)'
    BY <1>7, <1>8, <2>1
  <2>3. StillOpen(u)' /\ CountStands(u)' /\ RoomLeft(u)'
    BY <1>2, <1>3, <2>1, GoesOn DEF FoundStillHolds
  <2>4. ASSUME Unraced("submitted while unlocked", "profile") PROVE TracksLate(u)'
    <3>1. ~(Works(u, {"approved"}) /\ txn[u].quorum)
      BY <1>1, <1>8, <2>4, NoRace DEF SubmittedWhileUnlocked
    <3>2. Works(u, {"submitted"}) /\ txn[u].late => txn[u].request \/ Tracked'
      BY <1>3, <2>1, <2>4 DEF FoundStillHolds, TracksLate
    <3>3. Submits(u) /\ ~txn[u].wasLate /\ ~txn[u].late /\ profile'.late => Tracked'
      BY <1>1, <1>2, <1>3, <1>6, <2>1, <2>4 DEF FoundStillHolds, TracksLate
    <3> QED
      BY <2>1, <3>1, <3>2, <3>3 DEF TracksLate, Submits, Works
  <2>5. TracksLate(u)'
    BY <2>4 DEF TracksLate, Unraced
  <2> QED
    BY <2>2, <2>3, <2>5 DEF FoundStillHolds
<1>9. ASSUME Unraced("submitted while unlocked", "profile"), profile'.late PROVE Tracked'
  <2>1. CASE txn[t].late
    BY <1>6, <1>9, <2>1
  <2>2. CASE ~txn[t].late
    <3>1. ~txn[t].wasLate /\ profile.late
      BY <1>1, <1>2, <1>9, <2>2
    <3>2. Tracked
      BY <1>1, <1>5, <1>9, <2>2, <3>1 DEF FoundStillHolds, TracksLate
    <3> QED
      BY <1>3, <3>2
  <2> QED
    BY <2>1, <2>2
<1>10. PromisesUnlessRaced'
  BY <1>2, <1>3, <1>9 DEF RaceInv, PromisesUnlessRaced, LateSubmissionTracked, Tracked,
     StaffWithinCap, Unraced
<1> QED
  BY <1>3, <1>4, <1>7, <1>8, <1>10 DEF Promises

\* No transition makes a profile wait for its review.
LEMMA TransitionRaces ==
  ASSUME IInv, RaceInv, races \subseteq races', NEW t \in Threads, CommitTransition(t)
  PROVE  PromisesUnlessRaced' /\ (\A u \in Threads : FoundStillHolds(u)') /\ Promises
<1>1. /\ Works(t, {"transition"}) /\ Leads(t) /\ Goal(t) = txn[t].target
      /\ profile # NoRow /\ profile \in Profile
      /\ txn[t].target \in {"reviewed", "approved", "returned"}
  BY TxnFields DEF CommitTransition, Running, IInv, TypeOK, RequestsSound, Sound, Works, Submits,
     Leads, Goal
<1>2. /\ profile'.status = txn[t].target /\ profile'.late = profile.late
      /\ UNCHANGED <<unlock, approvals, staff>> /\ End(t)
  BY <1>1 DEF CommitTransition, Profile
<1>3. FoundStillHolds(t)' /\ \A u \in Threads : u # t => txn'[u] = txn[u]
  BY <1>2, OthersStay
<1>4. /\ Unraced("led apart", "profile") => LifecycleStep
      /\ \A u \in Threads : u # t /\ txn'[u] = txn[u] => LedOn(u)'
  BY <1>1, <1>2, LeadsOn
<1>5. ~Awaiting' /\ Tracked' = Tracked
  BY <1>1, <1>2 DEF Awaiting, Tracked
<1>6. ASSUME NEW u \in Threads, u # t PROVE FoundStillHolds(u)'
  <2>1. txn'[u] = txn[u] /\ FoundStillHolds(u) /\ LedOn(u)'
    BY <1>3, <1>4, <1>6 DEF RaceInv
  <2>2. StillOpen(u)' /\ CountStands(u)' /\ RoomLeft(u)'
    BY <1>2, <2>1, GoesOn DEF FoundStillHolds
  <2>3. TracksLate(u)'
    BY <1>2, <1>5, <2>1 DEF FoundStillHolds, TracksLate, Submits, Works, Unraced
  <2> QED
    BY <2>1, <2>2, <2>3 DEF FoundStillHolds
<1>7. PromisesUnlessRaced'
  BY <1>2, <1>5 DEF RaceInv, PromisesUnlessRaced, QuorumDecides, LateSubmissionTracked, Awaiting,
     StaffWithinCap, ClubsFor, Unraced
<1> QED
  BY <1>2, <1>3, <1>4, <1>6, <1>7 DEF Promises, DecisionStands

\* One person more where there was room and nobody else was added, or one less.
LEMMA StaffRaces ==
  ASSUME IInv, RaceInv, races \subseteq races', NEW t \in Threads,
         CommitRemoveStaff(t) \/ \E s \in StaffIds : CommitAddStaff(t, s)
  PROVE  PromisesUnlessRaced' /\ (\A u \in Threads : FoundStillHolds(u)') /\ Promises
<1>1. txn[t] # NoTxn /\ End(t) /\ UNCHANGED <<profile, unlock, approvals>>
  BY DEF CommitRemoveStaff, CommitAddStaff, Running
<1>2. FoundStillHolds(t)' /\ \A u \in Threads : u # t => txn'[u] = txn[u]
  BY <1>1, OthersStay
<1>3. Cardinality(staff) \in Nat
  BY FS_CardinalityType DEF RaceInv
<1>4. ASSUME Unraced("added twice", "staff")
      PROVE  StaffWithinCap' /\ \A u \in Threads : u # t => RoomLeft(u)'
  <2>1. ASSUME NEW s \in StaffIds, CommitAddStaff(t, s)
        PROVE  StaffWithinCap' /\ \A u \in Threads : u # t => RoomLeft(u)'
    <3>1. Works(t, {"add_staff"})
      BY <2>1 DEF CommitAddStaff, Running, Works
    <3>2. Cardinality(staff) < MaxStaff
      BY <1>4, <3>1 DEF RaceInv, FoundStillHolds, RoomLeft, HasRoom
    <3>3. Cardinality(staff') = Cardinality(staff) + 1
      BY <2>1, FS_AddElement DEF CommitAddStaff, RaceInv
    <3>4. StaffWithinCap'
      BY <1>3, <3>2, <3>3, ClubSeasonAssumption DEF StaffWithinCap
    <3>5. ASSUME NEW u \in Threads, u # t PROVE ~Works(u, {"add_staff"})
      BY <1>4, <3>1, <3>5, NoRace DEF AddedTwice
    <3>6. \A u \in Threads : u # t => RoomLeft(u)'
      BY <1>2, <3>5 DEF RoomLeft, Works
    <3> QED
      BY <3>4, <3>6
  <2>2. CASE CommitRemoveStaff(t)
    <3>1. staff' \in SUBSET staff
      BY <2>2 DEF CommitRemoveStaff
    <3>2. Cardinality(staff') <= Cardinality(staff) /\ Cardinality(staff') \in Nat
      BY <3>1, FS_Subset, FS_CardinalityType DEF RaceInv
    <3>3. StaffWithinCap'
      <4>1. StaffWithinCap
        BY <1>4 DEF RaceInv, PromisesUnlessRaced
      <4> QED
        BY <1>3, <3>2, <4>1, ClubSeasonAssumption DEF StaffWithinCap
    <3>4. HasRoom => HasRoom'
      BY <1>3, <3>2, ClubSeasonAssumption DEF HasRoom
    <3>5. ASSUME NEW u \in Threads, u # t PROVE RoomLeft(u)'
      BY <1>2, <1>4, <3>4, <3>5 DEF RaceInv, FoundStillHolds, RoomLeft, Works
    <3> QED
      BY <3>3, <3>5
  <2> QED
    BY <2>1, <2>2
<1>5. ASSUME NEW u \in Threads, u # t PROVE FoundStillHolds(u)'
  <2>1. txn'[u] = txn[u] /\ FoundStillHolds(u) /\ Tracked' = Tracked
    BY <1>1, <1>2, <1>5 DEF RaceInv, Tracked
  <2>2. RoomLeft(u)'
    BY <1>4, <1>5 DEF RoomLeft, Unraced
  <2> QED
    BY <1>1, <2>1, <2>2, GoesOn DEF FoundStillHolds
<1>6. PromisesUnlessRaced'
  BY <1>1, <1>4 DEF RaceInv, PromisesUnlessRaced, QuorumDecides, LateSubmissionTracked, ClubsFor,
     Unraced
<1>7. Promises
  BY <1>1 DEF Promises, DecisionStands, LifecycleStep
<1> QED
  BY <1>2, <1>5, <1>6, <1>7
-----------------------------------------------------------------------------
(* The promises, for every instance *)

LEMMA RaceStep ==
  ASSUME IInv, RaceInv, races \subseteq races', Next
  PROVE  PromisesUnlessRaced' /\ (\A u \in Threads : FoundStillHolds(u)') /\ Promises
<1> DEFINE Kept == PromisesUnlessRaced' /\ (\A u \in Threads : FoundStillHolds(u)') /\ Promises
<1>1. CASE \/ WindowChanges \/ SquadCompletes \/ CreateProfile
           \/ \E u \in Users, k \in RequestIds : CreateUnlockRequest(u, k)
  BY <1>1, OutsideRaces
<1>2. ASSUME NEW t \in Threads, FoundStillHolds(t)', UNCHANGED <<profile, unlock, approvals, staff>>,
             \A u \in Threads : u # t => txn'[u] = txn[u]
      PROVE  Kept
  BY <1>2, QuietKeeps
<1>3. ASSUME NEW t \in Threads,
             \/ \E u \in Users, k \in RequestIds : BeginApprove(t, u, k) \/ BeginReject(t, u, k)
             \/ \E u \in Users : BeginSubmit(t, u)
             \/ \E target \in ProfileStatus : BeginTransition(t, target)
             \/ BeginAddStaff(t) \/ \E s \in StaffIds : BeginRemoveStaff(t, s)
      PROVE  Kept
  BY <1>2, <1>3, BeginFinds
<1>4. ASSUME NEW t \in Threads, FlushApprove(t) \/ FlushSubmit(t) PROVE Kept
  <2>1. FoundStillHolds(t)
    BY DEF RaceInv
  <2> QED
    BY <1>2, <1>4, <2>1, FlushFinds
<1>5. ASSUME NEW t \in Threads, Rollback(t) PROVE Kept
  BY <1>2, <1>5, OthersStay DEF Rollback
<1>6. ASSUME NEW t \in Threads,
             \/ CommitApprove(t) \/ CommitReject(t) \/ CommitTransition(t)
             \/ \E k \in RequestIds : CommitSubmit(t, k)
             \/ CommitRemoveStaff(t) \/ \E s \in StaffIds : CommitAddStaff(t, s)
      PROVE  Kept
  BY <1>6, ApproveRaces, RejectRaces, TransitionRaces, SubmitRaces, StaffRaces
<1> QED
  BY <1>1, <1>3, <1>4, <1>5, <1>6 DEF Next, UnlockStep, ProfileStep, StaffStep

LEMMA StaffFinite == IsFiniteSet(staff) /\ [Next]_vars => IsFiniteSet(staff)'
<1> SUFFICES ASSUME IsFiniteSet(staff), [Next]_vars PROVE IsFiniteSet(staff')
  OBVIOUS
<1>1. ASSUME NEW t \in Threads, UnlockStep(t) \/ ProfileStep(t) \/ Rollback(t)
      PROVE  staff' = staff
  BY <1>1 DEF UnlockStep, ProfileStep, Rollback, Begin, Flush, BeginApprove, BeginReject,
     FlushApprove, CommitApprove, CommitReject, BeginSubmit, FlushSubmit, CommitSubmit,
     BeginTransition, CommitTransition
<1>2. ASSUME NEW t \in Threads, StaffStep(t)
      PROVE  \/ staff' = staff \/ staff' \in SUBSET staff
             \/ \E s \in StaffIds : staff' = staff \cup {s}
  BY <1>2 DEF StaffStep, Begin, BeginAddStaff, CommitAddStaff, BeginRemoveStaff, CommitRemoveStaff
<1>3. \/ staff' = staff \/ staff' \in SUBSET staff
      \/ \E s \in StaffIds : staff' = staff \cup {s}
  BY <1>1, <1>2 DEF Next, vars, WindowChanges, SquadCompletes, CreateProfile, CreateUnlockRequest
<1> QED
  BY <1>3, FS_Subset, FS_AddElement

LEMMA RaceInvKeeps == IInv /\ RaceInv /\ [MCNext]_<<vars, races>> => RaceInv'
<1> SUFFICES ASSUME IInv, RaceInv, [MCNext]_<<vars, races>> PROVE RaceInv'
  OBVIOUS
<1>1. CASE MCNext
  <2>1. Next /\ races \subseteq races' /\ (Racing \subseteq races)'
    BY <1>1 DEF MCNext
  <2>2. PromisesUnlessRaced' /\ \A u \in Threads : FoundStillHolds(u)'
    BY <2>1, RaceStep
  <2>3. IsFiniteSet(staff)'
    BY <2>1, StaffFinite DEF RaceInv
  <2> QED
    BY <2>1, <2>2, <2>3 DEF RaceInv
<1>2. CASE UNCHANGED <<vars, races>>
  <2>1. /\ UNCHANGED <<profile, unlock, approvals, staff, txn, races>> /\ races \subseteq races'
        /\ \A u \in Threads : txn'[u] = txn[u]
    BY <1>2 DEF vars
  <2>2. PromisesUnlessRaced' /\ \A u \in Threads : FoundStillHolds(u)'
    BY <2>1, QuietKeeps
  <2>3. Racing' = Racing
    BY <2>1 DEF Racing, InProgress, RacesOf, ApprovedTwice, RejectedWhileApproved, LedApart,
       SubmittedWhileUnlocked, AddedTwice, Leads, Submits, Goal, Works
  <2> QED
    BY <2>1, <2>2, <2>3 DEF RaceInv
<1> QED
  BY <1>1, <1>2

LEMMA MCInvariance == MCSpec => [](IInv /\ RaceInv)
<1>1. [MCNext]_<<vars, races>> => [Next]_vars
  BY DEF MCNext, vars
<1> QED
  BY <1>1, InitEstablishes, StepKeeps, RaceInvInit, RaceInvKeeps, PTL DEF MCSpec, MCInit

\* However requests interleave: an unlock request with a quorum is decided, unless two approvals of
\* it were counted at once; a late submission that waits has a request that tracks it, unless one
\* got its last approval while the profile was being submitted; and the staff keeps within its cap,
\* unless two people were added at once (decide_unlock_request, submit_profile, add_staff).
THEOREM PromisesProtected == MCSpec => []PromisesUnlessRaced
<1>1. RaceInv => PromisesUnlessRaced
  BY DEF RaceInv
<1> QED
  BY <1>1, MCInvariance, PTL

\* However requests interleave, the profile goes through the lifecycle of models/club_season.py
\* unless two of them led it to different statuses, and a decided unlock request stays as it is
\* unless it was being rejected and approved at once.
THEOREM LifecycleProtected == MCSpec => LifecycleUnlessRaced
<1>1. /\ IInv /\ RaceInv /\ [MCNext]_<<vars, races>>
      => [/\ Unraced("led apart", "profile") => LifecycleStep
          /\ \A k \in RequestIds : Unraced("rejected while approved", k) => DecisionStands(k)]_vars
  <2> SUFFICES ASSUME IInv, RaceInv, MCNext PROVE Promises
    BY DEF Promises, vars
  <2>1. Next /\ races \subseteq races'
    BY DEF MCNext
  <2> QED
    BY <2>1, RaceStep
<1> QED
  BY <1>1, MCInvariance, PTL DEF MCSpec, LifecycleUnlessRaced
=============================================================================
