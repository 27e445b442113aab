---------------------------- MODULE CountsProofs -----------------------------
(***************************************************************************)
(* What UploadFlow counts: models and versions, and the allowance.         *)
(*                                                                         *)
(* limits.py counts models and versions before the row is inserted, and    *)
(* every credential of an account may have counted before any of them      *)
(* inserts.  So the limits are overrun, but by no more than the            *)
(* credentials that may be between the two: OverrunBounded, for any number *)
(* of credentials, which becomes inductive by counting the requests about  *)
(* to insert with the rows.                                                *)
(*                                                                         *)
(* The allowance is kept by accounts that work with one credential at a    *)
(* time: what an account is charged for, has been promised or is           *)
(* transferring never exceeds it (AInv).                                   *)
(***************************************************************************)
EXTENDS ExclusiveProofs, FiniteSetTheorems

Credentials(user) == {c \in Callers : Account[c] = user}

\* The models of a user.
ModelsOf(user) == {m \in models : m[1] = user}

\* Requests that have counted and are about to insert.
AddsModel(user) ==
  {c \in Credentials(user) : req[c].pc = "inserting" /\ req[c].newModel}

AddsVersion(user, slug) ==
  {c \in Credentials(user) : req[c].pc = "inserting" /\ req[c].slug = slug}

\* A limit is passed by less than one row for each credential: by none where
\* an account has one credential.
OverrunBounded ==
  \A c \in Callers :
    LET user == Account[c]
        spare == Cardinality(Credentials(user))
    IN  /\ ModelCount(user) < MaxModels + spare
        /\ \A slug \in Slugs :
             Cardinality(VersionsOf(user, slug)) < MaxVersions + spare

\* The same with what is about to be inserted.
Room(user) ==
  LET spare == Cardinality(Credentials(user))
  IN  /\ Cardinality(ModelsOf(user)) + Cardinality(AddsModel(user))
           < MaxModels + spare
      /\ \A slug \in Slugs :
           Cardinality(VersionsOf(user, slug))
             + Cardinality(AddsVersion(user, slug)) < MaxVersions + spare

CInv ==
  /\ IInv
  /\ IsFiniteSet(models)
  /\ IsFiniteSet(Live)
  /\ \A c \in Callers :
       req[c].pc = "inserting" /\ ~ req[c].newModel
         => <<Account[c], req[c].slug>> \in models
  /\ \A c \in Callers : Room(Account[c])

-----------------------------------------------------------------------------
(* Counting.                                                               *)

\* X is what is counted against the limit L, C the credentials, Y those about
\* to add to X.  Whoever joins Y has found X below the limit.
LEMMA BoundKept ==
  ASSUME NEW X, NEW X1, NEW Y, NEW Y1, NEW C, NEW L \in Nat,
         IsFiniteSet(X), IsFiniteSet(C), X1 \subseteq X,
         Y \subseteq C, Y1 \subseteq C,
         Cardinality(X) + Cardinality(Y) < L + Cardinality(C),
         Y1 \subseteq Y \/ Cardinality(X) < L
  PROVE  Cardinality(X1) + Cardinality(Y1) < L + Cardinality(C)
<1>1. /\ IsFiniteSet(X1) /\ Cardinality(X1) <= Cardinality(X)
      /\ IsFiniteSet(Y) /\ IsFiniteSet(Y1)
      /\ Cardinality(Y1) <= Cardinality(C)
  BY FS_Subset
<1>2. /\ Cardinality(X) \in Nat /\ Cardinality(X1) \in Nat
      /\ Cardinality(Y) \in Nat /\ Cardinality(Y1) \in Nat
      /\ Cardinality(C) \in Nat
  BY <1>1, FS_CardinalityType
<1>3. CASE Y1 \subseteq Y
  <2>1. Cardinality(Y1) <= Cardinality(Y)
    BY <1>1, <1>3, FS_Subset
  <2> QED
    BY <1>1, <1>2, <2>1
<1>4. CASE Cardinality(X) < L
  BY <1>1, <1>2, <1>4
<1> QED
  BY <1>3, <1>4

\* One of those about to add does.
LEMMA BoundMoves ==
  ASSUME NEW X, NEW X1, NEW Y, NEW Y1, NEW C, NEW L \in Nat, NEW w, NEW c,
         IsFiniteSet(X), IsFiniteSet(C), X1 \subseteq X \cup {w},
         Y \subseteq C, c \in Y, Y1 \subseteq Y \ {c},
         Cardinality(X) + Cardinality(Y) < L + Cardinality(C)
  PROVE  Cardinality(X1) + Cardinality(Y1) < L + Cardinality(C)
<1>1. IsFiniteSet(Y)
  BY FS_Subset
<1>2. /\ IsFiniteSet(X \cup {w})
      /\ Cardinality(X \cup {w}) \in {Cardinality(X), Cardinality(X) + 1}
  BY FS_AddElement
<1>3. /\ IsFiniteSet(Y \ {c}) /\ Cardinality(Y \ {c}) = Cardinality(Y) - 1
  BY <1>1, FS_RemoveElement
<1>4. /\ IsFiniteSet(X1) /\ Cardinality(X1) <= Cardinality(X \cup {w})
      /\ IsFiniteSet(Y1) /\ Cardinality(Y1) <= Cardinality(Y \ {c})
  BY <1>2, <1>3, FS_Subset
<1>5. /\ Cardinality(X) \in Nat /\ Cardinality(X1) \in Nat
      /\ Cardinality(Y) \in Nat /\ Cardinality(Y1) \in Nat
      /\ Cardinality(C) \in Nat
  BY <1>1, <1>4, FS_CardinalityType
<1> QED
  BY <1>2, <1>3, <1>4, <1>5

LEMMA FiniteCounts ==
  ASSUME IsFiniteSet(models), IsFiniteSet(Live), IsFiniteSet(Callers),
         NEW user, NEW slug
  PROVE  /\ IsFiniteSet(ModelsOf(user))
         /\ IsFiniteSet(VersionsOf(user, slug))
         /\ IsFiniteSet(Credentials(user))
         /\ AddsModel(user) \subseteq Credentials(user)
         /\ AddsVersion(user, slug) \subseteq Credentials(user)
<1>1. /\ ModelsOf(user) \subseteq models /\ VersionsOf(user, slug) \subseteq Live
      /\ Credentials(user) \subseteq Callers
  BY DEF ModelsOf, VersionsOf, OwnedBy, Credentials
<1>2. /\ IsFiniteSet(ModelsOf(user)) /\ IsFiniteSet(VersionsOf(user, slug))
      /\ IsFiniteSet(Credentials(user))
  BY <1>1, FS_Subset
<1> QED
  BY <1>2 DEF AddsModel, AddsVersion

\* A step after which an account has no more than before, and whoever is new
\* among those about to insert has counted.
LEMMA RoomStays ==
  ASSUME CInv, IsFiniteSet(Callers), NEW c \in Callers, NEW user,
         user = Account[c],
         ModelsOf(user)' \subseteq ModelsOf(user),
         \/ AddsModel(user)' \subseteq AddsModel(user)
         \/ Cardinality(ModelsOf(user)) < MaxModels,
         \A slug \in Slugs :
           /\ VersionsOf(user, slug)' \subseteq VersionsOf(user, slug)
           /\ \/ AddsVersion(user, slug)' \subseteq AddsVersion(user, slug)
              \/ Cardinality(VersionsOf(user, slug)) < MaxVersions
  PROVE  Room(user)'
<1>1. MaxModels \in Nat /\ MaxVersions \in Nat /\ Room(user)
  BY QuotaAssumption DEF CInv
<1>2. Credentials(user)' = Credentials(user)
  BY DEF Credentials
<1>3. Cardinality(ModelsOf(user)') + Cardinality(AddsModel(user)')
        < MaxModels + Cardinality(Credentials(user))
  <2>1. AddsModel(user)' \subseteq Credentials(user)
    BY <1>2 DEF AddsModel
  <2>2. /\ IsFiniteSet(ModelsOf(user)) /\ IsFiniteSet(Credentials(user))
        /\ AddsModel(user) \subseteq Credentials(user)
    BY FiniteCounts DEF CInv
  <2>3. Cardinality(ModelsOf(user)) + Cardinality(AddsModel(user))
          < MaxModels + Cardinality(Credentials(user))
    BY <1>1 DEF Room
  <2> QED
    BY <1>1, <2>1, <2>2, <2>3, BoundKept
<1>4. ASSUME NEW slug \in Slugs
      PROVE  Cardinality(VersionsOf(user, slug)')
               + Cardinality(AddsVersion(user, slug)')
               < MaxVersions + Cardinality(Credentials(user))
  <2>1. AddsVersion(user, slug)' \subseteq Credentials(user)
    BY <1>2 DEF AddsVersion
  <2>2. /\ IsFiniteSet(VersionsOf(user, slug))
        /\ IsFiniteSet(Credentials(user))
        /\ AddsVersion(user, slug) \subseteq Credentials(user)
    BY FiniteCounts DEF CInv
  <2>3. Cardinality(VersionsOf(user, slug))
          + Cardinality(AddsVersion(user, slug))
          < MaxVersions + Cardinality(Credentials(user))
    BY <1>1 DEF Room
  <2> QED
    BY <1>1, <2>1, <2>2, <2>3, BoundKept
<1> QED
  BY <1>2, <1>3, <1>4 DEF Room

-----------------------------------------------------------------------------
(* The steps.                                                              *)

\* Whoever does not insert leaves every account with no more than it had.
LEMMA NamesDrop ==
  ASSUME CInv, SameNames, models' = models
  PROVE  /\ IsFiniteSet(models') /\ IsFiniteSet(Live')
         /\ \A user : ModelsOf(user)' = ModelsOf(user)
         /\ \A user, slug :
              VersionsOf(user, slug)' \subseteq VersionsOf(user, slug)
<1>1. Live' \subseteq Live
  BY DEF SameNames, Live
<1>2. IsFiniteSet(Live') /\ IsFiniteSet(models')
  BY <1>1, FS_Subset DEF CInv
<1>3. ASSUME NEW user PROVE ModelsOf(user)' = ModelsOf(user)
  BY DEF ModelsOf
<1>4. Live' \subseteq Uploads
  BY DEF Live
<1>5. ASSUME NEW user, NEW slug
      PROVE  VersionsOf(user, slug)' \subseteq VersionsOf(user, slug)
  BY <1>1, <1>4 DEF VersionsOf, OwnedBy, SameNames
<1> QED
  BY <1>2, <1>3, <1>5

\* Only ReserveCheck brings a request to "inserting", and it has counted.
LEMMA Counted ==
  ASSUME CInv, [Next]_vars, NEW c \in Callers
  PROVE  req'[c] = req[c] \/ req'[c].pc # "inserting" \/ ReserveCheck(c)
<1>1. req \in [Callers -> Requests]
  BY DEF CInv, IInv, TypeOK
<1>2. \A d \in Callers : Finish(d) => req'[c] = req[c] \/ req'[c].pc = "idle"
  BY <1>1 DEF Finish, Idle
<1>3. ASSUME NEW d \in Callers, NEW pc \in PutSteps, Goto(d, pc),
             req[d].pc \in PutSteps
      PROVE  req'[c] = req[c] \/ req'[c].pc # "inserting"
  <2>1. req[d] \in PutRequests
    BY <1>1, <1>3, RequestOfStep
  <2> QED
    BY <1>1, <1>3, <2>1 DEF Goto, PutSteps, PutRequests
<1>4. ASSUME NEW d \in Callers, Reserve(d), ~ ReserveCheck(d)
      PROVE  req'[c] = req[c] \/ req'[c].pc # "inserting"
  BY <1>1, <1>2, <1>4 DEF Reserve, ReserveBegin, ReserveInsert
<1>5. ASSUME NEW d \in Callers, ReserveCheck(d), d # c PROVE req'[c] = req[c]
  BY <1>1, <1>5 DEF ReserveCheck, Finish
<1>6. ASSUME NEW d \in Callers, Put(d)
      PROVE  req'[c] = req[c] \/ req'[c].pc # "inserting"
  <2>1. CASE PutSelect(d)
    BY <1>1, <2>1 DEF PutSelect
  <2>2. CASE PutChunk(d)
    BY <2>2 DEF PutChunk
  <2>3. CASE \/ PutOpen(d) \/ PutOverrun(d) \/ PutMeasure(d) \/ PutDiscard(d)
             \/ PutPromote(d) \/ PutDrop(d) \/ PutReplace(d)
    <3>1. Finish(d) \/ \E pc \in PutSteps : Goto(d, pc)
      BY <2>3
      DEF PutOpen, PutOverrun, PutMeasure, PutDiscard, PutPromote, PutDrop,
          PutReplace, PutSteps
    <3>2. req[d].pc \in PutSteps
      BY <2>3
      DEF PutOpen, PutOverrun, PutMeasure, PutDiscard, PutPromote, PutDrop,
          PutReplace, PutSteps, At
    <3> QED
      BY <1>2, <1>3, <3>1, <3>2
  <2>4. CASE PutUnwind(d) \/ PutCharge(d)
    BY <1>2, <2>4 DEF PutUnwind, PutCharge
  <2> QED
    BY <1>6, <2>1, <2>2, <2>3, <2>4 DEF Put
<1>7. ASSUME NEW d \in Callers, Commit(d) \/ Abort(d)
      PROVE  req'[c] = req[c] \/ req'[c].pc # "inserting"
  BY <1>1, <1>2, <1>7 DEF Commit, CommitSelect, CommitWrite, Abort
<1>8. Sweep \/ ClockTick \/ UNCHANGED vars => req'[c] = req[c]
  BY DEF Sweep, SweepSelect, SweepDiscard, SweepDelete, SweepAbort, ClockTick,
         vars
<1> QED
  BY <1>4, <1>5, <1>6, <1>7, <1>8 DEF Next

\* What a request that is about to insert has found in the tables.
LEMMA CheckFinds ==
  ASSUME CInv, NEW c \in Callers, ReserveCheck(c),
         req'[c].pc = "inserting"
  PROVE  /\ Cardinality(VersionsOf(Account[c], req'[c].slug)) < MaxVersions
         /\ IF req'[c].newModel
            THEN Cardinality(ModelsOf(Account[c])) < MaxModels
            ELSE <<Account[c], req'[c].slug>> \in models
<1> DEFINE user == Account[c]
           r == req[c]
<1>1. r \in ReserveRequests /\ req \in [Callers -> Requests]
  BY RequestOfStep DEF ReserveCheck, At, CInv, IInv, TypeOK
<1>2. ~ Finish(c)
  BY <1>1 DEF Finish, Idle
<1>3. /\ HasRoom(user, r.slug)
      /\ req'[c] =
           [pc |-> "inserting", slug |-> r.slug, version |-> r.version,
            sha256 |-> r.sha256, size |-> r.size,
            newModel |-> <<user, r.slug>> \notin models]
  BY <1>1, <1>2 DEF ReserveCheck, Admits
<1>4. /\ req'[c].slug = r.slug
      /\ req'[c].newModel = (<<user, r.slug>> \notin models)
  BY <1>3
<1> QED
  BY <1>3, <1>4 DEF HasRoom, ModelCount, ModelsOf

\* Steps other than an insert that goes through.
LEMMA OthersFit ==
  ASSUME CInv, IInv', IsFiniteSet(Callers), [Next]_vars,
         SameNames, models' = models
  PROVE  CInv'
<1>1. /\ IsFiniteSet(models') /\ IsFiniteSet(Live')
      /\ \A user : ModelsOf(user)' = ModelsOf(user)
      /\ \A user, slug :
           VersionsOf(user, slug)' \subseteq VersionsOf(user, slug)
  BY NamesDrop
<1>2. ASSUME NEW c \in Callers, req'[c].pc = "inserting", ~ req'[c].newModel
      PROVE  <<Account[c], req'[c].slug>> \in models'
  <2>1. CASE req'[c] = req[c]
    BY <1>2, <2>1 DEF CInv
  <2>2. CASE ReserveCheck(c)
    BY <1>2, <2>2, CheckFinds
  <2> QED
    BY <1>2, <2>1, <2>2, Counted
<1>3. ASSUME NEW c \in Callers PROVE Room(Account[c])'
  <2> DEFINE user == Account[c]
  <2>1. ASSUME NEW d \in AddsModel(user)', d \notin AddsModel(user)
        PROVE  Cardinality(ModelsOf(user)) < MaxModels
    <3>1. d \in Callers /\ Account[d] = user
          /\ req'[d].pc = "inserting" /\ req'[d].newModel
      BY <2>1 DEF AddsModel, Credentials
    <3>2. req'[d] # req[d]
      BY <2>1, <3>1 DEF AddsModel, Credentials
    <3> QED
      BY <3>1, <3>2, Counted, CheckFinds
  <2>2. ASSUME NEW slug \in Slugs, NEW d \in AddsVersion(user, slug)',
               d \notin AddsVersion(user, slug)
        PROVE  Cardinality(VersionsOf(user, slug)) < MaxVersions
    <3>1. d \in Callers /\ Account[d] = user
          /\ req'[d].pc = "inserting" /\ req'[d].slug = slug
      BY <2>2 DEF AddsVersion, Credentials
    <3>2. req'[d] # req[d]
      BY <2>2, <3>1 DEF AddsVersion, Credentials
    <3> QED
      BY <3>1, <3>2, Counted, CheckFinds
  <2> QED
    BY <1>1, <2>1, <2>2, RoomStays
<1> QED
  BY <1>1, <1>2, <1>3 DEF CInv

\* An insert moves its request from those about to add to what is counted.
LEMMA InsertFits ==
  ASSUME CInv, IInv', IsFiniteSet(Callers), NEW c \in Callers,
         ReserveInsert(c), rows' # rows
  PROVE  CInv'
<1> DEFINE user == Account[c]
           r == req[c]
           new == Reserved(user, r)
           pair == <<user, r.slug>>
<1>1. /\ r \in InsertRequests /\ r.pc = "inserting" /\ user \in Users
      /\ req \in [Callers -> Requests]
  BY RequestOfStep, FlowAssumption
  DEF ReserveInsert, At, CInv, IInv, TypeOK
<1>2. PICK w \in Uploads :
        rows[w] = Unissued /\ rows' = [rows EXCEPT ![w] = new]
  BY DEF ReserveInsert
<1>3. models' = models \cup {pair} /\ req' = [req EXCEPT ![c] = Idle]
  BY DEF ReserveInsert, Finish
<1>4. /\ rows'[w] = new /\ w \notin Live
      /\ new.owner = user /\ new.slug = r.slug /\ new.state = "reserved"
      /\ \A v \in Uploads : v # w => rows'[v] = rows[v]
  BY <1>2, RowFacts DEF Reserved, Live, CInv, IInv, TypeOK, QuotaTypeOK
<1> HIDE DEF new
<1>5. Live' = Live \cup {w}
  BY <1>2, <1>4 DEF Live
<1>6. IsFiniteSet(Live') /\ IsFiniteSet(models')
  BY <1>3, <1>5, FS_AddElement DEF CInv
<1>7. ASSUME NEW a, NEW slug, NEW v \in VersionsOf(a, slug)'
      PROVE  \/ v \in VersionsOf(a, slug)
             \/ v = w /\ a = user /\ slug = r.slug
  <2>1. v \in Live' /\ rows'[v].owner = a /\ rows'[v].slug = slug
    BY <1>7 DEF VersionsOf, OwnedBy
  <2>2. CASE v = w
    BY <1>4, <2>1, <2>2
  <2>3. CASE v # w
    <3>1. v \in Live /\ v \in Uploads
      BY <1>5, <2>1, <2>3 DEF Live
    <3> QED
      BY <1>4, <2>1, <2>3, <3>1 DEF VersionsOf, OwnedBy
  <2> QED
    BY <2>2, <2>3
<1>8. ASSUME NEW d \in Callers
      PROVE  /\ d = c => req'[d].pc = "idle"
             /\ d # c => req'[d] = req[d]
  BY <1>1, <1>3 DEF Idle
<1>9. ASSUME NEW a, NEW slug
      PROVE  /\ AddsModel(a)' \subseteq AddsModel(a) \ {c}
             /\ AddsVersion(a, slug)' \subseteq AddsVersion(a, slug) \ {c}
  BY <1>8 DEF AddsModel, AddsVersion, Credentials
<1>10. ASSUME NEW d \in Callers, req'[d].pc = "inserting", ~ req'[d].newModel
       PROVE  <<Account[d], req'[d].slug>> \in models'
  BY <1>3, <1>8, <1>10 DEF CInv
<1>11. ASSUME NEW d \in Callers, Account[d] # user PROVE Room(Account[d])'
  <2>1. ModelsOf(Account[d])' = ModelsOf(Account[d])
    BY <1>3, <1>11 DEF ModelsOf
  <2>2. \A slug \in Slugs :
          VersionsOf(Account[d], slug)' \subseteq VersionsOf(Account[d], slug)
    BY <1>7, <1>11
  <2> QED
    BY <1>9, <2>1, <2>2, RoomStays
<1>12. Room(user)'
  <2>1. MaxModels \in Nat /\ MaxVersions \in Nat /\ Room(user)
    BY QuotaAssumption DEF CInv
  <2>2. c \in Credentials(user) /\ Credentials(user)' = Credentials(user)
    BY DEF Credentials
  <2>3. Cardinality(ModelsOf(user)') + Cardinality(AddsModel(user)')
          < MaxModels + Cardinality(Credentials(user))
    <3>1. /\ IsFiniteSet(ModelsOf(user)) /\ IsFiniteSet(Credentials(user))
          /\ AddsModel(user) \subseteq Credentials(user)
      BY FiniteCounts DEF CInv
    <3>2. Cardinality(ModelsOf(user)) + Cardinality(AddsModel(user))
            < MaxModels + Cardinality(Credentials(user))
      BY <2>1 DEF Room
    <3>3. AddsModel(user)' \subseteq AddsModel(user) \ {c}
      BY <1>9
    <3>4. CASE r.newModel
      <4>1. c \in AddsModel(user)
        BY <1>1, <2>2, <3>4 DEF AddsModel
      <4>2. ModelsOf(user)' \subseteq ModelsOf(user) \cup {pair}
        BY <1>3 DEF ModelsOf
      <4> QED
        BY <2>1, <3>1, <3>2, <3>3, <4>1, <4>2, BoundMoves
    <3>5. CASE ~ r.newModel
      <4>1. pair \in models
        BY <1>1, <3>5 DEF CInv
      <4>2. ModelsOf(user)' \subseteq ModelsOf(user)
        BY <1>3, <4>1 DEF ModelsOf
      <4>3. AddsModel(user)' \subseteq AddsModel(user)
            /\ AddsModel(user)' \subseteq Credentials(user)
        BY <3>1, <3>3
      <4> QED
        BY <2>1, <3>1, <3>2, <4>2, <4>3, BoundKept
    <3> QED
      BY <3>4, <3>5
  <2>4. ASSUME NEW slug \in Slugs
        PROVE  Cardinality(VersionsOf(user, slug)')
                 + Cardinality(AddsVersion(user, slug)')
                 < MaxVersions + Cardinality(Credentials(user))
    <3>1. /\ IsFiniteSet(VersionsOf(user, slug))
          /\ IsFiniteSet(Credentials(user))
          /\ AddsVersion(user, slug) \subseteq Credentials(user)
      BY FiniteCounts DEF CInv
    <3>2. Cardinality(VersionsOf(user, slug))
            + Cardinality(AddsVersion(user, slug))
            < MaxVersions + Cardinality(Credentials(user))
      BY <2>1 DEF Room
    <3>3. AddsVersion(user, slug)' \subseteq AddsVersion(user, slug) \ {c}
      BY <1>9
    <3>4. CASE slug = r.slug
      <4>1. c \in AddsVersion(user, slug)
        BY <1>1, <2>2, <3>4 DEF AddsVersion
      <4>2. VersionsOf(user, slug)' \subseteq VersionsOf(user, slug) \cup {w}
        BY <1>7
      <4> QED
        BY <2>1, <3>1, <3>2, <3>3, <4>1, <4>2, BoundMoves
    <3>5. CASE slug # r.slug
      <4>1. VersionsOf(user, slug)' \subseteq VersionsOf(user, slug)
        BY <1>7, <3>5
      <4>2. AddsVersion(user, slug)' \subseteq AddsVersion(user, slug)
            /\ AddsVersion(user, slug)' \subseteq Credentials(user)
        BY <3>1, <3>3
      <4> QED
        BY <2>1, <3>1, <3>2, <4>1, <4>2, BoundKept
    <3> QED
      BY <3>4, <3>5
  <2> QED
    BY <2>2, <2>3, <2>4 DEF Room
<1> QED
  BY <1>6, <1>10, <1>11, <1>12 DEF CInv

\* An insert that goes through, or nobody gains anything.
LEMMA OnlyInsertsCount ==
  ASSUME IInv, [Next]_vars
  PROVE  \/ SameNames /\ models' = models
         \/ \E c \in Callers : ReserveInsert(c) /\ rows' # rows
<1>1. ASSUME NEW c \in Callers, ReserveInsert(c), rows' = rows
      PROVE  models' = models
  <2>1. ASSUME NEW u \in Uploads, rows[u] = Unissued,
               rows' = [rows EXCEPT ![u] = Reserved(Account[c], req[c])]
        PROVE  FALSE
    <3>1. rows'[u].state = "reserved"
      BY <2>1 DEF Reserved, IInv, TypeOK, QuotaTypeOK
    <3> QED
      BY <1>1, <2>1, <3>1, RowFacts
  <2> QED
    BY <1>1, <2>1 DEF ReserveInsert
<1>2. ASSUME NEW c \in Callers, ~ ReserveInsert(c),
             Reserve(c) \/ Put(c) \/ Commit(c) \/ Abort(c)
      PROVE  models' = models
  <2>1. Reserve(c) \/ Commit(c) \/ Abort(c) => models' = models
    BY <1>2
    DEF Reserve, ReserveBegin, ReserveCheck, Commit, CommitSelect,
        CommitWrite, Abort, quotaVars
  <2>2. Put(c) => models' = models
    BY DEF Put, PutSelect, PutOpen, PutChunk, PutOverrun, PutMeasure,
           PutDiscard, PutUnwind, PutPromote, PutDrop, PutReplace, PutCharge,
           quotaVars, tables
  <2> QED
    BY <1>2, <2>1, <2>2
<1>3. Sweep \/ ClockTick \/ UNCHANGED vars => models' = models
  BY DEF Sweep, SweepSelect, SweepDiscard, SweepDelete, SweepAbort, ClockTick,
         Tick, quotaVars, vars
<1>4. (\E c \in Callers : ReserveInsert(c)) \/ models' = models
  BY <1>2, <1>3 DEF Next
<1>5. SameNames \/ \E c \in Callers : ReserveInsert(c)
  BY OnlyInsertsName
<1>6. rows' = rows => SameNames
  BY DEF SameNames, Live
<1> QED
  BY <1>1, <1>4, <1>5, <1>6

LEMMA StepCInv ==
  ASSUME IsFiniteSet(Callers) PROVE CInv /\ [Next]_vars => CInv'
<1> SUFFICES ASSUME CInv, [Next]_vars PROVE CInv'
  OBVIOUS
<1>1. IInv'
  BY StepIInv DEF CInv
<1> QED
  BY <1>1, OnlyInsertsCount, InsertFits, OthersFit DEF CInv

LEMMA InitCInv == ASSUME IsFiniteSet(Callers) PROVE Init => CInv
<1> SUFFICES ASSUME Init PROVE CInv
  OBVIOUS
<1>1. models = {} /\ Live = {} /\ \A c \in Callers : req[c].pc = "idle"
  BY DEF Init, QuotaInit, Live, Unissued, Idle
<1>2. ASSUME NEW c \in Callers PROVE Room(Account[c])
  <2> DEFINE user == Account[c]
  <2>1. /\ ModelsOf(user) = {} /\ AddsModel(user) = {}
        /\ \A slug : VersionsOf(user, slug) = {} /\ AddsVersion(user, slug) = {}
    BY <1>1
    DEF ModelsOf, AddsModel, VersionsOf, OwnedBy, AddsVersion, Credentials
  <2>2. c \in Credentials(user) /\ IsFiniteSet(Credentials(user))
    BY <1>1, FiniteCounts, FS_EmptySet DEF Credentials
  <2>3. Cardinality(Credentials(user)) \in Nat \ {0} /\ Cardinality({}) = 0
    BY <2>2, FS_EmptySet, FS_CardinalityType
  <2> QED
    BY <2>1, <2>3, QuotaAssumption DEF Room
<1> QED
  BY <1>1, <1>2, InitIInv, FS_EmptySet DEF CInv

\* limits.py, "Refuse a new version once a model's history is full": the
\* check and the insert are statements apart, so what holds of an account with
\* several credentials is this: it passes a limit by less than one row for
\* each of them.
THEOREM OverrunIsBounded ==
  ASSUME IsFiniteSet(Callers) PROVE Spec => []OverrunBounded
<1>1. ASSUME CInv, NEW c \in Callers
      PROVE  LET user == Account[c]
                 spare == Cardinality(Credentials(user))
             IN  /\ ModelCount(user) < MaxModels + spare
                 /\ \A slug \in Slugs :
                      Cardinality(VersionsOf(user, slug)) < MaxVersions + spare
  <2> DEFINE user == Account[c]
             spare == Cardinality(Credentials(user))
  <2>1. MaxModels \in Nat /\ MaxVersions \in Nat /\ Room(user)
    BY <1>1, QuotaAssumption DEF CInv
  <2>2. /\ IsFiniteSet(ModelsOf(user)) /\ IsFiniteSet(Credentials(user))
        /\ AddsModel(user) \subseteq Credentials(user)
    BY <1>1, FiniteCounts DEF CInv
  <2>3. ModelCount(user) < MaxModels + spare
    <3>1. /\ Cardinality(ModelsOf(user)) \in Nat
          /\ Cardinality(AddsModel(user)) \in Nat /\ spare \in Nat
      BY <2>2, FS_Subset, FS_CardinalityType
    <3> QED
      BY <2>1, <3>1 DEF Room, ModelCount, ModelsOf
  <2>4. ASSUME NEW slug \in Slugs
        PROVE  Cardinality(VersionsOf(user, slug)) < MaxVersions + spare
    <3>1. /\ IsFiniteSet(VersionsOf(user, slug))
          /\ AddsVersion(user, slug) \subseteq Credentials(user)
      BY <1>1, FiniteCounts DEF CInv
    <3>2. /\ Cardinality(VersionsOf(user, slug)) \in Nat
          /\ Cardinality(AddsVersion(user, slug)) \in Nat /\ spare \in Nat
      BY <2>2, <3>1, FS_Subset, FS_CardinalityType
    <3> QED
      BY <2>1, <3>2 DEF Room
  <2> QED
    BY <2>3, <2>4
<1>2. CInv => OverrunBounded
  BY <1>1 DEF OverrunBounded
<1> QED
  BY <1>2, InitCInv, StepCInv, PTL DEF Spec

-----------------------------------------------------------------------------
(* The allowance.  check_storage_limit adds up what is stored and what is   *)
(* promised; a promise ends by the clock while its transfer may go on, and  *)
(* such a transfer is charged all the same.  What makes AllowanceKept       *)
(* inductive is to count the transfers under way with the promises: the     *)
(* account's one credential reserves nothing while it transfers.            *)

\* A request whose reservation has passed PutOpen's check.
Transferring(c) == req[c].pc \in PutSteps \ {"opening"}

TransferChunks(user) ==
  UNION {Chunks(req[c].upload, req[c].row.size) :
         c \in {d \in Callers : Account[d] = user /\ Transferring(d)}}

\* All the account has been charged for, or may still be.
Claimed(user) ==
  StoredChunks(ledger[user]) \cup PendingChunks(user) \cup TransferChunks(user)

\* What a reserve request read of the allowance is still so.
AllowanceFound(c) ==
  LET user == Account[c]
      r == req[c]
  IN  /\ r.pc = "checking" => r.entries = ledger[user]
      /\ r.pc = "inserting" =>
           Cardinality(Claimed(user)) + r.size <= StorageLimit[user]

AInv ==
  /\ XInv
  /\ \A user \in Users :
       /\ IsFiniteSet(Claimed(user))
       /\ Cardinality(Claimed(user)) <= StorageLimit[user]
  /\ \A c \in Callers : AllowanceFound(c)

\* Transfers end or go on; none begins.
TransfersGoOn ==
  \A d \in Callers : Transferring(d)' =>
    /\ Transferring(d)
    /\ req'[d].upload = req[d].upload
    /\ req'[d].row = req[d].row

\* No request gets to a step of reserve.
NobodyReserves ==
  \A d \in Callers :
    req'[d] = req[d] \/ req'[d].pc \notin {"checking", "inserting"}

\* No row becomes a reservation, and no time is taken back.
NoNewPromise ==
  /\ \A u \in Uploads : rows'[u] = rows[u] \/ rows'[u].state # "reserved"
  /\ now <= now'

\* What the model's sums add up is finite, and a part is not more than the
\* whole.
LEMMA ChunkFacts ==
  ASSUME NEW u, NEW n \in Nat
  PROVE  IsFiniteSet(Chunks(u, n)) /\ Cardinality(Chunks(u, n)) = n
<1>1. IsFiniteSet(1..n) /\ Cardinality(1..n) = n
  BY FS_Interval
<1>2. IsFiniteSet({u}) /\ Cardinality({u}) = 1
  BY FS_Singleton
<1>3. /\ IsFiniteSet({u} \X (1..n))
      /\ Cardinality({u} \X (1..n)) = Cardinality({u}) * Cardinality(1..n)
  BY <1>1, <1>2, FS_Product
<1> QED
  BY <1>1, <1>2, <1>3 DEF Chunks

LEMMA PromisesEnd ==
  ASSUME QuotaTypeOK, QuotaTypeOK', NoNewPromise, NEW user
  PROVE  PendingChunks(user)' \subseteq PendingChunks(user)
<1>1. ASSUME NEW u \in Pending(user)'
      PROVE  u \in Pending(user) /\ rows'[u] = rows[u]
  <2>1. /\ u \in Uploads /\ rows'[u].state = "reserved"
        /\ rows'[u].owner = user /\ rows'[u].expires > now'
    BY <1>1 DEF Pending, OwnedBy, Live
  <2>2. rows'[u] = rows[u]
    BY <2>1 DEF NoNewPromise
  <2>3. rows[u] \in Row
    BY <2>1, <2>2, RowFacts DEF QuotaTypeOK
  <2>4. rows[u].expires > now
    BY <2>1, <2>2, <2>3 DEF NoNewPromise, QuotaTypeOK, Row
  <2> QED
    BY <2>1, <2>2, <2>4 DEF Pending, OwnedBy, Live
<1> QED
  BY <1>1 DEF PendingChunks

LEMMA TransfersEnd ==
  ASSUME TransfersGoOn, NEW user
  PROVE  TransferChunks(user)' \subseteq TransferChunks(user)
<1>1. ASSUME NEW d \in Callers, Account[d] = user, Transferring(d)'
      PROVE  Chunks(req'[d].upload, req'[d].row.size)
               \subseteq TransferChunks(user)
  <2>1. Transferring(d) /\ req'[d].upload = req[d].upload
        /\ req'[d].row = req[d].row
    BY <1>1 DEF TransfersGoOn
  <2> QED
    BY <1>1, <2>1 DEF TransferChunks
<1> QED
  BY <1>1 DEF TransferChunks

\* A step that claims nothing leaves every request of reserve what it found,
\* as long as it charges nobody who is in the middle of one.
LEMMA NobodyClaims ==
  ASSUME AInv, XInv',
         \A user \in Users : Claimed(user)' \subseteq Claimed(user),
         \A d \in Callers :
           \/ req'[d] = req[d] /\ ledger'[Account[d]] = ledger[Account[d]]
           \/ req'[d].pc \notin {"checking", "inserting"}
           \/ AllowanceFound(d)'
  PROVE  AInv'
<1>1. ASSUME NEW user \in Users
      PROVE  /\ IsFiniteSet(Claimed(user)')
             /\ Cardinality(Claimed(user)') <= Cardinality(Claimed(user))
             /\ Cardinality(Claimed(user)') \in Nat
             /\ Cardinality(Claimed(user)) \in Nat
             /\ StorageLimit[user] \in Nat
  <2> DEFINE S == Claimed(user)
             T == Claimed(user)'
  <2>1. IsFiniteSet(S) /\ T \subseteq S
    BY DEF AInv
  <2> HIDE DEF S, T
  <2>2. /\ IsFiniteSet(T) /\ Cardinality(T) <= Cardinality(S)
        /\ Cardinality(T) \in Nat /\ Cardinality(S) \in Nat
    BY <2>1, FS_Subset, FS_CardinalityType
  <2> QED
    BY <2>2, QuotaAssumption DEF S, T
<1>2. ASSUME NEW user \in Users
      PROVE  /\ IsFiniteSet(Claimed(user)')
             /\ Cardinality(Claimed(user)') <= StorageLimit[user]
  <2>1. Cardinality(Claimed(user)) <= StorageLimit[user]
    BY DEF AInv
  <2> QED
    BY <1>1, <2>1
<1>3. ASSUME NEW d \in Callers, req'[d] = req[d],
             ledger'[Account[d]] = ledger[Account[d]]
      PROVE  AllowanceFound(d)'
  <2>1. AllowanceFound(d) /\ Account[d] \in Users
    BY FlowAssumption DEF AInv
  <2>2. req[d].pc = "inserting" => req[d].size \in Nat
    BY RequestOfStep DEF AInv, XInv, IInv, TypeOK, InsertRequests
  <2>3. req[d].pc = "inserting" =>
          Cardinality(Claimed(Account[d])') + req[d].size
            <= StorageLimit[Account[d]]
    BY <1>1, <2>1, <2>2 DEF AllowanceFound
  <2> QED
    BY <1>3, <2>1, <2>3 DEF AllowanceFound
<1>4. ASSUME NEW d \in Callers PROVE AllowanceFound(d)'
  BY <1>3 DEF AllowanceFound
<1> QED
  BY <1>2, <1>4 DEF AInv

LEMMA NobodyGainsClaims ==
  ASSUME AInv, XInv', ledger' = ledger, NoNewPromise, TransfersGoOn,
         \A d \in Callers :
           \/ req'[d] = req[d]
           \/ req'[d].pc \notin {"checking", "inserting"}
           \/ AllowanceFound(d)'
  PROVE  AInv'
<1>1. QuotaTypeOK /\ QuotaTypeOK'
  BY DEF AInv, XInv, IInv, TypeOK
<1>2. ASSUME NEW user \in Users
      PROVE  Claimed(user)' \subseteq Claimed(user)
  <2>1. /\ PendingChunks(user)' \subseteq PendingChunks(user)
        /\ TransferChunks(user)' \subseteq TransferChunks(user)
        /\ StoredChunks(ledger[user])' = StoredChunks(ledger[user])
    BY <1>1, PromisesEnd, TransfersEnd DEF StoredChunks
  <2> QED
    BY <2>1 DEF Claimed
<1> QED
  BY <1>2, NobodyClaims

\* The end of a request, and a transfer's going on.
LEMMA EndClaims ==
  ASSUME AInv, NEW c \in Callers, Finish(c)
  PROVE  TransfersGoOn /\ NobodyReserves
BY DEF TransfersGoOn, NobodyReserves, Transferring, Finish, Idle, PutSteps,
       AInv, XInv, IInv, TypeOK

LEMMA GoOnClaims ==
  ASSUME AInv, NEW c \in Callers, Transferring(c), NEW pc \in PutSteps,
         Goto(c, pc)
  PROVE  TransfersGoOn /\ NobodyReserves
<1>1. /\ OthersWait(c) /\ req'[c].pc = pc
      /\ req'[c].upload = req[c].upload /\ req'[c].row = req[c].row
  BY PutGoesOn DEF AInv, XInv, IInv, TypeOK, Transferring
<1>2. TransfersGoOn
  BY <1>1 DEF TransfersGoOn, Transferring, OthersWait
<1>3. NobodyReserves
  BY <1>1 DEF NobodyReserves, OthersWait, PutSteps
<1> QED
  BY <1>2, <1>3

\* Steps that read the database or touch the volume.
LEMMA ReadsClaimNothing ==
  ASSUME AInv, XInv', NEW c \in Callers,
         \/ PutSelect(c) \/ PutChunk(c) \/ PutOverrun(c) \/ PutMeasure(c)
         \/ PutDiscard(c) \/ PutUnwind(c) \/ PutPromote(c) \/ PutDrop(c)
         \/ PutReplace(c) \/ CommitSelect(c) \/ Abort(c)
  PROVE  AInv'
<1>1. req \in [Callers -> Requests] /\ now \in Nat
  BY DEF AInv, XInv, IInv, TypeOK, QuotaTypeOK
<1>2. ledger' = ledger /\ rows' = rows /\ now' = now
  BY DEF PutSelect, PutChunk, PutOverrun, PutMeasure, PutDiscard, PutUnwind,
         PutPromote, PutDrop, PutReplace, CommitSelect, Abort, AfterRefusal,
         quotaVars
<1>3. NoNewPromise
  BY <1>1, <1>2 DEF NoNewPromise
<1>4. TransfersGoOn /\ NobodyReserves
  <2>1. CASE PutSelect(c) \/ CommitSelect(c)
    BY <1>1, <2>1
    DEF PutSelect, CommitSelect, TransfersGoOn, NobodyReserves, Transferring,
        PutSteps
  <2>2. CASE PutChunk(c)
    BY <2>2 DEF PutChunk, TransfersGoOn, NobodyReserves, Transferring
  <2>3. CASE PutUnwind(c) \/ Abort(c)
    BY <2>3, EndClaims DEF PutUnwind, Abort
  <2>4. CASE \/ PutOverrun(c) \/ PutMeasure(c) \/ PutDiscard(c)
             \/ PutPromote(c) \/ PutDrop(c) \/ PutReplace(c)
    <3>1. Transferring(c)
      BY <2>4
      DEF PutOverrun, PutMeasure, PutDiscard, PutPromote, PutDrop, PutReplace,
          Transferring, PutSteps, At
    <3>2. Finish(c) \/ \E pc \in PutSteps : Goto(c, pc)
      BY <2>4
      DEF PutOverrun, PutMeasure, PutDiscard, PutPromote, PutDrop, PutReplace,
          PutSteps
    <3> QED
      BY <3>1, <3>2, EndClaims, GoOnClaims
  <2> QED
    BY <2>1, <2>2, <2>3, <2>4
<1> QED
  BY <1>2, <1>3, <1>4, NobodyGainsClaims DEF NobodyReserves

\* A commit, the sweep and the clock only end promises.
LEMMA CommitsClaimNothing ==
  ASSUME AInv, XInv', NEW c \in Callers, CommitWrite(c)
  PROVE  AInv'
<1>1. ledger' = ledger /\ now' = now /\ TransfersGoOn /\ NobodyReserves
  BY EndClaims DEF CommitWrite
<1>2. NoNewPromise
  BY DEF NoNewPromise, CommitWrite, CommittedState, AInv, XInv, IInv, TypeOK,
         QuotaTypeOK, Row, Unissued, Gone
<1> QED
  BY <1>1, <1>2, NobodyGainsClaims DEF NobodyReserves

LEMMA NobodysStepClaimsNothing ==
  ASSUME AInv, XInv', Sweep \/ ClockTick \/ UNCHANGED vars
  PROVE  AInv'
<1>1. ledger' = ledger /\ req' = req
  BY DEF Sweep, SweepSelect, SweepDiscard, SweepDelete, SweepAbort, ClockTick,
         Tick, quotaVars, vars
<1>2. TransfersGoOn /\ NobodyReserves
  BY <1>1 DEF TransfersGoOn, NobodyReserves, Transferring
<1>3. now \in Nat
  BY DEF AInv, XInv, IInv, TypeOK, QuotaTypeOK
<1>4. NoNewPromise
  BY <1>3, RowFacts
  DEF NoNewPromise, Sweep, SweepSelect, SweepDiscard, SweepDelete, SweepAbort,
      ClockTick, Tick, quotaVars, vars
<1> QED
  BY <1>1, <1>2, <1>4, NobodyGainsClaims DEF NobodyReserves

\* PutOpen's transfer is one that was promised: the reservation it checked is
\* still the row's, for the sweep takes expired ones only.
LEMMA OpenClaimsPromised ==
  ASSUME OneCredential, AInv, XInv', NEW c \in Callers, PutOpen(c)
  PROVE  AInv'
<1> DEFINE r == req[c]
           user == Account[c]
<1>1. /\ r \in PutRequests /\ r.pc = "opening" /\ user \in Users
      /\ req \in [Callers -> Requests] /\ now \in Nat
      /\ HoldsRow(c) /\ OwnRow(c)
  BY RequestOfStep, FlowAssumption
  DEF PutOpen, At, PutSteps, AInv, XInv, IInv, TypeOK, QuotaTypeOK
<1>2. ledger' = ledger /\ rows' = rows /\ now' = now
  BY DEF PutOpen, quotaVars
<1>3. NoNewPromise
  BY <1>1, <1>2 DEF NoNewPromise
<1>4. CASE Finish(c)
  BY <1>2, <1>3, <1>4, EndClaims, NobodyGainsClaims DEF NobodyReserves
<1>5. CASE LiveReservation(r.row) /\ Goto(c, "streaming")
  <2>1. /\ OthersWait(c) /\ req'[c].pc = "streaming"
        /\ req'[c].upload = r.upload /\ req'[c].row = r.row
    BY <1>1, <1>5, PutGoesOn DEF PutSteps
  <2>2. r.upload \in Uploads /\ r.row \in Row
    BY <1>1 DEF PutRequests
  <2>3. rows[r.upload] = r.row
    BY <1>1, <1>5, <2>2 DEF HoldsRow, LiveReservation, PutSteps, Row
  <2>4. r.upload \in Pending(user)
    BY <1>1, <1>5, <2>2, <2>3, RowFacts
    DEF Pending, OwnedBy, Live, LiveReservation, OwnRow, PutSteps
  <2>5. Chunks(r.upload, r.row.size) \subseteq PendingChunks(user)
    BY <2>3, <2>4 DEF PendingChunks
  <2>6. ASSUME NEW a \in Users, NEW d \in Callers, Account[d] = a,
               Transferring(d)'
        PROVE  Chunks(req'[d].upload, req'[d].row.size) \subseteq Claimed(a)
    <3>1. CASE d = c
      BY <2>1, <2>5, <2>6, <3>1 DEF Claimed
    <3>2. CASE d # c
      <4>1. req'[d] = req[d] /\ Transferring(d)
        BY <2>1, <2>6, <3>2 DEF OthersWait, Transferring
      <4> QED
        BY <2>6, <4>1 DEF Claimed, TransferChunks
    <3> QED
      BY <3>1, <3>2
  <2>7. ASSUME NEW a \in Users PROVE Claimed(a)' \subseteq Claimed(a)
    <3>1. TransferChunks(a)' \subseteq Claimed(a)
      BY <2>6 DEF TransferChunks
    <3>2. /\ PendingChunks(a)' \subseteq PendingChunks(a)
          /\ StoredChunks(ledger[a])' = StoredChunks(ledger[a])
      BY <1>2, <1>3, PromisesEnd
      DEF StoredChunks, AInv, XInv, IInv, TypeOK
    <3> QED
      BY <3>1, <3>2 DEF Claimed
  <2> QED
    BY <1>2, <2>1, <2>7, NobodyClaims DEF OthersWait
<1> QED
  BY <1>4, <1>5 DEF PutOpen

\* PutCharge charges what its transfer claimed, whether or not the promise has
\* run out.
LEMMA ChargeClaimsTransferred ==
  ASSUME OneCredential, AInv, XInv', NEW c \in Callers, PutCharge(c)
  PROVE  AInv'
<1> DEFINE r == req[c]
           user == Account[c]
           u == r.upload
<1>1. /\ r \in PutRequests /\ r.pc = "charging" /\ user \in Users
      /\ u \in Uploads /\ r.body \in Bodies
      /\ req \in [Callers -> Requests] /\ now \in Nat
      /\ rows \in [Uploads -> Row \cup {Unissued, Gone}]
      /\ ledger \in [Users -> [Uploads -> Nat]]
      /\ HoldsRow(c) /\ OwnRow(c) /\ Promised(c)
  <2>1. r.pc = "charging" /\ req \in [Callers -> Requests]
    BY DEF PutCharge, At, AInv, XInv, IInv, TypeOK
  <2>2. r \in PutRequests
    BY <2>1, RequestOfStep DEF PutSteps
  <2> QED
    BY <2>1, <2>2, FlowAssumption
    DEF PutRequests, AInv, XInv, IInv, TypeOK, QuotaTypeOK
<1>2. now' = now /\ Finish(c) /\ TransfersGoOn /\ NobodyReserves
  BY EndClaims DEF PutCharge
<1>3. CASE rows[u] = Gone
  <2>1. ledger' = ledger /\ rows' = rows
    BY <1>3 DEF PutCharge, tables
  <2>2. NoNewPromise
    BY <1>1, <1>2, <2>1 DEF NoNewPromise
  <2> QED
    BY <1>2, <2>1, <2>2, NobodyGainsClaims DEF NobodyReserves
<1>4. CASE rows[u] # Gone
  <2>1. /\ rows' = [rows EXCEPT ![u].key = r.body, ![u].state = "uploaded"]
        /\ ledger' = [ledger EXCEPT ![user][u] = @ + Size[r.body]]
    BY <1>4 DEF PutCharge, Charge
  <2>2. /\ rows[u] = r.row /\ rows[u] \in Row /\ rows[u].state = "reserved"
        /\ rows[u].owner = user /\ Size[r.body] = r.row.size
    BY <1>1, <1>4 DEF HoldsRow, OwnRow, Promised, Measured, PutSteps
  <2>3. ledger[user][u] = 0 /\ Size[r.body] \in Nat
    BY <1>1, <2>2, StorageAssumption DEF AInv, XInv, Uncharged
  <2>4. /\ ledger'[user][u] = Size[r.body]
        /\ \A v \in Uploads : v # u => ledger'[user][v] = ledger[user][v]
        /\ \A a \in Users : a # user => ledger'[a] = ledger[a]
    BY <1>1, <2>1, <2>3
  <2>5. NoNewPromise
    BY <1>1, <1>2, <2>1, <2>2 DEF NoNewPromise, Row
  <2>6. Chunks(u, Size[r.body]) \subseteq TransferChunks(user)
    BY <1>1, <2>2 DEF TransferChunks, Transferring, PutSteps
  <2>7. ASSUME NEW a \in Users PROVE Claimed(a)' \subseteq Claimed(a)
    <3>1. /\ PendingChunks(a)' \subseteq PendingChunks(a)
          /\ TransferChunks(a)' \subseteq TransferChunks(a)
      BY <1>2, <2>5, PromisesEnd, TransfersEnd DEF AInv, XInv, IInv, TypeOK
    <3>2. CASE a # user
      <4>1. StoredChunks(ledger[a])' = StoredChunks(ledger[a])
        BY <2>4, <3>2 DEF StoredChunks
      <4> QED
        BY <3>1, <4>1 DEF Claimed
    <3>3. CASE a = user
      <4>1. ASSUME NEW v \in Uploads
            PROVE  Chunks(v, ledger'[user][v]) \subseteq Claimed(user)
        <5>1. CASE v = u
          BY <2>4, <2>6, <5>1 DEF Claimed
        <5>2. CASE v # u
          <6>1. Chunks(v, ledger[user][v]) \subseteq StoredChunks(ledger[user])
            BY DEF StoredChunks
          <6> QED
            BY <2>4, <5>2, <6>1 DEF Claimed
        <5> QED
          BY <5>1, <5>2
      <4>2. StoredChunks(ledger[user])' \subseteq Claimed(user)
        BY <4>1 DEF StoredChunks
      <4> QED
        BY <3>1, <3>3, <4>2 DEF Claimed
    <3> QED
      BY <3>2, <3>3
  <2>8. ASSUME NEW d \in Callers, d # c
        PROVE  req'[d] = req[d] /\ ledger'[Account[d]] = ledger[Account[d]]
    <3>1. Account[d] \in Users /\ Account[d] # user
      BY <2>8, FlowAssumption DEF OneCredential
    <3> QED
      BY <1>1, <1>2, <2>4, <2>8, <3>1 DEF Finish
  <2>9. req'[c].pc \notin {"checking", "inserting"}
    BY <1>1, <1>2 DEF Finish, Idle
  <2> QED
    BY <2>7, <2>8, <2>9, NobodyClaims
<1> QED
  BY <1>3, <1>4

\* What ReserveBegin reads of the ledger, and what ReserveCheck finds.
LEMMA ReadsFind ==
  ASSUME OneCredential, AInv, XInv', NEW c \in Callers,
         ReserveBegin(c) \/ ReserveCheck(c)
  PROVE  AInv'
<1> DEFINE r == req[c]
           user == Account[c]
<1>1. /\ req \in [Callers -> Requests] /\ user \in Users
      /\ QuotaTypeOK
  BY FlowAssumption DEF AInv, XInv, IInv, TypeOK
<1>2. ledger' = ledger /\ rows' = rows /\ now' = now
  BY DEF ReserveBegin, ReserveCheck, quotaVars
<1>3. NoNewPromise
  BY <1>1, <1>2 DEF NoNewPromise, QuotaTypeOK
<1>4. CASE ReserveBegin(c)
  <2>1. /\ req'[c].pc = "checking" /\ req'[c].entries = ledger[user]
        /\ \A d \in Callers : d # c => req'[d] = req[d]
    BY <1>1, <1>4 DEF ReserveBegin
  <2>2. TransfersGoOn
    BY <2>1 DEF TransfersGoOn, Transferring, PutSteps
  <2>3. AllowanceFound(c)'
    BY <1>2, <2>1 DEF AllowanceFound
  <2> QED
    BY <1>2, <1>3, <2>1, <2>2, <2>3, NobodyGainsClaims
<1>5. CASE ReserveCheck(c) /\ Finish(c)
  BY <1>2, <1>3, <1>5, EndClaims, NobodyGainsClaims DEF NobodyReserves
<1>6. CASE ReserveCheck(c) /\ ~ Finish(c)
  <2>1. /\ r.pc = "checking" /\ Admits(user, r)
        /\ req'[c].pc = "inserting" /\ req'[c].size = r.size
        /\ \A d \in Callers : d # c => req'[d] = req[d]
    BY <1>1, <1>6 DEF ReserveCheck, At
  <2>2. r \in ReserveRequests /\ r.entries = ledger[user]
    BY <1>1, <2>1, RequestOfStep DEF AInv, AllowanceFound
  <2>3. TransfersGoOn
    BY <2>1 DEF TransfersGoOn, Transferring, PutSteps
  <2>4. TransferChunks(user) = {}
    <3>1. \A d \in Callers : Account[d] = user => ~ Transferring(d)
      BY <2>1 DEF OneCredential, Transferring, PutSteps
    <3> QED
      BY <3>1 DEF TransferChunks
  <2>5. /\ IsFiniteSet(StoredChunks(ledger[user]) \cup PendingChunks(user))
        /\ Claimed(user) =
             StoredChunks(ledger[user]) \cup PendingChunks(user)
    BY <1>1, <2>4 DEF Claimed, AInv
  <2>6. Cardinality(Claimed(user)) <=
          StoredBytes(ledger[user]) + PendingBytes(user)
    <3> DEFINE S == StoredChunks(ledger[user])
               P == PendingChunks(user)
    <3>1. IsFiniteSet(S \cup P) /\ S \subseteq S \cup P /\ P \subseteq S \cup P
      BY <2>5
    <3> HIDE DEF S, P
    <3>2. /\ IsFiniteSet(S) /\ IsFiniteSet(P) /\ IsFiniteSet(S \cap P)
      BY <3>1, FS_Subset, FS_Intersection
    <3>3. /\ Cardinality(S \cup P) =
               Cardinality(S) + Cardinality(P) - Cardinality(S \cap P)
          /\ Cardinality(S) \in Nat /\ Cardinality(P) \in Nat
          /\ Cardinality(S \cap P) \in Nat
      BY <3>2, FS_Union, FS_CardinalityType
    <3>4. Cardinality(S \cup P) <= Cardinality(S) + Cardinality(P)
      BY <3>3
    <3> QED
      BY <2>5, <3>4 DEF S, P, StoredBytes, PendingBytes
  <2>7. Claimed(user)' = Claimed(user)
    <3>1. Pending(user)' = Pending(user) /\ TransferChunks(user)' = {}
      <4>1. TransferChunks(user)' \subseteq TransferChunks(user)
        BY <2>3, TransfersEnd
      <4>2. Pending(user)' = Pending(user)
        BY <1>2 DEF Pending, OwnedBy, Live
      <4> QED
        BY <2>4, <4>1, <4>2
    <3> QED
      BY <1>2, <2>4, <3>1 DEF Claimed, PendingChunks, StoredChunks
  <2>8. AllowanceFound(c)'
    <3>1. /\ StoredBytes(ledger[user]) + PendingBytes(user) + r.size
               <= StorageLimit[user]
      BY <2>1, <2>2 DEF Admits, CanFit
    <3>2. /\ Cardinality(Claimed(user)) \in Nat /\ r.size \in Nat
          /\ StorageLimit[user] \in Nat
      BY <1>1, <2>2, FS_CardinalityType, QuotaAssumption
      DEF AInv, ReserveRequests
    <3>3. StoredBytes(ledger[user]) \in Nat /\ PendingBytes(user) \in Nat
      <4>1. /\ IsFiniteSet(StoredChunks(ledger[user]))
            /\ IsFiniteSet(PendingChunks(user))
        BY <2>5, FS_Subset
      <4> QED
        BY <4>1, FS_CardinalityType DEF StoredBytes, PendingBytes
    <3>4. Cardinality(Claimed(user)) + r.size <= StorageLimit[user]
      BY <2>6, <3>1, <3>2, <3>3
    <3> QED
      BY <2>1, <2>7, <3>4 DEF AllowanceFound
  <2> QED
    BY <1>2, <1>3, <2>1, <2>3, <2>8, NobodyGainsClaims
<1> QED
  BY <1>4, <1>5, <1>6

\* An insert adds the reservation's size to what was found.
LEMMA InsertClaims ==
  ASSUME OneCredential, AInv, XInv', NEW c \in Callers, ReserveInsert(c)
  PROVE  AInv'
<1> DEFINE r == req[c]
           user == Account[c]
           new == Reserved(user, r)
<1>1. /\ r \in InsertRequests /\ r.pc = "inserting" /\ user \in Users
      /\ req \in [Callers -> Requests] /\ QuotaTypeOK
  BY RequestOfStep, FlowAssumption
  DEF ReserveInsert, At, AInv, XInv, IInv, TypeOK
<1>2. /\ ledger' = ledger /\ now' = now /\ Finish(c)
      /\ TransfersGoOn /\ NobodyReserves
  BY EndClaims DEF ReserveInsert
<1>3. CASE rows' = rows
  <2>1. NoNewPromise
    BY <1>1, <1>2, <1>3 DEF NoNewPromise, QuotaTypeOK
  <2> QED
    BY <1>2, <2>1, NobodyGainsClaims DEF NobodyReserves
<1>4. CASE rows' # rows
  <2>1. PICK w \in Uploads :
          rows[w] = Unissued /\ rows' = [rows EXCEPT ![w] = new]
    BY <1>4 DEF ReserveInsert
  <2>2. /\ rows'[w] = new /\ new.owner = user /\ new.size = r.size
        /\ \A v \in Uploads : v # w => rows'[v] = rows[v]
    BY <1>1, <2>1 DEF QuotaTypeOK, Reserved
  <2> HIDE DEF new
  <2>3. ASSUME NEW a \in Users
        PROVE  /\ a # user => Claimed(a)' \subseteq Claimed(a)
               /\ Claimed(a)' \subseteq Claimed(a) \cup Chunks(w, r.size)
    <3>1. /\ TransferChunks(a)' \subseteq TransferChunks(a)
          /\ StoredChunks(ledger[a])' = StoredChunks(ledger[a])
      BY <1>2, TransfersEnd DEF StoredChunks
    <3>2. ASSUME NEW v \in Pending(a)'
          PROVE  \/ v = w /\ a = user
                 \/ v \in Pending(a) /\ rows'[v] = rows[v]
      BY <1>2, <2>2, <3>2 DEF Pending, OwnedBy, Live
    <3>3. PendingChunks(a)' \subseteq PendingChunks(a) \cup Chunks(w, r.size)
      BY <2>2, <3>2 DEF PendingChunks
    <3>4. a # user => PendingChunks(a)' \subseteq PendingChunks(a)
      BY <3>2 DEF PendingChunks
    <3> QED
      BY <3>1, <3>3, <3>4 DEF Claimed
  <2>4. /\ IsFiniteSet(Claimed(user)')
        /\ Cardinality(Claimed(user)') <= StorageLimit[user]
    <3> DEFINE S == Claimed(user)
               N == Chunks(w, r.size)
               T == Claimed(user)'
    <3>1. /\ IsFiniteSet(S) /\ r.size \in Nat /\ StorageLimit[user] \in Nat
          /\ Cardinality(S) + r.size <= StorageLimit[user]
          /\ T \subseteq S \cup N
      BY <1>1, <2>3, QuotaAssumption DEF AInv, AllowanceFound, InsertRequests
    <3>2. IsFiniteSet(N) /\ Cardinality(N) = r.size
      BY <3>1, ChunkFacts
    <3> HIDE DEF S, N, T
    <3>3. /\ IsFiniteSet(S \cup N) /\ IsFiniteSet(S \cap N)
          /\ Cardinality(S \cup N) =
               Cardinality(S) + Cardinality(N) - Cardinality(S \cap N)
      BY <3>1, <3>2, FS_Union, FS_Intersection
    <3>4. IsFiniteSet(T) /\ Cardinality(T) <= Cardinality(S \cup N)
      BY <3>1, <3>3, FS_Subset
    <3>5. /\ Cardinality(S) \in Nat /\ Cardinality(S \cap N) \in Nat
          /\ Cardinality(T) \in Nat
      BY <3>1, <3>3, <3>4, FS_CardinalityType
    <3>6. Cardinality(T) <= StorageLimit[user]
      BY <3>1, <3>2, <3>3, <3>4, <3>5
    <3> QED
      BY <3>4, <3>6 DEF T
  <2>5. ASSUME NEW a \in Users, a # user
        PROVE  /\ IsFiniteSet(Claimed(a)')
               /\ Cardinality(Claimed(a)') <= Cardinality(Claimed(a))
               /\ Cardinality(Claimed(a)') <= StorageLimit[a]
               /\ Cardinality(Claimed(a)') \in Nat
               /\ Cardinality(Claimed(a)) \in Nat
    <3> DEFINE S == Claimed(a)
               T == Claimed(a)'
    <3>1. /\ IsFiniteSet(S) /\ T \subseteq S /\ StorageLimit[a] \in Nat
          /\ Cardinality(S) <= StorageLimit[a]
      BY <2>3, <2>5, QuotaAssumption DEF AInv
    <3> HIDE DEF S, T
    <3>2. /\ IsFiniteSet(T) /\ Cardinality(T) <= Cardinality(S)
          /\ Cardinality(T) \in Nat /\ Cardinality(S) \in Nat
      BY <3>1, FS_Subset, FS_CardinalityType
    <3> QED
      BY <3>1, <3>2 DEF S, T
  <2>6. ASSUME NEW d \in Callers PROVE AllowanceFound(d)'
    <3>1. CASE d = c
      BY <1>1, <1>2, <3>1 DEF AllowanceFound, Finish, Idle
    <3>2. CASE d # c
      <4>1. /\ Account[d] \in Users /\ Account[d] # user
            /\ req'[d] = req[d] /\ AllowanceFound(d)
        BY <1>1, <1>2, <3>2, FlowAssumption
        DEF OneCredential, Finish, AInv
      <4>2. req[d].pc = "inserting" => req[d].size \in Nat
        BY <1>1, RequestOfStep DEF InsertRequests
      <4>3. req[d].pc = "inserting" =>
              Cardinality(Claimed(Account[d])') + req[d].size
                <= StorageLimit[Account[d]]
        BY <2>5, <4>1, <4>2, QuotaAssumption DEF AllowanceFound
      <4> QED
        BY <1>2, <4>1, <4>3 DEF AllowanceFound
    <3> QED
      BY <3>1, <3>2
  <2> QED
    BY <2>4, <2>5, <2>6 DEF AInv
<1> QED
  BY <1>3, <1>4

LEMMA StepAInv == OneCredential /\ AInv /\ [Next]_vars => AInv'
<1> SUFFICES ASSUME OneCredential, AInv, [Next]_vars PROVE AInv'
  OBVIOUS
<1>1. XInv'
  BY StepXInv DEF AInv
<1>2. ASSUME NEW c \in Callers, Reserve(c) PROVE AInv'
  BY <1>1, <1>2, ReadsFind, InsertClaims DEF Reserve
<1>3. ASSUME NEW c \in Callers, Put(c) PROVE AInv'
  BY <1>1, <1>3, ReadsClaimNothing, OpenClaimsPromised,
     ChargeClaimsTransferred DEF Put
<1>4. ASSUME NEW c \in Callers, Commit(c) \/ Abort(c) PROVE AInv'
  BY <1>1, <1>4, ReadsClaimNothing, CommitsClaimNothing DEF Commit
<1>5. CASE Sweep \/ ClockTick \/ UNCHANGED vars
  BY <1>1, <1>5, NobodysStepClaimsNothing
<1> QED
  BY <1>2, <1>3, <1>4, <1>5 DEF Next

LEMMA InitAInv == Init => AInv
<1> SUFFICES ASSUME Init PROVE AInv
  OBVIOUS
<1>1. ASSUME NEW user \in Users PROVE Claimed(user) = {}
  <2>1. StoredChunks(ledger[user]) = {}
    BY DEF Init, QuotaInit, StoredChunks, Chunks
  <2>2. PendingChunks(user) = {} /\ TransferChunks(user) = {}
    BY DEF Init, QuotaInit, PendingChunks, Pending, OwnedBy, Live, Unissued,
           TransferChunks, Transferring, Idle, PutSteps
  <2> QED
    BY <2>1, <2>2 DEF Claimed
<1>2. \A c \in Callers : AllowanceFound(c)
  BY DEF AllowanceFound, Init, Idle
<1> QED
  BY <1>1, <1>2, InitXInv, FS_EmptySet, QuotaAssumption DEF AInv

\* What is stored and what is promised are different chunks: a reservation has
\* not been charged.
LEMMA ClaimsCoverAllowance == AInv => AllowanceKept
<1> SUFFICES ASSUME AInv, NEW user \in Users
             PROVE  StoredBytes(ledger[user]) + PendingBytes(user)
                      <= StorageLimit[user]
  BY DEF AllowanceKept
<1> DEFINE S == StoredChunks(ledger[user])
           P == PendingChunks(user)
           C == Claimed(user)
<1>1. S \cap P = {}
  <2> SUFFICES ASSUME NEW u \in Uploads, NEW v \in Pending(user),
                      NEW x, x \in Chunks(u, ledger[user][u]),
                      x \in Chunks(v, rows[v].size)
               PROVE  FALSE
    BY DEF StoredChunks, PendingChunks
  <2>1. u = v
    BY DEF Chunks
  <2>2. ledger[user][v] = 0
    BY DEF Pending, OwnedBy, Live, AInv, XInv, Uncharged
  <2> QED
    BY <2>1, <2>2 DEF Chunks
<1>2. /\ IsFiniteSet(C) /\ S \cup P \subseteq C
      /\ Cardinality(C) <= StorageLimit[user] /\ StorageLimit[user] \in Nat
  BY QuotaAssumption DEF AInv, Claimed
<1> HIDE DEF S, P, C
<1>3. /\ IsFiniteSet(S) /\ IsFiniteSet(P) /\ IsFiniteSet(S \cup P)
      /\ Cardinality(S \cup P) <= Cardinality(C)
  BY <1>2, FS_Subset
<1>4. Cardinality(S \cup P) = Cardinality(S) + Cardinality(P) - Cardinality({})
  BY <1>1, <1>3, FS_Union
<1>5. /\ Cardinality(S) \in Nat /\ Cardinality(P) \in Nat
      /\ Cardinality(C) \in Nat /\ Cardinality({}) = 0
  BY <1>2, <1>3, FS_CardinalityType, FS_EmptySet
<1>6. Cardinality(S) + Cardinality(P) <= StorageLimit[user]
  BY <1>2, <1>3, <1>4, <1>5
<1> QED
  BY <1>6 DEF S, P, StoredBytes, PendingBytes

\* What an account has stored and what it has been promised never exceed its
\* allowance, though the two are read one after the other and a promise may
\* run out under the transfer it was made for.
THEOREM AllowanceHolds ==
  ASSUME OneCredential PROVE Spec => []AllowanceKept
<1>1. AInv /\ [Next]_vars => AInv'
  BY StepAInv
<1>2. AInv => AllowanceKept
  BY ClaimsCoverAllowance
<1> QED
  BY <1>1, <1>2, InitAInv, PTL DEF Spec

=============================================================================
