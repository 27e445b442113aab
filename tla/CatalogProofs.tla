---------------------------- MODULE CatalogProofs ----------------------------
(***************************************************************************)
(* What readers may rely on, for any number of them and of publishers.     *)
(*                                                                         *)
(* A reader acts on an entry of any age.  KInv says what of it lasts: the  *)
(* artifact stays on the volume, and while the row is there it stays       *)
(* stored, under its name, with its key.                                   *)
(*                                                                         *)
(* The latest version of a model gives way only to one that is published   *)
(* in that step: no version was published after the last (TimesOrdered).   *)
(***************************************************************************)
EXTENDS CountsProofs, Catalog

ReaderTypes ==
  /\ downloads \in [Uploads -> Nat]
  /\ served \in [Uploads -> Nat]
  /\ reading \in [Readers -> Download \cup {None}]
  /\ known \in [Uploads -> Entry \cup {None}]

\* A stored version is as long as the artifact it names.
StoredSize ==
  \A u \in Uploads : Stored(u) => rows[u].size = Size[rows[u].key]

\* What is known of a version is still true, unless a sweep took the row.
KnownHolds ==
  \A u \in Uploads : known[u] # None =>
    /\ Exists(Final(known[u].url))
    /\ known[u].size = Size[known[u].url]
    /\ rows[u] # Gone =>
         /\ Stored(u)
         /\ rows[u].owner = known[u].owner
         /\ rows[u].slug = known[u].slug
         /\ rows[u].version = known[u].version
         /\ rows[u].key = known[u].url

\* A download counts from a count no higher than the downloads that went through,
\* and redirects to an artifact that is there.
ReadingHolds ==
  \A r \in Readers : reading[r] # None =>
    /\ reading[r].count <= served[reading[r].upload]
    /\ Exists(Final(reading[r].url))

KInv ==
  /\ ReaderTypes
  /\ StoredSize
  /\ KnownHolds
  /\ ReadingHolds
  /\ CountsWithinServed

-----------------------------------------------------------------------------
(* The catalog only watches the upload flow.                               *)

LEMMA CatalogStep == CatalogNext => Next \/ UNCHANGED vars
BY DEF CatalogNext, OtherFlow, Publish, FetchIndex, DownloadSelect,
       DownloadWrite, Next, Commit

\* Every theorem about the upload flow holds with readers.
THEOREM ReadersOnlyWatch == CatalogSpec => Spec
<1>1. CatalogInit => Init
  BY DEF CatalogInit
<1>2. [CatalogNext]_<<vars, catalogVars>> => [Next]_vars
  BY CatalogStep
<1> QED
  BY <1>1, <1>2, PTL DEF CatalogSpec, Spec

-----------------------------------------------------------------------------
(* What the upload flow does to what readers know.                         *)

\* A row that is still there says of itself what it said.
SameRow(u) ==
  /\ rows'[u].owner = rows[u].owner
  /\ rows'[u].slug = rows[u].slug
  /\ rows'[u].version = rows[u].version
  /\ rows'[u].sha256 = rows[u].sha256
  /\ rows'[u].size = rows[u].size

\* Only three steps write a row that exists.
LEMMA WhoWrites ==
  ASSUME [Next]_vars
  PROVE  \/ UNCHANGED rows
         \/ SweepDelete
         \/ \E c \in Callers : ReserveInsert(c) \/ PutCharge(c) \/ CommitWrite(c)
<1>1. ASSUME NEW c \in Callers, Put(c) PROVE PutCharge(c) \/ UNCHANGED rows
  BY <1>1
  DEF Put, PutSelect, PutOpen, PutChunk, PutOverrun, PutMeasure, PutDiscard,
      PutUnwind, AfterRefusal, PutPromote, PutDrop, PutReplace, quotaVars
<1>2. ASSUME NEW c \in Callers, Reserve(c) \/ Commit(c) \/ Abort(c)
      PROVE  ReserveInsert(c) \/ CommitWrite(c) \/ UNCHANGED rows
  BY <1>2
  DEF Reserve, ReserveBegin, ReserveCheck, Commit, CommitSelect, Abort,
      quotaVars
<1>3. Sweep \/ ClockTick => SweepDelete \/ UNCHANGED rows
  BY DEF Sweep, SweepSelect, SweepDiscard, SweepAbort, ClockTick, Tick,
         quotaVars
<1> QED
  BY <1>1, <1>2, <1>3 DEF Next, vars

\* Whatever a transfer or a commit writes, a stored version stays stored.
LEMMA RowsStay ==
  ASSUME IInv, [Next]_vars, NEW u \in Uploads, Stored(u), rows'[u] # Gone
  PROVE  SameRow(u) /\ Stored(u)'
<1>1. rows[u] \in Row /\ rows[u] # Unissued /\ rows[u] # Gone
  BY RowFacts DEF Stored, STORED, IInv, TypeOK, QuotaTypeOK
<1>2. ASSUME NEW c \in Callers, ReserveInsert(c) PROVE rows'[u] = rows[u]
  BY <1>1, <1>2 DEF ReserveInsert, IInv, TypeOK, QuotaTypeOK
<1>3. CASE SweepDelete
  BY <1>3 DEF SweepDelete, SameRow, Stored
<1>4. ASSUME NEW c \in Callers, PutCharge(c) PROVE SameRow(u) /\ Stored(u)'
  <2> DEFINE w == req[c].upload
             new == [rows[w] EXCEPT !.key = req[c].body, !.state = "uploaded"]
  <2>1. CASE rows'[u] = rows[u]
    BY <2>1 DEF SameRow, Stored
  <2>2. CASE rows'[u] # rows[u]
    <3>1. rows' = [rows EXCEPT ![w] = new]
      BY <1>4, <2>2 DEF PutCharge, tables
    <3>2. w = u
      BY <2>2, <3>1 DEF IInv, TypeOK, QuotaTypeOK
    <3>3. /\ new.owner = rows[w].owner /\ new.slug = rows[w].slug
          /\ new.version = rows[w].version /\ new.sha256 = rows[w].sha256
          /\ new.size = rows[w].size /\ new.state = "uploaded"
      BY <1>1, <3>2 DEF Row
    <3>4. rows'[u] = new
      BY <3>1, <3>2 DEF IInv, TypeOK, QuotaTypeOK
    <3> HIDE DEF new
    <3> QED
      BY <3>2, <3>3, <3>4 DEF SameRow, Stored, STORED
  <2> QED
    BY <2>1, <2>2
<1>5. ASSUME NEW c \in Callers, CommitWrite(c) PROVE SameRow(u) /\ Stored(u)'
  <2> DEFINE w == req[c].upload
             new == [rows[w] EXCEPT !.state = CommittedState]
  <2>1. CASE rows'[u] = rows[u]
    BY <2>1 DEF SameRow, Stored
  <2>2. CASE rows'[u] # rows[u]
    <3>1. rows' = [rows EXCEPT ![w] = new]
      BY <1>5, <2>2 DEF CommitWrite
    <3>2. w = u
      BY <2>2, <3>1 DEF IInv, TypeOK, QuotaTypeOK
    <3>3. /\ new.owner = rows[w].owner /\ new.slug = rows[w].slug
          /\ new.version = rows[w].version /\ new.sha256 = rows[w].sha256
          /\ new.size = rows[w].size /\ new.state = CommittedState
      BY <1>1, <3>2 DEF Row
    <3>4. rows'[u] = new
      BY <3>1, <3>2 DEF IInv, TypeOK, QuotaTypeOK
    <3>5. CommittedState \in STORED
      BY DEF CommittedState, STORED
    <3> HIDE DEF new
    <3> QED
      BY <3>2, <3>3, <3>4, <3>5 DEF SameRow, Stored
  <2> QED
    BY <2>1, <2>2
<1>6. ASSUME UNCHANGED rows PROVE SameRow(u) /\ Stored(u)'
  BY <1>6 DEF SameRow, Stored
<1>7. ASSUME rows'[u] = rows[u] PROVE SameRow(u) /\ Stored(u)'
  BY <1>7 DEF SameRow, Stored
<1> QED
  BY WhoWrites, <1>2, <1>3, <1>4, <1>5, <1>6, <1>7

\* ... and its key, which is its digest at both ends of the step.
LEMMA StoredStays ==
  ASSUME IInv, [Next]_vars, NEW u \in Uploads, Stored(u), rows'[u] # Gone
  PROVE  SameRow(u) /\ Stored(u)' /\ rows'[u].key = rows[u].key
<1>1. IInv'
  BY StepIInv
<1>2. SameRow(u) /\ Stored(u)'
  BY RowsStay
<1>3. rows[u].key = rows[u].sha256
  BY DEF IInv, StoredHasBytes
<1>4. rows'[u].key = rows'[u].sha256
  BY <1>1, <1>2 DEF IInv, StoredHasBytes, Stored
<1> QED
  BY <1>2, <1>3, <1>4 DEF SameRow

\* A version becomes stored by a transfer that measured what it received.
LEMMA SizesStay ==
  ASSUME IInv, StoredSize, [Next]_vars
  PROVE  StoredSize'
<1>1. ASSUME NEW u \in Uploads, Stored(u)', Stored(u)
      PROVE  rows'[u].size = Size[rows'[u].key]
  <2>1. rows'[u] # Gone
    BY <1>1, RowFacts DEF Stored, STORED
  <2> QED
    BY <1>1, <2>1, StoredStays DEF StoredSize, SameRow
<1>2. ASSUME NEW u \in Uploads, Stored(u)', ~ Stored(u)
      PROVE  rows'[u].size = Size[rows'[u].key]
  <2>1. rows'[u] # rows[u]
    BY <1>2 DEF Stored
  <2>2. ASSUME NEW c \in Callers, ReserveInsert(c) PROVE FALSE
    <3>1. PICK w \in Uploads :
            rows' = [rows EXCEPT ![w] = Reserved(Account[c], req[c])]
      BY <2>1, <2>2 DEF ReserveInsert
    <3>2. rows'[u] = Reserved(Account[c], req[c])
      BY <2>1, <3>1 DEF IInv, TypeOK, QuotaTypeOK
    <3> QED
      BY <1>2, <3>2 DEF Stored, STORED, Reserved
  <2>3. ~ SweepDelete
    BY <1>2, <2>1, RowFacts DEF SweepDelete, Stored, STORED
  <2>4. ASSUME NEW c \in Callers, CommitWrite(c) PROVE FALSE
    <3>1. u = req[c].upload /\ rows[u] # Gone
      BY <2>1, <2>4 DEF CommitWrite, IInv, TypeOK, QuotaTypeOK
    <3> QED
      BY <1>2, <2>4, <3>1 DEF CommitWrite, At, IInv, OwnRow
  <2>5. ASSUME NEW c \in Callers, PutCharge(c)
        PROVE  rows'[u].size = Size[rows'[u].key]
    <3> DEFINE r == req[c]
               new == [rows[u] EXCEPT !.key = r.body, !.state = "uploaded"]
    <3>1. rows[r.upload] # Gone /\ u = r.upload
      BY <2>1, <2>5 DEF PutCharge, tables, IInv, TypeOK, QuotaTypeOK
    <3>2. rows'[u] = new
      BY <2>5, <3>1 DEF PutCharge, IInv, TypeOK, QuotaTypeOK
    <3>3. Measured(r) /\ rows[u] # Unissued /\ rows[u].size = r.row.size
      BY <2>5, <3>1 DEF PutCharge, At, PutSteps, IInv, OwnRow, Promised
    <3>4. rows[u] \in Row
      BY <3>1, <3>3 DEF IInv, TypeOK, QuotaTypeOK
    <3>5. new.size = rows[u].size /\ new.key = r.body
      BY <3>4 DEF Row
    <3> HIDE DEF new
    <3> QED
      BY <3>2, <3>3, <3>5 DEF Measured
  <2> QED
    BY <2>1, <2>2, <2>3, <2>4, <2>5, WhoWrites
<1> QED
  BY <1>1, <1>2 DEF StoredSize

\* A published version, as an entry or a redirect tells it.
LEMMA PublishedFacts ==
  ASSUME IInv, StoredSize, NEW u \in Published
  PROVE  /\ u \in Uploads /\ Stored(u) /\ rows[u] # Gone /\ EntryFor(u) \in Entry
         /\ rows[u].key \in Bodies /\ Exists(Final(rows[u].key))
         /\ rows[u].size = Size[rows[u].key]
<1>1. u \in Uploads /\ Stored(u) /\ rows[u] \in Row /\ rows[u] # Gone
  BY RowFacts DEF Published, Stored, STORED, IInv, TypeOK, QuotaTypeOK
<1>2. rows[u].key = rows[u].sha256 /\ Exists(Final(rows[u].key))
  BY <1>1 DEF IInv, StoredHasBytes
<1>3. rows[u].size = Size[rows[u].key]
  BY <1>1 DEF StoredSize
<1>4. /\ rows[u].owner \in Users /\ rows[u].slug \in Slugs
      /\ rows[u].version \in Versions /\ rows[u].sha256 \in Bodies
      /\ rows[u].size \in Nat \ {0}
  BY <1>1 DEF Row
<1>5. EntryFor(u) \in Entry
  BY <1>2, <1>4 DEF EntryFor, Entry
<1> QED
  BY <1>1, <1>2, <1>3, <1>4, <1>5

\* What a cached entry says of a version, said of the row.
KnownOf(u, entry) ==
  /\ Exists(Final(entry.url))
  /\ entry.size = Size[entry.url]
  /\ rows[u] # Gone =>
       /\ Stored(u)
       /\ rows[u].owner = entry.owner
       /\ rows[u].slug = entry.slug
       /\ rows[u].version = entry.version
       /\ rows[u].key = entry.url

LEMMA KnownIsKnownOf ==
  KnownHolds <=> \A u \in Uploads : known[u] # None => KnownOf(u, known[u])
BY DEF KnownHolds, KnownOf

\* A row once gone is gone for good.
LEMMA GoneStays ==
  ASSUME IInv, [Next]_vars, NEW u \in Uploads, rows[u] = Gone
  PROVE  rows'[u] = Gone
<1>1. ASSUME NEW c \in Callers, ReserveInsert(c) PROVE rows'[u] = Gone
  BY <1>1, RowFacts DEF ReserveInsert, IInv, TypeOK, QuotaTypeOK
<1>2. ASSUME NEW c \in Callers, PutCharge(c) PROVE rows'[u] = Gone
  BY <1>2 DEF PutCharge, tables, IInv, TypeOK, QuotaTypeOK
<1>3. ASSUME NEW c \in Callers, CommitWrite(c) PROVE rows'[u] = Gone
  BY <1>3 DEF CommitWrite, IInv, TypeOK, QuotaTypeOK
<1>4. CASE SweepDelete
  BY <1>4 DEF SweepDelete
<1> QED
  BY <1>1, <1>2, <1>3, <1>4, WhoWrites

\* A step of the upload flow leaves readers what they know.
LEMMA FlowStep ==
  ASSUME IInv, KInv, [Next]_vars, UNCHANGED readerVars
  PROVE  KInv'
<1>1. /\ downloads' = downloads /\ served' = served
      /\ reading' = reading /\ known' = known
  BY DEF readerVars
<1>2. ArtifactsKept
  BY StepIInv
<1>3. ReaderTypes'
  BY <1>1 DEF KInv, ReaderTypes
<1>4. StoredSize'
  BY SizesStay DEF KInv
<1>5. ASSUME NEW u \in Uploads, known[u] # None PROVE KnownOf(u, known[u])'
  <2> DEFINE e == known[u]
  <2>1. e \in Entry /\ KnownOf(u, e) /\ e' = e
    BY <1>1, <1>5, KnownIsKnownOf DEF KInv, ReaderTypes
  <2>2. e.url \in Bodies
    BY <2>1 DEF Entry
  <2> HIDE DEF e
  <2>3. Exists(Final(e.url))'
    BY <1>2, <2>1, <2>2 DEF ArtifactsKept, KnownOf
  <2>4. ASSUME rows'[u] # Gone
        PROVE  /\ Stored(u)'
               /\ rows'[u].owner = e.owner /\ rows'[u].slug = e.slug
               /\ rows'[u].version = e.version /\ rows'[u].key = e.url
    <3>1. rows[u] # Gone
      BY <2>4, GoneStays
    <3> QED
      BY <2>1, <2>4, <3>1, StoredStays DEF KnownOf, SameRow
  <2> QED
    BY <2>1, <2>3, <2>4 DEF KnownOf, e
<1>6. KnownHolds'
  BY <1>1, <1>5, KnownIsKnownOf DEF KnownHolds, KnownOf
<1>7. ReadingHolds'
  <2>1. ASSUME NEW r \in Readers, reading[r] # None
        PROVE  Exists(Final(reading[r].url))'
    <3>1. reading[r].url \in Bodies /\ Exists(Final(reading[r].url))
      BY <2>1 DEF KInv, ReaderTypes, ReadingHolds, Download
    <3> QED
      BY <1>1, <1>2, <3>1 DEF ArtifactsKept
  <2> QED
    BY <1>1, <2>1 DEF KInv, ReadingHolds
<1>8. CountsWithinServed'
  BY <1>1 DEF KInv, CountsWithinServed
<1> QED
  BY <1>3, <1>4, <1>6, <1>7, <1>8 DEF KInv

-----------------------------------------------------------------------------
(* What readers do themselves.                                             *)

LEMMA FetchStep ==
  ASSUME IInv, KInv, FetchIndex
  PROVE  KInv'
<1>1. /\ rows' = rows /\ disk' = disk /\ downloads' = downloads
      /\ served' = served /\ reading' = reading
      /\ known' = [u \in Uploads |->
                     IF u \in Page THEN EntryFor(u) ELSE known[u]]
  BY DEF FetchIndex, vars
<1>2. Page \subseteq Published
  BY DEF Page, Newest
<1>3. ASSUME NEW u \in Page PROVE EntryFor(u) \in Entry /\ KnownOf(u, EntryFor(u))
  <2>1. u \in Published
    BY <1>2
  <2> QED
    BY <2>1, PublishedFacts DEF KInv, KnownOf, EntryFor
<1>4. ReaderTypes'
  BY <1>1, <1>3 DEF KInv, ReaderTypes
<1>5. StoredSize'
  BY <1>1 DEF KInv, StoredSize, Stored
<1>6. KnownHolds'
  <2>1. \A u \in Uploads : known'[u] # None => KnownOf(u, known'[u])
    BY <1>1, <1>3, KnownIsKnownOf DEF KInv
  <2> QED
    BY <1>1, <2>1 DEF KnownHolds, KnownOf, Exists, Stored
<1>7. ReadingHolds' /\ CountsWithinServed'
  BY <1>1 DEF KInv, ReadingHolds, CountsWithinServed, Exists
<1> QED
  BY <1>4, <1>5, <1>6, <1>7 DEF KInv

LEMMA SelectStep ==
  ASSUME IInv, KInv, NEW r \in Readers, DownloadSelect(r)
  PROVE  KInv'
<1>1. PICK u \in Published :
        /\ reading' = [reading EXCEPT ![r] =
             [upload |-> u, count |-> downloads[u], url |-> rows[u].key]]
        /\ UNCHANGED <<vars, publishTimes, downloads, served, known>>
  BY DEF DownloadSelect, OneVersion, History
<1> DEFINE d == [upload |-> u, count |-> downloads[u], url |-> rows[u].key]
<1>2. u \in Uploads /\ rows[u].key \in Bodies /\ Exists(Final(rows[u].key))
  BY PublishedFacts DEF KInv
<1>3. d \in Download /\ d.count <= served[d.upload] /\ Exists(Final(d.url))
  BY <1>2 DEF KInv, ReaderTypes, Download, CountsWithinServed
<1>4. /\ rows' = rows /\ disk' = disk /\ downloads' = downloads
      /\ served' = served /\ known' = known /\ reading' = [reading EXCEPT ![r] = d]
  BY <1>1 DEF vars
<1> HIDE DEF d
<1>5. ReaderTypes'
  BY <1>3, <1>4 DEF KInv, ReaderTypes
<1>6. ReadingHolds'
  BY <1>3, <1>4 DEF KInv, ReaderTypes, ReadingHolds, Exists
<1>7. StoredSize' /\ KnownHolds' /\ CountsWithinServed'
  BY <1>4 DEF KInv, StoredSize, Stored, KnownHolds, CountsWithinServed, Exists
<1> QED
  BY <1>5, <1>6, <1>7 DEF KInv

LEMMA WriteStep ==
  ASSUME IInv, KInv, NEW r \in Readers, DownloadWrite(r)
  PROVE  KInv'
<1> DEFINE u == reading[r].upload
           n == reading[r].count
<1>1. /\ rows' = rows /\ disk' = disk /\ known' = known
      /\ reading' = [reading EXCEPT ![r] = None] /\ reading[r] # None
      /\ \/ downloads' = downloads /\ served' = served
         \/ /\ downloads' = [downloads EXCEPT ![u] = n + 1]
            /\ served' = [served EXCEPT ![u] = @ + 1]
  BY DEF DownloadWrite, vars
<1>2. u \in Uploads /\ n \in Nat /\ n <= served[u]
  BY <1>1 DEF KInv, ReaderTypes, ReadingHolds, Download
<1> HIDE DEF u, n
<1>3. ReaderTypes'
  BY <1>1, <1>2 DEF KInv, ReaderTypes
<1>4. /\ \A v \in Uploads : served[v] <= served'[v]
      /\ CountsWithinServed'
  BY <1>1, <1>2 DEF KInv, ReaderTypes, CountsWithinServed
<1>5. ReadingHolds'
  <2>1. ASSUME NEW q \in Readers, reading'[q] # None
        PROVE  /\ reading'[q].count <= served'[reading'[q].upload]
               /\ Exists(Final(reading'[q].url))
    <3>1. reading'[q] = reading[q] /\ reading[q] \in Download
      BY <1>1, <2>1 DEF KInv, ReaderTypes
    <3>2. /\ reading[q].count \in Nat /\ reading[q].upload \in Uploads
          /\ served[reading[q].upload] \in Nat
          /\ served'[reading[q].upload] \in Nat
      BY <1>3, <3>1 DEF KInv, ReaderTypes, Download
    <3>3. /\ reading[q].count <= served[reading[q].upload]
          /\ Exists(Final(reading[q].url))
      BY <2>1, <3>1 DEF KInv, ReadingHolds
    <3> QED
      BY <1>4, <3>1, <3>2, <3>3
  <2> QED
    BY <1>1, <2>1 DEF ReadingHolds, Exists
<1>6. StoredSize' /\ KnownHolds'
  BY <1>1 DEF KInv, StoredSize, Stored, KnownHolds, Exists
<1> QED
  BY <1>3, <1>4, <1>5, <1>6 DEF KInv

LEMMA StepKInv == IInv /\ KInv /\ [CatalogNext]_<<vars, catalogVars>> => KInv'
<1> SUFFICES ASSUME IInv, KInv, [CatalogNext]_<<vars, catalogVars>>
             PROVE  KInv'
  OBVIOUS
<1>1. CASE FetchIndex
  BY <1>1, FetchStep
<1>2. ASSUME NEW r \in Readers, DownloadSelect(r) \/ DownloadWrite(r)
      PROVE  KInv'
  BY <1>2, SelectStep, WriteStep
<1>3. CASE UNCHANGED <<vars, catalogVars>>
  BY <1>3, FlowStep DEF catalogVars
<1>4. CASE OtherFlow
  BY <1>4, FlowStep DEF OtherFlow, catalogVars, Next, Commit
<1>5. ASSUME NEW c \in Callers, Publish(c) PROVE KInv'
  BY <1>5, FlowStep DEF Publish, Next, Commit
<1> QED
  BY <1>1, <1>2, <1>3, <1>4, <1>5 DEF CatalogNext

LEMMA InitKInv == CatalogInit => KInv
<1> SUFFICES ASSUME CatalogInit PROVE KInv
  OBVIOUS
<1>1. \A u \in Uploads : ~ Stored(u)
  BY DEF CatalogInit, Init, QuotaInit, Stored, STORED, Unissued
<1>2. ReaderTypes
  BY DEF CatalogInit, ReaderTypes
<1>3. CountsWithinServed /\ KnownHolds /\ ReadingHolds
  BY DEF CatalogInit, CountsWithinServed, KnownHolds, ReadingHolds
<1> QED
  BY <1>1, <1>2, <1>3 DEF KInv, StoredSize

THEOREM CatalogInvariance == CatalogSpec => [](IInv /\ KInv)
<1>1. CatalogSpec => []IInv
  BY ReadersOnlyWatch, Invariance, PTL
<1> QED
  BY <1>1, InitKInv, StepKInv, PTL DEF CatalogSpec

-----------------------------------------------------------------------------

\* A pinned version name leads to the bytes it led to, whoever publishes.
THEOREM PinsAreGood == CatalogSpec => []PinsHold
<1>1. ASSUME KInv, NamesUnique PROVE PinsHold
  <2> SUFFICES ASSUME NEW u \in Uploads, NEW v \in Uploads, known[u] # None,
                      rows[u] # Gone, Stored(v),
                      rows[v].owner = known[u].owner,
                      rows[v].slug = known[u].slug,
                      rows[v].version = known[u].version
               PROVE  rows[v].key = known[u].url
    BY DEF PinsHold
  <2>1. /\ Stored(u)
        /\ rows[u].owner = known[u].owner /\ rows[u].slug = known[u].slug
        /\ rows[u].version = known[u].version /\ rows[u].key = known[u].url
    BY <1>1 DEF KInv, KnownHolds
  <2>2. u \in Live /\ v \in Live
    BY <2>1 DEF Stored, STORED, Live
  <2>3. u = v
    BY <1>1, <2>1, <2>2 DEF NamesUnique
  <2> QED
    BY <2>1, <2>3
<1> QED
  BY <1>1, CatalogInvariance, ReadersOnlyWatch, VersionNamesUnique, PTL

\* A cached URL and a redirect lead to a whole artifact, of the size an entry
\* says, when accounts work with one credential at a time.
THEOREM UrlsAreGood ==
  ASSUME OneCredential
  PROVE  CatalogSpec => []UrlsResolve
<1>1. ASSUME KInv, ArtifactsComplete PROVE UrlsResolve
  <2>1. ASSUME NEW u \in Uploads, known[u] # None
        PROVE  /\ known[u].url \in Bodies
               /\ disk[Final(known[u].url)] = Image(known[u].url)
               /\ known[u].size = Size[known[u].url]
    BY <1>1, <2>1
    DEF KInv, ReaderTypes, KnownHolds, Entry, ArtifactsComplete, Exists
  <2>2. ASSUME NEW r \in Readers, reading[r] # None
        PROVE  /\ reading[r].url \in Bodies
               /\ disk[Final(reading[r].url)] = Image(reading[r].url)
    BY <1>1, <2>2
    DEF KInv, ReaderTypes, ReadingHolds, Download, ArtifactsComplete, Exists
  <2> QED
    BY <2>1, <2>2 DEF UrlsResolve
<1> QED
  BY <1>1, CatalogInvariance, ReadersOnlyWatch, ArtifactsAreWhole, PTL

\* Overlapping downloads never count more than they served, nor all of them
\* away.
THEOREM CountsAreHonest == CatalogSpec => []CountsWithinServed
<1>1. KInv => CountsWithinServed
  BY DEF KInv
<1> QED
  BY <1>1, CatalogInvariance, PTL

-----------------------------------------------------------------------------
(* The order of publication.                                               *)

\* No version was published after the last.
TimesOrdered ==
  /\ publishedAt \in [Uploads -> Nat]
  /\ lastPublish \in Nat
  /\ \A u \in Uploads : publishedAt[u] <= lastPublish

LEMMA StepTimes ==
  IInv /\ TimesOrdered /\ [CatalogNext]_<<vars, catalogVars>> => TimesOrdered'
<1> SUFFICES ASSUME IInv, TimesOrdered, [CatalogNext]_<<vars, catalogVars>>
             PROVE  TimesOrdered'
  OBVIOUS
<1>1. UNCHANGED publishTimes \/ \E c \in Callers : Publish(c)
  BY DEF CatalogNext, OtherFlow, FetchIndex, DownloadSelect, DownloadWrite,
         catalogVars
<1>2. CASE UNCHANGED publishTimes
  BY <1>2 DEF TimesOrdered, publishTimes
<1>3. ASSUME NEW c \in Callers, Publish(c), ~ UNCHANGED publishTimes
      PROVE  TimesOrdered'
  <2> DEFINE u == req[c].upload
  <2>1. /\ lastPublish' = lastPublish + 1
        /\ publishedAt' = [publishedAt EXCEPT ![u] = lastPublish + 1]
    BY <1>3 DEF Publish, Stamp
  <2>2. /\ lastPublish \in Nat /\ publishedAt \in [Uploads -> Nat]
        /\ u \in Uploads
    BY <1>3, RequestOfStep
    DEF TimesOrdered, Publish, CommitWrite, At, IInv, TypeOK, CommitRequests
  <2> HIDE DEF u
  <2>3. lastPublish' \in Nat /\ publishedAt' \in [Uploads -> Nat]
    BY <2>1, <2>2
  <2>4. ASSUME NEW v \in Uploads PROVE publishedAt'[v] <= lastPublish'
    <3>1. publishedAt[v] \in Nat /\ publishedAt[v] <= lastPublish
      BY <2>2 DEF TimesOrdered
    <3>2. publishedAt'[v] = publishedAt[v] \/ publishedAt'[v] = lastPublish + 1
      BY <2>1, <2>2
    <3> QED
      BY <2>1, <2>2, <3>1, <3>2
  <2> QED
    BY <2>3, <2>4 DEF TimesOrdered
<1> QED
  BY <1>1, <1>2, <1>3

LEMMA InitTimes == CatalogInit => TimesOrdered
BY DEF CatalogInit, TimesOrdered

\* The catalog's variables have their types, with any number of credentials.
THEOREM CatalogTypeCorrect == CatalogSpec => []CatalogTypeOK
<1>1. CatalogSpec => [](IInv /\ KInv)
  BY CatalogInvariance
<1>2. KInv /\ TimesOrdered => CatalogTypeOK
  BY DEF KInv, ReaderTypes, TimesOrdered, CatalogTypeOK
<1> QED
  BY <1>1, <1>2, InitTimes, StepTimes, PTL DEF CatalogSpec

\* A published version keeps its row until a sweep takes it.
LEMMA PublishedStays ==
  ASSUME OneCredential, XInv, [Next]_vars, NEW u \in Published
  PROVE  rows'[u] = rows[u] \/ rows'[u] = Gone
<1>1. /\ u \in Uploads /\ rows[u].state = "published"
      /\ rows \in [Uploads -> Row \cup {Unissued, Gone}]
      /\ rows' \in [Uploads -> Row \cup {Unissued, Gone}]
  BY StepXInv DEF Published, XInv, IInv, TypeOK, QuotaTypeOK
<1>2. Rank("published") = 3
  BY DEF Rank
<1>3. rows'[u] # rows[u] => Rank(rows'[u].state) > 3
  BY <1>1, <1>2, StepForward DEF Forward
<1>4. CASE rows'[u] = Unissued
  <2>1. Rank(rows'[u].state) = 0
    BY <1>4, RankFacts, RowFacts
  <2> QED
    BY <1>3, <2>1
<1>5. CASE rows'[u] \in Row
  <2>1. Rank(rows'[u].state) \in 1..3
    BY <1>5, RankFacts
  <2> QED
    BY <1>3, <2>1
<1> QED
  BY <1>1, <1>4, <1>5

\* Only a commit publishes, and it stamps what it publishes.
LEMMA WhoPublishes ==
  ASSUME OneCredential, XInv, CatalogNext
  PROVE  \/ Published' \subseteq Published /\ UNCHANGED publishTimes
         \/ \E c \in Callers :
              /\ Publish(c) /\ ~ RequireVerification
              /\ req[c].upload \in Uploads \ Published
              /\ rows[req[c].upload] # Gone
<1>1. rows \in [Uploads -> Row \cup {Unissued, Gone}]
  BY DEF XInv, IInv, TypeOK, QuotaTypeOK
<1>2. CASE UNCHANGED rows /\ UNCHANGED publishTimes
  BY <1>2 DEF Published
<1>3. CASE SweepDelete /\ UNCHANGED publishTimes
  BY <1>3, RowFacts DEF SweepDelete, Published
<1>4. ASSUME NEW c \in Callers, ReserveInsert(c)
      PROVE  Published' \subseteq Published
  BY <1>1, <1>4 DEF ReserveInsert, Reserved, Published
<1>5. ASSUME NEW c \in Callers, PutCharge(c)
      PROVE  Published' \subseteq Published
  <2> DEFINE w == req[c].upload
  <2>1. CASE rows' = rows
    BY <2>1 DEF Published
  <2>2. CASE rows' # rows
    <3>1. /\ rows[w] # Gone /\ w \in Uploads
          /\ rows' = [rows EXCEPT ![w] =
               [rows[w] EXCEPT !.key = req[c].body, !.state = "uploaded"]]
      BY <1>5, <2>2, RowHeld DEF PutCharge, tables, At, PutSteps
    <3>2. rows[w] \in Row
      BY <1>1, <1>5, <3>1, RowHeld
      DEF PutCharge, At, PutSteps, HoldsRow
    <3>3. rows'[w].state = "uploaded"
      BY <1>1, <3>1, <3>2 DEF Row
    <3> QED
      BY <1>1, <3>1, <3>3 DEF Published
  <2> QED
    BY <2>1, <2>2
<1>6. ASSUME NEW c \in Callers, Publish(c)
      PROVE  \/ Published' \subseteq Published /\ UNCHANGED publishTimes
             \/ /\ ~ RequireVerification /\ rows[req[c].upload] # Gone
                /\ req[c].upload \in Uploads \ Published
  <2> DEFINE w == req[c].upload
  <2>1. /\ req[c].pc = "publishing" /\ w \in Uploads
        /\ HoldsRow(c) /\ CommitWrite(c) /\ Stamp(w)
    BY <1>6, RequestOfStep
    DEF Publish, CommitWrite, At, XInv, IInv, TypeOK, CommitRequests
  <2>2. CASE rows[w] = Gone
    BY <2>1, <2>2 DEF CommitWrite, Stamp, Published
  <2>3. CASE rows[w] # Gone
    <3>1. rows[w].state = "uploaded" /\ rows[w] \in Row
      BY <1>1, <2>1, <2>3, RowFacts DEF HoldsRow
    <3>2. w \notin Published
      BY <3>1 DEF Published
    <3>3. CASE RequireVerification
      <4>1. rows'[w].state = "verifying"
        BY <1>1, <2>1, <2>3, <3>1, <3>3 DEF CommitWrite, CommittedState, Row
      <4>2. \A v \in Uploads : v # w => rows'[v] = rows[v]
        BY <1>1, <2>1, <2>3 DEF CommitWrite
      <4> QED
        BY <2>1, <3>3, <4>1, <4>2 DEF Stamp, Published
    <3> QED
      BY <2>1, <2>3, <3>2, <3>3
  <2> QED
    BY <2>2, <2>3
<1>7. CASE OtherFlow
  <2>1. UNCHANGED publishTimes
    BY <1>7 DEF OtherFlow, catalogVars
  <2>2. \/ UNCHANGED rows \/ SweepDelete
        \/ \E c \in Callers : ReserveInsert(c) \/ PutCharge(c)
    BY <1>7
    DEF OtherFlow, Reserve, ReserveBegin, ReserveCheck, Put, PutSelect,
        PutOpen, PutChunk, PutOverrun, PutMeasure, PutDiscard, PutUnwind,
        AfterRefusal, PutPromote, PutDrop, PutReplace, CommitSelect, Abort,
        Sweep, SweepSelect, SweepDiscard, SweepAbort, ClockTick, Tick,
        quotaVars
  <2> QED
    BY <1>2, <1>3, <1>4, <1>5, <2>1, <2>2
<1>8. CASE FetchIndex \/ \E r \in Readers : DownloadSelect(r) \/ DownloadWrite(r)
  BY <1>2, <1>8 DEF FetchIndex, DownloadSelect, DownloadWrite, vars
<1> QED
  BY <1>6, <1>7, <1>8 DEF CatalogNext

\* ORDER BY time DESC LIMIT 1: what nothing is newer than.
LEMMA NewestOfOne ==
  \A S, time : IsFiniteSet(S) =>
    {u \in S : Cardinality({v \in S : time[v] > time[u]}) < 1}
      = {u \in S : \A v \in S : ~ (time[v] > time[u])}
<1> TAKE S, time
<1> HAVE IsFiniteSet(S)
<1> DEFINE Above(u) == {v \in S : time[v] > time[u]}
<1>1. ASSUME NEW u \in S PROVE Cardinality(Above(u)) < 1 <=> Above(u) = {}
  <2>1. Above(u) \subseteq S
    OBVIOUS
  <2> HIDE DEF Above
  <2>2. IsFiniteSet(Above(u))
    BY <2>1, FS_Subset
  <2>3. /\ Cardinality(Above(u)) \in Nat
        /\ Cardinality(Above(u)) = 0 <=> Above(u) = {}
    BY <2>2, FS_CardinalityType, FS_EmptySet
  <2> QED
    BY <2>3
<1> QED
  BY <1>1

\* latest_version of a model, before a step and after it.
LEMMA LatestIsNewest ==
  ASSUME NEW user, NEW slug
  PROVE  /\ IsFiniteSet(Live) =>
              Latest(user, slug) =
                {u \in History(user, slug) :
                   \A v \in History(user, slug) :
                     ~ (publishedAt[v] > publishedAt[u])}
         /\ IsFiniteSet(Live') =>
              Latest(user, slug)' =
                {u \in History(user, slug)' :
                   \A v \in History(user, slug)' :
                     ~ (publishedAt'[v] > publishedAt'[u])}
<1> DEFINE H == History(user, slug)
<1>1. H \subseteq Live /\ H' \subseteq Live'
  BY DEF History, Published, Live
<1>2. ASSUME IsFiniteSet(Live)
      PROVE  Latest(user, slug) =
               {u \in H : \A v \in H : ~ (publishedAt[v] > publishedAt[u])}
  <2>1. IsFiniteSet(H)
    BY <1>1, <1>2, FS_Subset
  <2>2. Latest(user, slug) =
          {u \in H : Cardinality({v \in H : publishedAt[v] > publishedAt[u]}) < 1}
    BY DEF Latest, Newest
  <2> HIDE DEF H
  <2> QED
    BY <2>1, <2>2, NewestOfOne
<1>3. ASSUME IsFiniteSet(Live')
      PROVE  Latest(user, slug)' =
               {u \in H' : \A v \in H' : ~ (publishedAt'[v] > publishedAt'[u])}
  <2>1. IsFiniteSet(H')
    BY <1>1, <1>3, FS_Subset
  <2>2. Latest(user, slug)' =
          {u \in H' :
             Cardinality({v \in H' : publishedAt'[v] > publishedAt'[u]}) < 1}
    BY DEF Latest, Newest
  <2> HIDE DEF H
  <2> QED
    BY <2>1, <2>2, NewestOfOne
<1> QED
  BY <1>2, <1>3

\* A model that has published versions has a latest one.
LEMMA SomethingIsLatest ==
  ASSUME TimesOrdered, IsFiniteSet(Live), NEW user, NEW slug,
         NEW u \in History(user, slug)
  PROVE  \E m \in Latest(user, slug) : publishedAt[m] >= publishedAt[u]
<1> DEFINE H == History(user, slug)
           Age(v) == lastPublish - publishedAt[v]
           T == {Age(v) : v \in H}
           less == {pair \in Nat \X Nat : pair[1] < pair[2]}
<1>1. \A v \in H : v \in Uploads
  BY DEF History, Published
<1>2. \A v \in H : /\ publishedAt[v] \in Nat /\ lastPublish \in Nat
                   /\ Age(v) \in Nat
  BY <1>1 DEF TimesOrdered
<1>3. T \subseteq Nat /\ Age(u) \in T
  BY <1>2
<1>4. IsWellFoundedOn(less, Nat)
  <2>1. less = OpToRel(<, Nat)
    BY Zenon DEF OpToRel
  <2> QED
    BY <2>1, NatLessThanWellFounded, Zenon
<1>5. PICK a \in T : \A b \in T : <<b, a>> \notin less
  <2> HIDE DEF T, less
  <2> QED
    BY <1>3, <1>4, WFMin
<1>6. PICK m \in H : a = Age(m)
  BY <1>5
<1>7. ASSUME NEW v \in H PROVE publishedAt[v] <= publishedAt[m]
  <2>1. <<Age(v), Age(m)>> \notin less
    BY <1>5, <1>6
  <2>2. ~ (Age(v) < Age(m))
    BY <1>2, <2>1
  <2>3. /\ publishedAt[v] \in Nat /\ publishedAt[m] \in Nat
        /\ lastPublish \in Nat
    BY <1>2
  <2> QED
    BY <2>2, <2>3
<1>8. m \in Latest(user, slug)
  <2>1. \A v \in H : ~ (publishedAt[v] > publishedAt[m])
    BY <1>2, <1>7
  <2> QED
    BY <2>1, LatestIsNewest
<1> QED
  BY <1>2, <1>7, <1>8

\* What LatestAdvances says of a step and one model.
Advances(user, slug) ==
  \/ Latest(user, slug)' = Latest(user, slug)
  \/ /\ Latest(user, slug)' # {}
     /\ Latest(user, slug)' \cap Published = {}
  \/ \E u \in Latest(user, slug) : rows'[u] = Gone

\* As long as nothing is published, the latest version is the one shown, or
\* the sweep took it.
LEMMA LatestStays ==
  ASSUME OneCredential, XInv, TimesOrdered, IsFiniteSet(Live),
         IsFiniteSet(Live'), [Next]_vars, NEW user, NEW slug,
         History(user, slug)' \subseteq History(user, slug),
         \A u \in History(user, slug) : publishedAt'[u] = publishedAt[u]
  PROVE  Advances(user, slug)
<1> SUFFICES ASSUME \A u \in Latest(user, slug) : rows'[u] # Gone
             PROVE  Latest(user, slug)' = Latest(user, slug)
  BY DEF Advances
<1> DEFINE H == History(user, slug)
           shown == Latest(user, slug)
           next == Latest(user, slug)'
           Later(v, u) == publishedAt[v] > publishedAt[u]
<1>1. shown = {u \in H : \A v \in H : ~ Later(v, u)}
  BY LatestIsNewest
<1>2. next = {u \in H' : \A v \in H' : ~ Later(v, u)'}
  BY LatestIsNewest
<1>3. \A u, v \in H : Later(v, u)' <=> Later(v, u)
  OBVIOUS
<1>4. ASSUME NEW u \in shown PROVE u \in H'
  <2>1. u \in Published /\ rows[u].owner = user /\ rows[u].slug = slug
    BY <1>1 DEF History
  <2>2. rows'[u] = rows[u]
    BY <2>1, PublishedStays
  <2> QED
    BY <2>1, <2>2 DEF History, Published
<1>5. shown \subseteq next
  BY <1>1, <1>2, <1>3, <1>4
<1>6. ASSUME NEW u \in next PROVE u \in shown
  <2>1. u \in H
    BY <1>2
  <2>2. PICK m \in shown : publishedAt[m] >= publishedAt[u]
    BY <2>1, SomethingIsLatest
  <2>3. m \in H' /\ m \in H
    BY <1>1, <1>4, <2>2
  <2>4. ~ Later(m, u)
    BY <1>2, <1>3, <2>1, <2>3
  <2>5. /\ publishedAt[m] \in Nat /\ publishedAt[u] \in Nat
        /\ \A v \in H : publishedAt[v] \in Nat
    BY <2>1, <2>3 DEF History, Published, TimesOrdered
  <2>6. publishedAt[m] = publishedAt[u]
    BY <2>2, <2>4, <2>5
  <2>7. \A v \in H : ~ Later(v, u)
    BY <1>1, <2>2, <2>6
  <2> QED
    BY <1>1, <2>1, <2>7
<1> QED
  BY <1>5, <1>6

\* What has just been published is the latest of its model, and leaves every
\* other model alone.
LEMMA PublishedIsLatest ==
  ASSUME OneCredential, XInv, TimesOrdered, IsFiniteSet(Live),
         IsFiniteSet(Live'), [Next]_vars, NEW c \in Callers, Publish(c),
         ~ RequireVerification, req[c].upload \in Uploads \ Published,
         rows[req[c].upload] # Gone, NEW user, NEW slug
  PROVE  Advances(user, slug)
<1> DEFINE u == req[c].upload
           H == History(user, slug)
<1>1. /\ lastPublish' = lastPublish + 1
      /\ publishedAt' = [publishedAt EXCEPT ![u] = lastPublish + 1]
      /\ rows' = [rows EXCEPT ![u] = [rows[u] EXCEPT !.state = "published"]]
      /\ publishedAt \in [Uploads -> Nat] /\ lastPublish \in Nat
  BY DEF Publish, Stamp, CommitWrite, CommittedState, TimesOrdered
<1>2. /\ u \in Uploads /\ rows[u] \in Row
      /\ rows \in [Uploads -> Row \cup {Unissued, Gone}]
  <2>1. req[c].pc = "publishing" /\ HoldsRow(c)
    BY DEF Publish, CommitWrite, At, XInv
  <2>2. rows[u].state = "uploaded"
    BY <2>1 DEF HoldsRow
  <2> QED
    BY <2>2, RowFacts DEF XInv, IInv, TypeOK, QuotaTypeOK
<1>3. /\ rows'[u].state = "published"
      /\ rows'[u].owner = rows[u].owner /\ rows'[u].slug = rows[u].slug
      /\ publishedAt'[u] = lastPublish + 1
      /\ \A v \in Uploads : v # u =>
           rows'[v] = rows[v] /\ publishedAt'[v] = publishedAt[v]
  BY <1>1, <1>2 DEF Row
<1> HIDE DEF u
<1>4. u \notin H /\ H \subseteq Uploads
  <2>1. u \notin Published
    BY DEF u
  <2> QED
    BY <2>1 DEF History, Published
<1>5. CASE rows[u].owner = user /\ rows[u].slug = slug
  <2>1. H' = H \cup {u}
    BY <1>2, <1>3, <1>5 DEF History, Published
  <2>2. \A v \in H : publishedAt'[v] < publishedAt'[u]
    <3>1. ASSUME NEW v \in H PROVE publishedAt'[v] < publishedAt'[u]
      <4>1. v \in Uploads /\ v # u
        BY <1>4
      <4>2. publishedAt[v] \in Nat /\ publishedAt[v] <= lastPublish
        BY <4>1 DEF TimesOrdered
      <4> QED
        BY <1>1, <1>3, <4>1, <4>2
    <3> QED
      BY <3>1
  <2>3. publishedAt'[u] \in Nat /\ \A v \in H : publishedAt'[v] \in Nat
    BY <1>1, <1>2, <1>3, <1>4
  <2>4. Latest(user, slug)' =
          {v \in H' : \A w \in H' : ~ (publishedAt'[w] > publishedAt'[v])}
    BY LatestIsNewest
  <2>5. Latest(user, slug)' = {u}
    <3>1. ASSUME NEW v \in H PROVE v \notin Latest(user, slug)'
      BY <2>1, <2>2, <2>3, <2>4
    <3>2. \A w \in H' : ~ (publishedAt'[w] > publishedAt'[u])
      <4>1. ASSUME NEW w \in H' PROVE ~ (publishedAt'[w] > publishedAt'[u])
        <5>1. CASE w = u
          BY <2>3, <5>1
        <5>2. CASE w \in H
          BY <2>2, <2>3, <5>2
        <5> QED
          BY <2>1, <5>1, <5>2
      <4> QED
        BY <4>1
    <3> QED
      BY <2>1, <2>4, <3>1, <3>2
  <2> QED
    BY <2>5 DEF Advances, u
<1>6. CASE ~ (rows[u].owner = user /\ rows[u].slug = slug)
  <2>1. H' \subseteq H
    BY <1>2, <1>3, <1>6 DEF History, Published
  <2>2. \A v \in H : publishedAt'[v] = publishedAt[v]
    BY <1>3, <1>4
  <2> QED
    BY <2>1, <2>2, LatestStays
<1> QED
  BY <1>5, <1>6

RowsFinite == IsFiniteSet(Live)

\* An insert adds one row, any other step none.
LEMMA RowsStayFinite ==
  XInv /\ RowsFinite /\ [Next]_vars => RowsFinite'
<1> SUFFICES ASSUME XInv, IsFiniteSet(Live), [Next]_vars
             PROVE  IsFiniteSet(Live')
  BY DEF RowsFinite
<1>1. CASE SameNames
  <2>1. Live' \subseteq Live
    BY <1>1 DEF SameNames, Live
  <2> QED
    BY <2>1, FS_Subset
<1>2. ASSUME NEW c \in Callers, ReserveInsert(c), rows' # rows
      PROVE  IsFiniteSet(Live')
  <2>1. PICK w \in Uploads :
          rows' = [rows EXCEPT ![w] = Reserved(Account[c], req[c])]
    BY <1>2 DEF ReserveInsert
  <2>2. Live' \subseteq Live \cup {w}
    BY <2>1 DEF Live, XInv, IInv, TypeOK, QuotaTypeOK
  <2>3. IsFiniteSet(Live \cup {w})
    BY FS_AddElement
  <2> QED
    BY <2>2, <2>3, FS_Subset
<1> QED
  BY <1>1, <1>2, OnlyInsertsCount DEF XInv

\* The latest version of a model only gives way to one that was published just
\* now or to the sweep: no retry or late commit brings an old one back.
THEOREM LatestOnlyAdvances ==
  ASSUME OneCredential PROVE CatalogSpec => LatestAdvances
<1>1. ASSUME XInv, RowsFinite, TimesOrdered, CatalogNext,
             NEW user \in Users, NEW slug \in Slugs
      PROVE  Advances(user, slug)
  <2>1. [Next]_vars
    BY <1>1, CatalogStep
  <2>2. IsFiniteSet(Live) /\ IsFiniteSet(Live')
    BY <1>1, <2>1, RowsStayFinite DEF RowsFinite
  <2>3. CASE Published' \subseteq Published /\ UNCHANGED publishTimes
    <3>1. History(user, slug)' \subseteq History(user, slug)
      <4>1. ASSUME NEW u \in Published' PROVE rows'[u] = rows[u]
        <5>1. u \in Published /\ rows'[u].state = "published"
          BY <2>3, <4>1 DEF Published
        <5> QED
          BY <1>1, <2>1, <5>1, PublishedStays, RowFacts
      <4> QED
        BY <2>3, <4>1 DEF History
    <3> QED
      BY <1>1, <2>1, <2>2, <2>3, <3>1, LatestStays DEF publishTimes
  <2> QED
    BY <1>1, <2>1, <2>2, <2>3, WhoPublishes, PublishedIsLatest
<1>2. ASSUME UNCHANGED <<vars, catalogVars>>, NEW user, NEW slug
      PROVE  Advances(user, slug)
  BY <1>2
  DEF vars, catalogVars, publishTimes, Advances, Latest, Newest, History,
      Published
<1>3. XInv /\ RowsFinite /\ TimesOrdered
        /\ [CatalogNext]_<<vars, catalogVars>> =>
          [\A user \in Users, slug \in Slugs :
             LET shown == Latest(user, slug)
                 next == Latest(user, slug)'
             IN  \/ next = shown
                 \/ next # {} /\ next \cap Published = {}
                 \/ \E u \in shown : rows'[u] = Gone]_<<vars, catalogVars>>
  BY <1>1, <1>2 DEF Advances
<1>4. Spec => [](XInv /\ RowsFinite)
  <2>1. Init => RowsFinite
    <3>1. Init => Live = {}
      BY DEF Init, QuotaInit, Live, Unissued
    <3> QED
      BY <3>1, FS_EmptySet DEF RowsFinite
  <2> QED
    BY <2>1, ExclusiveInvariance, RowsStayFinite, PTL DEF Spec
<1>5. CatalogSpec => []TimesOrdered
  BY CatalogInvariance, InitTimes, StepTimes, PTL DEF CatalogSpec
<1> QED
  BY <1>3, <1>4, <1>5, ReadersOnlyWatch, PTL DEF CatalogSpec, LatestAdvances

=============================================================================
