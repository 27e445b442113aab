------------------------------- MODULE Catalog -------------------------------
(***************************************************************************)
(* Browsing and downloading what has been published: catalog/queries.py,   *)
(* catalog/index.py and routes/models.py, over the upload flow.            *)
(*                                                                         *)
(* Readers are anonymous and hold no lock.  Every query is one SELECT that *)
(* sees committed rows; what it returned is used later: an index document  *)
(* is cached by the client and loaded offline, a download counts and       *)
(* redirects by the copy of the row it has read.                           *)
(*                                                                         *)
(* Nothing in the repository changes the state or the visibility of a      *)
(* models row, so _published filters on the version's state alone.         *)
(***************************************************************************)
EXTENDS UploadFlow

LOCAL INSTANCE FiniteSetsExt

CONSTANTS
  Readers,       \* downloads that can be in progress at one time
  PageLimit,     \* the limit of the index document's query
  MaxDownloads   \* BOUND: downloads, in progress or done

ASSUME CatalogAssumption ==
  /\ PageLimit \in Nat \ {0}
  /\ MaxDownloads \in Nat

VARIABLES
  publishedAt,  \* publishedAt[u]: published_at, 0 while it is null
  lastPublish,  \* what utcnow() said last when a version was published: a count
  downloads,    \* downloads[u]: download_count
  reading,      \* reading[r]: the download reader r is in the middle of
  served,       \* history: served[u]: downloads of u that went through, their
                \* redirect sent or lost with the process after the commit
  known         \* history: known[u]: the entry of u a client has cached

readerVars == <<downloads, reading, served, known>>

publishTimes == <<publishedAt, lastPublish>>

catalogVars == <<publishTimes, readerVars>>

-----------------------------------------------------------------------------
(* The queries.                                                            *)

\* _published.
Published == {u \in Uploads : rows[u].state = "published"}

\* ORDER BY published_at DESC LIMIT n, over the rows in S.
Newest(n, S) ==
  {u \in S : Cardinality({v \in S : publishedAt[v] > publishedAt[u]}) < n}

\* published, with the limit the index asks for.
Page == Newest(PageLimit, Published)

\* The published versions of one model.
History(user, slug) ==
  {u \in Published : rows[u].owner = user /\ rows[u].slug = slug}

\* latest_version: one, or none.
Latest(user, slug) == Newest(1, History(user, slug))

\* one_version: the name is unique, so there is at most one.
OneVersion(user, slug, version) ==
  {u \in History(user, slug) : rows[u].version = version}

\* What entry_for says of a version: its name, where its bytes are, how many.
EntryFor(u) ==
  [owner |-> rows[u].owner, slug |-> rows[u].slug,
   version |-> rows[u].version, url |-> rows[u].key, size |-> rows[u].size]

-----------------------------------------------------------------------------

Entry ==
  [owner : Users, slug : Slugs, version : Versions, url : Bodies,
   size : Nat \ {0}]

Download == [upload : Uploads, count : Nat, url : Bodies]

CatalogTypeOK ==
  /\ publishedAt \in [Uploads -> Nat]
  /\ lastPublish \in Nat
  /\ downloads \in [Uploads -> Nat]
  /\ reading \in [Readers -> Download \cup {None}]
  /\ served \in [Uploads -> Nat]
  /\ known \in [Uploads -> Entry \cup {None}]

CatalogInit ==
  /\ Init
  /\ publishedAt = [u \in Uploads |-> 0]
  /\ lastPublish = 0
  /\ downloads = [u \in Uploads |-> 0]
  /\ reading = [r \in Readers |-> None]
  /\ served = [u \in Uploads |-> 0]
  /\ known = [u \in Uploads |-> None]

\* publish stamps published_at, later than any it has stamped before.
Stamp(u) ==
  IF RequireVerification \/ rows[u] = Gone THEN UNCHANGED publishTimes
  ELSE /\ lastPublish' = lastPublish + 1
       /\ publishedAt' = [publishedAt EXCEPT ![u] = lastPublish']

Publish(c) ==
  /\ CommitWrite(c)
  /\ Stamp(req[c].upload)
  /\ UNCHANGED readerVars

\* GET /v1/index.json, cached by its reader.
FetchIndex ==
  /\ Page # {}
  /\ known' = [u \in Uploads |-> IF u \in Page THEN EntryFor(u) ELSE known[u]]
  /\ UNCHANGED <<vars, publishTimes, downloads, reading, served>>

\* Downloads in progress or done.
Begun ==
  Cardinality({r \in Readers : reading[r] # None})
  + MapThenSumSet(LAMBDA u : served[u], Uploads)

\* GET .../download: the SELECT.
DownloadSelect(r) ==
  \E user \in Users, slug \in Slugs, version \in Versions :
    \E u \in OneVersion(user, slug, version) :
      /\ reading[r] = None
      /\ Begun < MaxDownloads
      /\ reading' = [reading EXCEPT ![r] =
           [upload |-> u, count |-> downloads[u], url |-> rows[u].key]]
      /\ UNCHANGED <<vars, publishTimes, downloads, served, known>>

\* Slip: the counter is flushed and never committed.
DownloadFlushed(r) ==
  LET u == reading[r].upload
  IN  /\ reading[r] # None
      /\ served' = [served EXCEPT ![u] = @ + 1]
      /\ reading' = [reading EXCEPT ![r] = None]
      /\ UNCHANGED <<vars, publishTimes, downloads, known>>

\* The UPDATE and the commit.  A row that is gone by then fails the request
\* (StaleDataError).  Nothing is written after the commit: whether the redirect
\* still reaches the reader is not told apart.
DownloadWrite(r) ==
  LET u == reading[r].upload
  IN  /\ reading[r] # None
      /\ IF rows[u] = Gone
         THEN UNCHANGED <<downloads, served>>
         ELSE /\ downloads' = [downloads EXCEPT ![u] = reading[r].count + 1]
              /\ served' = [served EXCEPT ![u] = @ + 1]
      /\ reading' = [reading EXCEPT ![r] = None]
      /\ UNCHANGED <<vars, publishTimes, known>>

-----------------------------------------------------------------------------

\* The steps of the upload flow that publish nothing.
OtherFlow ==
  /\ \/ \E c \in Callers : Reserve(c) \/ Put(c) \/ CommitSelect(c) \/ Abort(c)
     \/ Sweep
     \/ ClockTick
  /\ UNCHANGED catalogVars

CatalogNext ==
  \/ OtherFlow
  \/ \E c \in Callers : Publish(c)
  \/ FetchIndex
  \/ \E r \in Readers : DownloadSelect(r) \/ DownloadWrite(r)

CatalogSpec == CatalogInit /\ [][CatalogNext]_<<vars, catalogVars>>

-----------------------------------------------------------------------------
(* Properties.                                                             *)

(* What a client was told of a version stays good: the URL in a cached      *)
(* index or in a redirect leads to a whole artifact of the size the entry   *)
(* says, whatever happens to the version later (index.py; content-addressed *)
(* and public, models.py).                                                  *)
UrlsResolve ==
  /\ \A u \in Uploads : known[u] # None =>
       /\ known[u].url \in Bodies
       /\ disk[Final(known[u].url)] = Image(known[u].url)
       /\ known[u].size = Size[known[u].url]
  /\ \A r \in Readers : reading[r] # None =>
       /\ reading[r].url \in Bodies
       /\ disk[Final(reading[r].url)] = Image(reading[r].url)

(* A version name a client has pinned leads to the same bytes for good      *)
(* ("what makes a pinned checksum worth anything", model_version.py), as    *)
(* long as no sweep has taken the row that held the name.                   *)
PinsHold ==
  \A u, v \in Uploads :
    /\ known[u] # None
    /\ rows[u] # Gone
    /\ Stored(v)
    /\ rows[v].owner = known[u].owner
    /\ rows[v].slug = known[u].slug
    /\ rows[v].version = known[u].version
    => rows[v].key = known[u].url

(* What a model's page shows as latest only changes to a version published  *)
(* just now, unless a sweep took the version that was shown: an old version *)
(* is never moved back to the front (published_at is written once).         *)
LatestAdvances ==
  [][\A user \in Users, slug \in Slugs :
       LET shown == Latest(user, slug)
           next == Latest(user, slug)'
       IN  \/ next = shown
           \/ next # {} /\ next \cap Published = {}
           \/ \E u \in shown : rows'[u] = Gone]_<<vars, catalogVars>>

(* Overlapping downloads may lose counts, and nothing else: a version that  *)
(* was downloaded never counts none, nor more downloads than went through   *)
(* (models.py, download).                                                   *)
CountsWithinServed ==
  \A u \in Uploads :
    /\ downloads[u] <= served[u]
    /\ served[u] > 0 => downloads[u] > 0

=============================================================================
