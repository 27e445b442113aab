------------------------------- MODULE Quota --------------------------------
(***************************************************************************)
(* The tables an upload is judged against, and the questions hub_api/quota *)
(* asks of them.                                                           *)
(*                                                                         *)
(*   models         hub_model.py      a namespace entry per (owner, slug)  *)
(*   model_versions model_version.py  one row per upload slot              *)
(*   quota_entries  quota_entry.py    the append-only ledger               *)
(*                                                                         *)
(* An operator below is ONE SQL statement evaluated over the committed     *)
(* tables at the moment it runs: PostgreSQL at READ COMMITTED gives each   *)
(* statement its own snapshot and a request several of them.  Sizes are in *)
(* chunks.                                                                 *)
(***************************************************************************)
EXTENDS VolumeStorage   \* check_free_space asks the volume, the rest the tables

LOCAL INSTANCE FiniteSetsExt

CONSTANTS
  Users, Slugs, Versions,
  StorageLimit,   \* StorageLimit[user]: users.storage_limit
  MaxArtifact,    \* max_artifact_bytes
  MaxModels,      \* max_models_per_user
  MaxVersions,    \* max_versions_per_model
  MaxDaily,       \* max_uploads_per_day
  FootprintCap,   \* footprint_cap_bytes
  VolumeBytes,    \* chunks the volume holds, less what its neighbour uses
  FreeFloor,      \* volume_free_floor_bytes
  TTL,            \* reservation_ttl_seconds, in ticks
  Day,            \* ticks in a day
  Horizon         \* BOUND: the clock stops here

ASSUME QuotaAssumption ==
  /\ StorageLimit \in [Users -> Nat]
  /\ {MaxArtifact, MaxModels, MaxVersions, MaxDaily} \subseteq Nat
  /\ {FootprintCap, VolumeBytes, FreeFloor, TTL, Day, Horizon} \subseteq Nat
  /\ TTL > 0

VARIABLES
  rows,    \* rows[u]: the model_versions row with id u
  models,  \* the (owner, slug) pairs that have a models row
  ledger,  \* ledger[user][u]: bytes charged to user for upload u, all entries
  now      \* utcnow()

quotaVars == <<rows, models, ledger, now>>

-----------------------------------------------------------------------------

\* States whose bytes are on disk (model_version.STORED), of those the code
\* ever sets: nothing in the repository writes REJECTED or DELETED.
STORED == {"uploaded", "verifying", "published"}

Row == [owner : Users, slug : Slugs, version : Versions,
        sha256 : Bodies, size : Nat \ {0}, key : Bodies \cup {None},
        state : {"reserved"} \cup STORED,
        created : Nat, expires : Nat]

\* An id no row has had yet, and one whose row was deleted.
Unissued == [state |-> "unissued"]

Gone == [state |-> "gone"]

QuotaTypeOK ==
  /\ rows \in [Uploads -> Row \cup {Unissued, Gone}]
  /\ models \subseteq Users \X Slugs
  /\ ledger \in [Users -> [Uploads -> Nat]]
  /\ now \in Nat

QuotaInit ==
  /\ rows = [u \in Uploads |-> Unissued]
  /\ models = {}
  /\ ledger = [user \in Users |-> [u \in Uploads |-> 0]]
  /\ now = 0

\* The ids that have a row.
Live == {u \in Uploads : rows[u].state \notin {"unissued", "gone"}}

OwnedBy(user) == {u \in Live : rows[u].owner = user}

Tick ==
  /\ now < Horizon
  /\ now' = now + 1
  /\ UNCHANGED <<rows, models, ledger>>

-----------------------------------------------------------------------------
(* quota/usage.py                                                          *)

\* A sum of sizes is the number of the chunks it counts, each a pair of an
\* upload and a place in it.
Chunks(u, n) == {u} \X (1..n)

\* The chunks the entries of one account charge it for.
StoredChunks(entries) == UNION {Chunks(u, entries[u]) : u \in Uploads}

\* stored_bytes, from the entries of one account as a SELECT saw them.
StoredBytes(entries) == Cardinality(StoredChunks(entries))

\* A reservation holds its allowance until it expires, janitor or not.
Pending(user) ==
  {u \in OwnedBy(user) : rows[u].state = "reserved" /\ rows[u].expires > now}

PendingChunks(user) == UNION {Chunks(u, rows[u].size) : u \in Pending(user)}

PendingBytes(user) == Cardinality(PendingChunks(user))

\* Slip: what is promised but not yet stored is not counted.
CanFitStored(limit, used, reserved, size) == used + size <= limit

\* Usage.can_fit: available_bytes is cut off at zero and a size is at least 1.
CanFit(limit, used, reserved, size) == used + reserved + size <= limit

-----------------------------------------------------------------------------
(* quota/limits.py and quota/footprint.py                                  *)

ModelCount(user) == Cardinality({m \in models : m[1] = user})

VersionsOf(user, slug) == {u \in OwnedBy(user) : rows[u].slug = slug}

\* A row swept within the day is not counted: the query counts rows.
DailyCount(user) ==
  Cardinality({u \in OwnedBy(user) : rows[u].created + Day >= now})

TotalStored ==
  MapThenSumSet(LAMBDA user : StoredBytes(ledger[user]), Users)

\* check_footprint: the ledger of stored bytes; reservations are not in it.
FitsFootprint(size) == TotalStored + size <= FootprintCap

\* check_free_space: what disk_usage reports now, transfers in flight included
\* only as far as they have been written.
KeepsFloor(size) == FreeBytes(VolumeBytes) >= FreeFloor + size

-----------------------------------------------------------------------------
(* uploads/intent.py, uploads/janitor.py                                   *)

\* Slip: a published version does not stand in the way of its name.
NameReserved(user, slug, version) ==
  \E u \in VersionsOf(user, slug) :
    rows[u].version = version /\ rows[u].state # "published"

NameTaken(user, slug, version) ==
  \E u \in VersionsOf(user, slug) : rows[u].version = version

ExpiredReservations ==
  {u \in Live : rows[u].state = "reserved" /\ rows[u].expires <= now}

=============================================================================
