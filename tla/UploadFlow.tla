----------------------------- MODULE UploadFlow ------------------------------
(***************************************************************************)
(* The two-phase upload of hub_api/routes/uploads.py and hub_api/uploads,  *)
(* and the janitor's sweep, over the tables (Quota) and the volume         *)
(* (VolumeStorage).                                                        *)
(*                                                                         *)
(* A caller is one CREDENTIAL.  Authenticating a request updates the       *)
(* credential's row (deps.current_user), and PostgreSQL keeps that row     *)
(* locked until the request's transaction ends, so two requests on one     *)
(* credential run one after the other.  Two credentials of one account     *)
(* run concurrently: Account tells which account a credential acts for.    *)
(*                                                                         *)
(* A handler is cut where it awaits: between the steps of a request any    *)
(* other caller, the sweep or the clock may run.  A request refused before *)
(* it changes anything is an action that is not enabled.  A transaction's  *)
(* flush and its commit are one step: a row flushed but not committed is   *)
(* locked against other writers and invisible to readers.                  *)
(***************************************************************************)
EXTENDS Quota

CONSTANTS
  Account,              \* Account[c]: the user credential c belongs to
  Publishers,           \* users _check_publisher lets through
  RequireVerification,  \* config.require_verification
  Claims                \* the (sha256, size) pairs callers declare

ASSUME FlowAssumption ==
  /\ Account \in [Callers -> Users]
  /\ Publishers \subseteq Users
  /\ RequireVerification \in BOOLEAN
  /\ Claims \subseteq Bodies \X (Nat \ {0})

VARIABLES
  req,    \* req[c]: the request credential c is in the middle of
  sweep   \* the janitor's run: the rows it selected, those not yet discarded

vars == <<disk, handle, rows, models, ledger, now, req, sweep>>

tables == <<rows, models, ledger>>

-----------------------------------------------------------------------------
(* The requests.  upload and row are what the handler's SELECT returned:    *)
(* the session's copy of the row is not refreshed after it.                 *)

Idle == [pc |-> "idle"]

ReserveRequests ==
  [pc : {"checking"}, slug : Slugs, version : Versions, sha256 : Bodies,
   size : Nat \ {0}, entries : [Uploads -> Nat]]

InsertRequests ==
  [pc : {"inserting"}, slug : Slugs, version : Versions, sha256 : Bodies,
   size : Nat \ {0}, newModel : BOOLEAN]

PutSteps == {"opening", "streaming", "overrun", "mismatch", "refused",
             "promoting", "dropping", "replacing", "charging"}

PutRequests == [pc : PutSteps, upload : Uploads, row : Row, body : Bodies]

CommitRequests == [pc : {"publishing"}, upload : Uploads]

Requests ==
  {Idle} \cup ReserveRequests \cup InsertRequests \cup PutRequests
         \cup CommitRequests

NoSweep == [doomed |-> {}, left |-> {}]

Sweeps == [doomed : SUBSET Uploads, left : SUBSET Uploads]

TypeOK ==
  /\ StorageTypeOK
  /\ QuotaTypeOK
  /\ req \in [Callers -> Requests]
  /\ sweep \in Sweeps

Init ==
  /\ StorageInit
  /\ QuotaInit
  /\ req = [c \in Callers |-> Idle]
  /\ sweep = NoSweep

Goto(c, pc) == req' = [req EXCEPT ![c].pc = pc]

Finish(c) == req' = [req EXCEPT ![c] = Idle]

At(c, pc) == req[c].pc = pc

-----------------------------------------------------------------------------
(* POST /v1/uploads: reserve.                                              *)

\* The checks before the allowance, and the allowance's first statement.
ReserveBegin(c) ==
  \E slug \in Slugs, version \in Versions, claim \in Claims :
    LET user == Account[c]
    IN  /\ At(c, "idle")
        /\ user \in Publishers
        /\ claim[2] <= MaxArtifact
        /\ DailyCount(user) < MaxDaily
        /\ req' = [req EXCEPT ![c] =
             [pc |-> "checking", slug |-> slug, version |-> version,
              sha256 |-> claim[1], size |-> claim[2],
              entries |-> ledger[user]]]
        /\ UNCHANGED <<storageVars, quotaVars, sweep>>

\* check_model_count, for a model that is new, and check_version_count.
HasRoom(user, slug) ==
  /\ <<user, slug>> \notin models => ModelCount(user) < MaxModels
  /\ Cardinality(VersionsOf(user, slug)) < MaxVersions

\* What reserve still refuses, given the entries it has already read.
Admits(user, r) ==
  /\ CanFit(StorageLimit[user], StoredBytes(r.entries), PendingBytes(user),
            r.size)
  /\ FitsFootprint(r.size)
  /\ KeepsFloor(r.size)
  /\ HasRoom(user, r.slug)
  /\ ~ NameTaken(user, r.slug, r.version)

\* The allowance's second statement and every check after it.
ReserveCheck(c) ==
  LET user == Account[c]
      r == req[c]
  IN  /\ At(c, "checking")
      /\ IF Admits(user, r)
         THEN req' = [req EXCEPT ![c] =
                [pc |-> "inserting", slug |-> r.slug, version |-> r.version,
                 sha256 |-> r.sha256, size |-> r.size,
                 newModel |-> <<user, r.slug>> \notin models]]
         ELSE Finish(c)
      /\ UNCHANGED <<storageVars, quotaVars, sweep>>

\* The row _open_slot inserts.
Reserved(user, r) ==
  [owner |-> user, slug |-> r.slug, version |-> r.version,
   sha256 |-> r.sha256, size |-> r.size, key |-> None,
   state |-> "reserved", created |-> now, expires |-> now + TTL]

\* Slip: the tables are created without their unique constraints.
Unconstrained(user, r) == FALSE

\* A unique constraint stops the INSERT of the version or of its model.
Collides(user, r) ==
  \/ NameTaken(user, r.slug, r.version)
  \/ r.newModel /\ <<user, r.slug>> \in models

\* INSERT and commit; a collision raises IntegrityError and changes nothing.
ReserveInsert(c) ==
  LET user == Account[c]
      r == req[c]
  IN  /\ At(c, "inserting")
      /\ \/ /\ ~ Collides(user, r)
            /\ \E u \in Uploads :
                 /\ rows[u] = Unissued
                 /\ rows' = [rows EXCEPT ![u] = Reserved(user, r)]
            /\ models' = models \cup {<<user, r.slug>>}
         \/ /\ Collides(user, r)
            /\ UNCHANGED <<rows, models>>
      /\ Finish(c)
      /\ UNCHANGED <<storageVars, ledger, now, sweep>>

-----------------------------------------------------------------------------
(* PUT /v1/uploads/{upload_id}/content: receive.                           *)

\* _reserved_slot's SELECT: the caller's own row, whatever its state.
PutSelect(c) ==
  \E u \in OwnedBy(Account[c]), body \in Bodies :
    /\ At(c, "idle")
    /\ req' = [req EXCEPT ![c] =
         [pc |-> "opening", upload |-> u, row |-> rows[u], body |-> body]]
    /\ UNCHANGED <<storageVars, quotaVars, sweep>>

\* Slip: a row past "reserved" may be sent bytes again.
Unexpired(row) == row.expires > now

\* _reserved_slot judges the copy, at the clock it reads after the SELECT.
LiveReservation(row) == row.state = "reserved" /\ row.expires > now

\* The check and the open run without an await between them.
PutOpen(c) ==
  /\ At(c, "opening")
  /\ IF LiveReservation(req[c].row)
     THEN OpenStaging(c, req[c].upload) /\ Goto(c, "streaming")
     ELSE UNCHANGED storageVars /\ Finish(c)
  /\ UNCHANGED <<quotaVars, sweep>>

\* _check_cap: the chunk about to be written keeps to the reserved size.
WithinCap(c) == handle[c].at < req[c].row.size

\* Slip: the last chunk is still in a buffer when the file is promoted.
MoreThanTheLast(c) == handle[c].at + 1 < Size[req[c].body]

MoreToCome(c) == handle[c].at < Size[req[c].body]

PutChunk(c) ==
  /\ At(c, "streaming")
  /\ MoreToCome(c)
  /\ WithinCap(c)
  /\ WriteChunk(c, req[c].body)
  /\ UNCHANGED <<quotaVars, req, sweep>>

\* The cap stops the stream before the chunk is written; stage then discards.
PutOverrun(c) ==
  /\ At(c, "streaming")
  /\ MoreToCome(c)
  /\ ~ WithinCap(c)
  /\ CloseHandle(c)
  /\ Goto(c, "overrun")
  /\ UNCHANGED <<quotaVars, sweep>>

\* _check_measured compares what was received with what was declared.
Measured(r) == Size[r.body] = r.row.size /\ r.body = r.row.sha256

PutMeasure(c) ==
  /\ At(c, "streaming")
  /\ ~ MoreToCome(c)
  /\ CloseHandle(c)
  /\ Goto(c, IF Measured(req[c]) THEN "promoting" ELSE "mismatch")
  /\ UNCHANGED <<quotaVars, sweep>>

\* storage.discard after a refusal.  An overrun's request ends here; after a
\* mismatch _abandon also deletes the row, in the transaction still open.
PutDiscard(c) ==
  /\ req[c].pc \in {"overrun", "mismatch"}
  /\ Discard(req[c].upload)
  /\ IF At(c, "mismatch") THEN Goto(c, "refused") ELSE Finish(c)
  /\ UNCHANGED <<quotaVars, sweep>>

\* Slip: the row is marked failed instead of deleted.
MarkedFailed(u) == [rows EXCEPT ![u].state = "failed"]

\* The rows after the refusal's exception has reached db_session, which rolls
\* _abandon's DELETE back with everything else the transaction did.
AfterRefusal(u) == rows

PutUnwind(c) ==
  /\ At(c, "refused")
  /\ rows' = AfterRefusal(req[c].upload)
  /\ Finish(c)
  /\ UNCHANGED <<storageVars, models, ledger, now, sweep>>

\* promote's existence check decides between two later filesystem calls.
PutPromote(c) ==
  /\ At(c, "promoting")
  /\ Goto(c, IF Exists(Final(req[c].body)) THEN "dropping" ELSE "replacing")
  /\ UNCHANGED <<storageVars, quotaVars, sweep>>

PutDrop(c) ==
  /\ At(c, "dropping")
  /\ Discard(req[c].upload)
  /\ Goto(c, "charging")
  /\ UNCHANGED <<quotaVars, sweep>>

\* Slip: the missing staging file is taken for an artifact already promoted.
PutReplaceLenient(c) ==
  /\ At(c, "replacing")
  /\ IF Exists(Staging(req[c].upload))
     THEN Replace(req[c].upload, req[c].body)
     ELSE UNCHANGED storageVars
  /\ Goto(c, "charging")
  /\ UNCHANGED <<quotaVars, sweep>>

\* os.replace raises FileNotFoundError when the staging file is gone.
PutReplace(c) ==
  /\ At(c, "replacing")
  /\ IF Exists(Staging(req[c].upload))
     THEN Replace(req[c].upload, req[c].body) /\ Goto(c, "charging")
     ELSE UNCHANGED storageVars /\ Finish(c)
  /\ UNCHANGED <<quotaVars, sweep>>

\* Slip: the entry is never added to the session.
NoCharge(user, r) == ledger

\* The ledger after _charge.
Charge(user, r) == [ledger EXCEPT ![user][r.upload] = @ + Size[r.body]]

\* UPDATE of key and state, INSERT of the entry, commit.  An UPDATE by primary
\* key that finds no row raises StaleDataError and the request fails.
PutCharge(c) ==
  LET r == req[c]
  IN  /\ At(c, "charging")
      /\ IF rows[r.upload] = Gone
         THEN UNCHANGED tables
         ELSE /\ rows' = [rows EXCEPT ![r.upload].key = r.body,
                                      ![r.upload].state = "uploaded"]
              /\ ledger' = Charge(Account[c], r)
              /\ UNCHANGED models
      /\ Finish(c)
      /\ UNCHANGED <<storageVars, now, sweep>>

-----------------------------------------------------------------------------
(* POST /v1/uploads/{upload_id}/commit: publish.                           *)

\* Slip: any version of the caller's can be committed.
CommitAny(c) ==
  \E u \in OwnedBy(Account[c]) :
    /\ At(c, "idle")
    /\ req' = [req EXCEPT ![c] = [pc |-> "publishing", upload |-> u]]
    /\ UNCHANGED <<storageVars, quotaVars, sweep>>

CommitSelect(c) ==
  \E u \in OwnedBy(Account[c]) :
    /\ At(c, "idle")
    /\ rows[u].state = "uploaded"
    /\ req' = [req EXCEPT ![c] = [pc |-> "publishing", upload |-> u]]
    /\ UNCHANGED <<storageVars, quotaVars, sweep>>

CommittedState == IF RequireVerification THEN "verifying" ELSE "published"

CommitWrite(c) ==
  LET u == req[c].upload
  IN  /\ At(c, "publishing")
      /\ rows' = IF rows[u] = Gone THEN rows
                 ELSE [rows EXCEPT ![u].state = CommittedState]
      /\ Finish(c)
      /\ UNCHANGED <<storageVars, models, ledger, now, sweep>>

\* Slip: a request that fails after its promotion removes the artifact.
AbortCleansUp(c) ==
  /\ req[c].pc \notin {"idle", "refused"}
  /\ IF At(c, "charging")
     THEN /\ disk' = [disk EXCEPT ![Final(req[c].body)] = None]
          /\ UNCHANGED handle
     ELSE CloseHandle(c)
  /\ Finish(c)
  /\ UNCHANGED <<quotaVars, sweep>>

\* A disconnect, an exception or a crash of the process: the transaction is
\* rolled back and the handle closed, the volume keeps what was done to it.
\* (At "refused" the request is already ending that way: PutUnwind.)
Abort(c) ==
  /\ req[c].pc \notin {"idle", "refused"}
  /\ CloseHandle(c)
  /\ Finish(c)
  /\ UNCHANGED <<quotaVars, sweep>>

-----------------------------------------------------------------------------
(* janitor.sweep.  Its caller is a scheduled job outside the repository     *)
(* that commits when sweep returns.                                        *)

SweepSelect ==
  /\ sweep = NoSweep
  /\ ExpiredReservations # {}
  /\ sweep' = [doomed |-> ExpiredReservations, left |-> ExpiredReservations]
  /\ UNCHANGED <<storageVars, quotaVars, req>>

SweepDiscard(u) ==
  /\ u \in sweep.left
  /\ Discard(u)
  /\ sweep' = [sweep EXCEPT !.left = @ \ {u}]
  /\ UNCHANGED <<quotaVars, req>>

\* The DELETE flushed at the end names the rows by primary key alone.
SweepDelete ==
  /\ sweep.doomed # {}
  /\ sweep.left = {}
  /\ rows' = [u \in Uploads |-> IF u \in sweep.doomed THEN Gone ELSE rows[u]]
  /\ sweep' = NoSweep
  /\ UNCHANGED <<storageVars, models, ledger, now, req>>

SweepAbort ==
  /\ sweep # NoSweep
  /\ sweep' = NoSweep
  /\ UNCHANGED <<storageVars, quotaVars, req>>

ClockTick ==
  /\ Tick
  /\ UNCHANGED <<storageVars, req, sweep>>

-----------------------------------------------------------------------------

Reserve(c) == ReserveBegin(c) \/ ReserveCheck(c) \/ ReserveInsert(c)

Put(c) ==
  \/ PutSelect(c) \/ PutOpen(c) \/ PutChunk(c) \/ PutOverrun(c)
  \/ PutMeasure(c) \/ PutDiscard(c) \/ PutUnwind(c) \/ PutPromote(c)
  \/ PutDrop(c) \/ PutReplace(c) \/ PutCharge(c)

Commit(c) == CommitSelect(c) \/ CommitWrite(c)

Sweep ==
  SweepSelect \/ (\E u \in Uploads : SweepDiscard(u)) \/ SweepDelete
  \/ SweepAbort

Next ==
  \/ \E c \in Callers : Reserve(c) \/ Put(c) \/ Commit(c) \/ Abort(c)
  \/ Sweep
  \/ ClockTick

Spec == Init /\ [][Next]_vars

-----------------------------------------------------------------------------
(* Properties that hold however many credentials an account has.           *)

Stored(u) == rows[u].state \in STORED

\* A version past "reserved" names an artifact by its own digest and that
\* artifact is on the volume: promote runs before the row changes, and nothing
\* ever takes an artifact away.  (The sweep, a second transfer of the same
\* upload and a crash may all come between promote and the commit.)
StoredHasBytes ==
  \A u \in Uploads : Stored(u) =>
    rows[u].key = rows[u].sha256 /\ Exists(Final(rows[u].key))

\* A stored version has been charged to its owner in full: _charge and the
\* state change reach the database together or not at all.
StoredIsCharged ==
  \A u \in Uploads : Stored(u) =>
    ledger[rows[u].owner][u] >= rows[u].size

\* A version name belongs to one row (model_version.py, the unique constraint):
\* two requests may both find the name free, and only one inserts.
NamesUnique ==
  \A u, v \in Live :
    /\ rows[u].owner = rows[v].owner
    /\ rows[u].slug = rows[v].slug
    /\ rows[u].version = rows[v].version
    => u = v

\* An artifact that exists is never taken away: a pinned checksum that resolved
\* once resolves for good, whatever transfers of the same bytes come and go.
ArtifactsStay ==
  [][\A b \in Bodies : Exists(Final(b)) => Exists(Final(b))']_vars

-----------------------------------------------------------------------------
(* Properties of accounts that work with one credential at a time.         *)

\* A version is charged once: never for more than its size, whatever is
\* retried after a crash (receive charges in the transaction that leaves
\* "reserved", so a retry finds the row either uncharged or past it).
ChargedOnce ==
  \A u \in Uploads : Stored(u) =>
    ledger[rows[u].owner][u] = rows[u].size

\* What an account has stored plus what it has been promised stays within its
\* allowance (usage.py, can_fit), although the promise ends by the clock while
\* the transfer it was made for may still be running.
AllowanceKept ==
  \A user \in Users :
    StoredBytes(ledger[user]) + PendingBytes(user) <= StorageLimit[user]

\* What is reachable under a final name is a whole artifact, the one the name
\* is the digest of (volume.py: "a partially written artifact is never
\* reachable under its final name").
ArtifactsComplete ==
  \A b \in Bodies : disk[Final(b)] \in {None, Image(b)}

\* Every staged file belongs to a row that is still reserved, so the sweep
\* will find it: it looks for staged bytes only where a reservation expired.
NothingStranded ==
  \A u \in Uploads : Exists(Staging(u)) => rows[u].state = "reserved"

\* The order in which a version goes through its states.
Rank(state) ==
  CASE state = "unissued" -> 0 [] state = "reserved" -> 1
    [] state = "uploaded" -> 2 [] state \in {"verifying", "published"} -> 3
    [] state = "gone" -> 4

\* A version only moves forward: what was published is never "uploaded" again,
\* a row that went away does not come back.
LifecycleForward ==
  [][\A u \in Uploads :
       rows'[u] # rows[u] => Rank(rows'[u].state) > Rank(rows[u].state)]_vars

-----------------------------------------------------------------------------
(* What the repository says of the program and the program does not do.    *)

\* footprint.py and config.py: the share of the volume this service may ever
\* claim, the ceiling on stored artifact bytes.  check_footprint adds a request
\* to the ledger and not to the reservations it has already granted.
FootprintKept ==
  Cardinality({cell \in WrittenCells : cell[1][1] = "artifacts"})
    <= FootprintCap

\* receive.py, _abandon: deleting the row frees the version name.
RefusalFreesName ==
  [][\A c \in Callers :
       At(c, "refused") /\ req'[c].pc = "idle"
         => rows'[req[c].upload] = Gone]_vars

\* janitor.py: sweep deletes expired RESERVATIONS.
SweepSparesReceived ==
  [][\A u \in Uploads : Stored(u) => rows'[u] # Gone]_vars

=============================================================================
