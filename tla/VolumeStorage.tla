---------------------------- MODULE VolumeStorage ----------------------------
(***************************************************************************)
(* hub_api/storage: artifacts on the host's attached volume.               *)
(*                                                                         *)
(* Two directories matter: tmp/<upload id>, where a transfer is staged,    *)
(* and artifacts/<object key>, where a received artifact lives.  A file    *)
(* is a sequence of chunk cells; a cell holds the body the chunk came from *)
(* or a hole (a file that was truncated under an open handle reads as      *)
(* zeros below that handle's offset).  The digest of a body is modelled by *)
(* the body itself: two bodies have the same digest only if they are the   *)
(* same bytes, so object_key(sha256) is the body too.                      *)
(*                                                                         *)
(* An open handle is a file, not a path: it follows the file through a     *)
(* rename and outlives an unlink.  A handle is therefore recorded by where *)
(* its file is NOW, and a rename or an unlink moves every handle on it.    *)
(***************************************************************************)
EXTENDS Naturals, FiniteSets

CONSTANTS
  Uploads,   \* upload ids (model_versions.id), the names of staging files
  Bodies,    \* distinct byte strings a client may send; each is its own digest
  Size,      \* Size[b]: chunks in body b
  MaxBytes,  \* BOUND: cells in a file; no body is longer
  Callers,   \* the processes that may hold a file open
  None,      \* no file at a path
  Hole       \* a cell no one wrote

ASSUME StorageAssumption ==
  /\ MaxBytes \in Nat \ {0}
  /\ Size \in [Bodies -> 1..MaxBytes]
  /\ Hole \notin Bodies
  /\ None \notin [1..MaxBytes -> Bodies \cup {Hole}]
  /\ None \notin Bodies

VARIABLES
  disk,      \* disk[p]: contents of the file at path p, or None
  handle     \* handle[c]: where the file caller c writes is now, and its offset

storageVars == <<disk, handle>>

-----------------------------------------------------------------------------

Staging(u) == <<"tmp", u>>

Final(key) == <<"artifacts", key>>

Paths == ({"tmp"} \X Uploads) \cup ({"artifacts"} \X Bodies)

Contents == [1..MaxBytes -> Bodies \cup {Hole}]

\* An empty file, as open("wb") leaves it.
Blank == [i \in 1..MaxBytes |-> Hole]

\* The file that holds all of body b and nothing else.
Image(b) == [i \in 1..MaxBytes |-> IF i <= Size[b] THEN b ELSE Hole]

Exists(p) == disk[p] # None

\* Where a handle is when the caller has none, and when its file was unlinked.
Nowhere == <<"closed">>

Unlinked == <<"unlinked">>

Closed == [path |-> Nowhere, at |-> 0]

Handles == [path : Paths \cup {Nowhere, Unlinked}, at : 0..MaxBytes]

StorageTypeOK ==
  /\ disk \in [Paths -> Contents \cup {None}]
  /\ handle \in [Callers -> Handles]

StorageInit ==
  /\ disk = [p \in Paths |-> None]
  /\ handle = [c \in Callers |-> Closed]

-----------------------------------------------------------------------------
(* What the operations do to the handles other callers hold.               *)

\* A handle on the file at p follows it to q.
Follow(h, p, q) == IF h.path = p THEN [h EXCEPT !.path = q] ELSE h

-----------------------------------------------------------------------------
(* The operations.  Each is one call into the filesystem: the code awaits a *)
(* worker thread between any two of them.                                   *)

\* path.open("wb"): creates the staging file or truncates the one there.
OpenStaging(c, u) ==
  /\ disk' = [disk EXCEPT ![Staging(u)] = Blank]
  /\ handle' = [handle EXCEPT ![c] = [path |-> Staging(u), at |-> 0]]

\* handle.write(chunk): the next chunk of body b, at the handle's own offset,
\* wherever the file is by now.
WriteChunk(c, b) ==
  LET p == handle[c].path
      n == handle[c].at + 1
  IN  /\ disk' = IF p \in Paths
                 THEN [disk EXCEPT ![p] = [@ EXCEPT ![n] = b]]
                 ELSE disk
      /\ handle' = [handle EXCEPT ![c].at = n]

\* Leaving the with block of _write, normally or by an exception.
CloseHandle(c) ==
  /\ handle' = [handle EXCEPT ![c] = Closed]
  /\ UNCHANGED disk

\* Slip: the staging file is left where it is.
KeepStaged(u) == UNCHANGED <<disk, handle>>

\* discard: unlink(missing_ok=True) of the staging file.
Discard(u) ==
  /\ disk' = [disk EXCEPT ![Staging(u)] = None]
  /\ handle' = [c \in Callers |-> Follow(handle[c], Staging(u), Unlinked)]

\* os.replace(source, final): whatever is staged takes the final name, and a
\* file that had that name is unlinked.
Replace(u, key) ==
  /\ Exists(Staging(u))
  /\ disk' = [disk EXCEPT ![Final(key)] = disk[Staging(u)],
                          ![Staging(u)] = None]
  /\ handle' = [c \in Callers |->
                  Follow(Follow(handle[c], Final(key), Unlinked),
                         Staging(u), Final(key))]

\* Cells of the volume that hold data, staged or final: what disk_usage sees.
\* Bytes of unlinked files that are still open are not counted.
WrittenCells ==
  {cell \in {p \in Paths : Exists(p)} \X (1..MaxBytes) :
     disk[cell[1]][cell[2]] # Hole}

FreeBytes(volume) == volume - Cardinality(WrittenCells)

=============================================================================
