---------------------------- MODULE MCOneAccount -----------------------------
(* One account with one credential and two upload slots, against the sweep  *)
(* and the clock: an allowance that two long artifacts do not fit in, and   *)
(* transfers that send more or less than was claimed.                       *)
EXTENDS UploadFlow, TLC

CONSTANTS ann, u1, u2, long, short

MCSize == (long :> 2) @@ (short :> 1)

MCAccount == ann :> ann

MCStorageLimit == ann :> 3

\* A claim says <<digest, size>>; any body may follow it.
MCClaims == {<<long, 2>>, <<short, 1>>}

UploadSymmetry == Permutations({u1, u2})

=============================================================================
