-------------------------- MODULE MCTwoCredentials ---------------------------
(* One account and two credentials of its own: a browser session and a      *)
(* token, or two tokens.  Their requests interleave on the same upload.     *)
EXTENDS UploadFlow, TLC

CONSTANTS ann, web, cli, u1, u2, long, short

MCSize == (long :> 2) @@ (short :> 1)

MCAccount == (web :> ann) @@ (cli :> ann)

MCStorageLimit == ann :> 4

MCClaims == {<<long, 2>>, <<short, 1>>}

Symmetry == Permutations({u1, u2}) \cup Permutations({web, cli})

=============================================================================
