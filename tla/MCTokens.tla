------------------------------ MODULE MCTokens -------------------------------
(* A grant that is exchanged once, or two grants of one account or of two,  *)
(* beside a personal access token; two requests at a time, which may both   *)
(* have presented the same refresh token.                                   *)
EXTENDS AuthenticationRefinement, TLC

CONSTANTS ann, bob, r1, r2

MCIds == 1 .. 5

MCMaxIssued == "session" :> 0 @@ "access" :> 2 @@ "refresh" :> 2 @@ "pat" :> 1

\* A grant, and the pairs of two exchanges.
MCSixIds == 1 .. 6

MCThreePairs ==
  "session" :> 0 @@ "access" :> 3 @@ "refresh" :> 3 @@ "pat" :> 0

Symmetry == Permutations({ann, bob}) \cup Permutations({r1, r2})

=============================================================================
