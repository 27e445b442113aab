----------------------------- MODULE MCSessions ------------------------------
(* Two sessions of one account, two requests at a time, over an idle window *)
(* and an absolute lifetime.                                                *)
EXTENDS AuthenticationRefinement, TLC

CONSTANTS ann, r1, r2

MCIds == 1 .. 2

MCMaxIssued == "session" :> 2 @@ "access" :> 0 @@ "refresh" :> 0 @@ "pat" :> 0

=============================================================================
