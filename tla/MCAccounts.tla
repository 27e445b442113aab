----------------------------- MODULE MCAccounts ------------------------------
(* Two addresses, one of them spelled in two ways, that reduce to the same  *)
(* reserved handle, a third that is the last resort of two accounts, and    *)
(* two provider accounts: one whose user name is taken apart at a hyphen by *)
(* the limit, one without a usable name.  Two requests at a time.           *)
EXTENDS AccountsRefinement, TLC

CONSTANTS r1, r2

MCAddresses == {"Nir@a", "nir@a", "nir@b", "u-3@b"}

MCNormal == [e \in MCAddresses |-> IF e = "Nir@a" THEN "nir@a" ELSE e]

MCSpelling ==
  "Nir@a" :> <<"N", "i", "r", "@", "a">> @@ "nir@a" :> <<"n", "i", "r", "@", "a">>
  @@ "nir@b" :> <<"n", "i", "r", "@", "b">>
  @@ "u-3@b" :> <<"u", "-", "3", "@", "b">>
  @@ "git:1" :> <<"n", "o", ".", "-", "r">> @@ "orc:1" :> <<"!", "-">>

MCAlphanumerics == {"n", "i", "r", "o", "u", "3"}

\* Suffixes up to 2, and the counts of up to three accounts.
MCDecimal == [n \in 1..4 |-> ToString(n)]

MCCharacters ==
  MCAlphanumerics \cup {"N", "@", "a", "b", ".", "-", "!"}
  \cup {MCDecimal[n] : n \in 1..4}

MCLowerCase == [ch \in MCCharacters |-> IF ch = "N" THEN "n" ELSE ch]

MCReservedHandles == {<<"n", "i", "r">>}

MCFallback == <<"u">>

\* The first one's provider vouches for its address or does not, and its owner
\* may have changed it; the second one's has no address or the same one.
MCProfiles ==
  {<<"git:1", "nir@a", TRUE>>, <<"git:1", "nir@a", FALSE>>,
   <<"git:1", "nir@b", TRUE>>,
   <<"orc:1", None, FALSE>>, <<"orc:1", "Nir@a", TRUE>>}

MCReturnsWith == "orc:1" :> <<"orc:1", "Nir@a", TRUE>>

=============================================================================
