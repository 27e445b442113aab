------------------------------- MODULE Handles -------------------------------
(***************************************************************************)
(* Choosing a handle for a new account: auth/handles.py.                   *)
(*                                                                         *)
(* A name is a sequence of characters.  Of a character only three things   *)
(* matter: what it is in lower case, whether a handle may contain it, and  *)
(* whether it is the "@" an address is split at.                           *)
(***************************************************************************)
EXTENDS Naturals, Sequences, FiniteSets

CONSTANTS
  Characters,      \* what names are written in
  Alphanumerics,   \* lower-case letters and digits
  LowerCase,       \* LowerCase[ch]: the character in lower case
  Decimal,         \* Decimal[n]: number n in digits, taken as one character
  StemLimit,       \* _STEM_LIMIT
  MaxSuffix,       \* the last numeric suffix that is tried
  ReservedHandles, \* RESERVED_HANDLES
  Fallback         \* _FALLBACK

\* No reserved handle contains a hyphen; "user" is none of them.
ASSUME HandlesAssumption ==
  /\ Alphanumerics \subseteq Characters
  /\ "-" \in Characters \ Alphanumerics
  /\ LowerCase \in [Characters -> Characters]
  /\ Decimal \in [DOMAIN Decimal -> Characters \ {"-"}]
  /\ StemLimit \in Nat \ {0}
  /\ MaxSuffix \in Nat \ {0}
  /\ 2..MaxSuffix \subseteq DOMAIN Decimal
  /\ ReservedHandles \subseteq Seq(Characters \ {"-"})
  /\ Fallback \in Seq(Alphanumerics)
  /\ Len(Fallback) \in 1..StemLimit

-----------------------------------------------------------------------------
(* A stem: _clean and stem_from.                                           *)

\* The part of a name before its first "@", in lower case.
LocalPart(raw) ==
  LET ats == {i \in DOMAIN raw : raw[i] = "@"}
      end == IF ats = {} THEN Len(raw)
             ELSE (CHOOSE i \in ats : \A j \in ats : i <= j) - 1
  IN  [i \in 1..end |-> LowerCase[raw[i]]]

\* Characters a handle may contain are kept; a run of others, hyphens among
\* them, becomes one hyphen, except at either end.
Collapsed(name) ==
  LET legal == {i \in DOMAIN name : name[i] \in Alphanumerics}
      kept == {i \in DOMAIN name :
                 i \in legal \/ (i + 1 \in legal /\ \E j \in legal : j < i)}
      kth(k) == CHOOSE i \in kept : Cardinality({j \in kept : j <= i}) = k
  IN  [k \in 1..Cardinality(kept) |->
         IF kth(k) \in legal THEN name[kth(k)] ELSE "-"]

\* _clean: stripped of hyphens first, then cut to length.
Clean(raw) ==
  LET whole == Collapsed(LocalPart(raw))
  IN  IF Len(whole) > StemLimit THEN SubSeq(whole, 1, StemLimit) ELSE whole

\* The first candidate that leaves anything.
StemFrom(candidates) ==
  LET usable == {i \in DOMAIN candidates : Clean(candidates[i]) # <<>>}
  IN  IF usable = {} THEN Fallback
      ELSE Clean(candidates[CHOOSE i \in usable : \A j \in usable : i <= j])

-----------------------------------------------------------------------------
(* An attempt: allocate.                                                   *)

WithSuffix(stem, n) == stem \o <<"-", Decimal[n]>>

\* The stem itself, then the stem with the suffixes 2, 3, ...
Attempt(stem, n) == IF n = 1 THEN stem ELSE WithSuffix(stem, n)

\* When all are taken: a handle made of the number of accounts, not tried.
LastResort(count) == WithSuffix(Fallback, count + 1)

=============================================================================
