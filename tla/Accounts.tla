------------------------------ MODULE Accounts -------------------------------
(***************************************************************************)
(* Creating accounts and signing in to them: auth/accounts.py and the      *)
(* routes register, login and the provider callback (routes/auth.py).      *)
(*                                                                         *)
(* Two ways in lead to one users row: an address with a password, and a    *)
(* provider account linked by an identities row.  Every lookup is a SELECT *)
(* of its own; what it found is acted on later, when other requests may    *)
(* have committed.  The unique constraints on handle, address and provider *)
(* account (migrations, initial schema) are what the last step meets.      *)
(*                                                                         *)
(* A flush and the commit after it are one step: an INSERT holds its       *)
(* unique keys against other writers until the commit, and nobody reads    *)
(* it before.  Nothing in the repository deletes a user, suspends one or   *)
(* changes an address, a handle or a password.                             *)
(***************************************************************************)
EXTENDS Handles

CONSTANTS
  AccountIds,   \* users.id
  Requests,     \* requests that can be in progress at one time
  Addresses,    \* addresses as people and providers spell them
  Normal,       \* Normal[e]: address e trimmed and in lower case
  Subjects,     \* provider accounts: (provider, subject)
  Profiles,     \* what providers may send: subject, address and whether they
                \* vouch for it
  Spelling,     \* Spelling[x]: the characters of an address or of the user
                \* name of a provider account
  Returning,    \* provider accounts whose owners try again until they are in
  ReturnsWith,  \* ReturnsWith[p]: the profile they then come with
  None

ASSUME AccountsAssumption ==
  /\ AccountIds \subseteq Nat
  /\ IsFiniteSet(AccountIds)
  /\ 1..(Cardinality(AccountIds) + 1) \subseteq DOMAIN Decimal
  /\ Normal \in [Addresses -> Addresses]
  /\ \A e \in Addresses : Normal[Normal[e]] = Normal[e]
  /\ Profiles \subseteq Subjects \X (Addresses \cup {None}) \X BOOLEAN
  /\ Spelling \in [Addresses \cup Subjects -> Seq(Characters)]
  /\ Addresses \cap Subjects = {}
  /\ Returning \subseteq Subjects
  /\ ReturnsWith \in [Returning -> Profiles]
  /\ \A p \in Returning :
       /\ ReturnsWith[p][1] = p
       /\ ReturnsWith[p][2] # None
       /\ ReturnsWith[p][3]
  /\ None \notin Addresses
  /\ None \notin Subjects
  /\ None \notin AccountIds

VARIABLES
  users,       \* users[a]: the row with id a, or Absent
  identities,  \* the rows of identities
  req,         \* req[r]: what request r is doing
  reached      \* history: reached[way]: the accounts that way in has led to

accountVars == <<users, identities, req, reached>>

-----------------------------------------------------------------------------
(* Rows and requests.                                                      *)

Emails == {Normal[e] : e \in Addresses}

\* via: the provider account it was created for, None after a registration.
User ==
  [handle : Seq(Characters), email : Emails, email_verified : BOOLEAN,
   password : BOOLEAN, via : Subjects \cup {None}]

Absent == [handle |-> <<>>]

\* verified: whether the provider vouched for the address at link time.
Identity ==
  [subject : Subjects, user : AccountIds, email : Addresses \cup {None},
   verified : BOOLEAN]

\* "adopting", "claiming": a provider account that is not linked yet, before
\* _adoptable and before _check_address_free; "naming": allocate is trying the
\* suffix; "counting": it has tried them all; "creating", "linking": before
\* the INSERTs.
Steps == {"adopting", "claiming", "naming", "counting", "creating", "linking"}

Request ==
  [pc : Steps, subject : Subjects \cup {None}, email : Addresses \cup {None},
   verified : BOOLEAN, suffix : Nat, handle : Seq(Characters),
   account : AccountIds \cup {None}]

Idle == [pc |-> "idle"]

Started(pc, subject, email, verified) ==
  [pc |-> pc, subject |-> subject, email |-> email, verified |-> verified,
   suffix |-> 1, handle |-> <<>>, account |-> None]

At(r, pc) == req[r].pc = pc

Finish(r) == req' = [req EXCEPT ![r] = Idle]

Existing == {a \in AccountIds : users[a] # Absent}

\* Slip: the address is compared as it was typed.
AsTyped(e) == e

\* normalise_email.
NormaliseEmail(e) == Normal[e]

\* by_email.
ByEmail(e) == {a \in Existing : users[a].email = NormaliseEmail(e)}

\* _by_identity: the accounts linked to provider account p.
ByIdentity(p) == {link.user : link \in {l \in identities : l.subject = p}}

\* Some request was let in to account a by way of an address or a provider
\* account.
LetIn(way, a) == reached' = [reached EXCEPT ![way] = @ \cup {a}]

Init ==
  /\ users = [a \in AccountIds |-> Absent]
  /\ identities = {}
  /\ req = [r \in Requests |-> Idle]
  /\ reached = [way \in Addresses \cup Subjects |-> {}]

-----------------------------------------------------------------------------
(* An address and a password.                                              *)

\* register, up to its lookup.  A weak password and a known address are
\* refused and change nothing.
Register(r) ==
  \E e \in Addresses :
    /\ At(r, "idle")
    /\ ByEmail(e) = {}
    /\ req' = [req EXCEPT ![r] = Started("naming", None, e, FALSE)]
    /\ UNCHANGED <<users, identities, reached>>

\* sign_in, with the right password: one SELECT decides.
SignIn(r) ==
  \E e \in Addresses : \E a \in ByEmail(e) :
    /\ At(r, "idle")
    /\ users[a].password
    /\ LetIn(Normal[e], a)
    /\ UNCHANGED <<users, identities, req>>

-----------------------------------------------------------------------------
(* A provider's callback: link_or_create.                                  *)

\* A provider account that is linked is let in.
Recognise(r) ==
  \E p \in Subjects : \E a \in ByIdentity(p) :
    /\ At(r, "idle")
    /\ LetIn(p, a)
    /\ UNCHANGED <<users, identities, req>>

\* One that is not goes on with the profile the provider sent: people change
\* their address there, and a provider may or may not vouch for it.
Arrive(r, profile) ==
  /\ At(r, "idle")
  /\ ByIdentity(profile[1]) = {}
  /\ req' = [req EXCEPT ![r] =
       Started("adopting", profile[1], profile[2], profile[3])]
  /\ UNCHANGED <<users, identities, reached>>

\* Slip: an address the provider did not vouch for is good enough.
AnyAddress(q) == q.email # None

\* Slip: and it has to be spelled as the account's address is stored.
MayAdoptAsStored(q) ==
  q.email # None /\ q.verified /\ q.email = NormaliseEmail(q.email)

\* _adoptable looks for an account only then.
MayAdopt(q) == q.email # None /\ q.verified

Adopt(r) ==
  /\ At(r, "adopting")
  /\ \/ /\ MayAdopt(req[r])
        /\ \E a \in ByEmail(req[r].email) :
             req' = [req EXCEPT ![r].pc = "linking", ![r].account = a]
     \/ /\ MayAdopt(req[r]) => ByEmail(req[r].email) = {}
        /\ req' = [req EXCEPT ![r].pc = "claiming"]
  /\ UNCHANGED <<users, identities, reached>>

\* _check_address_free: no address, or one that is taken, is a conflict.
Claim(r) ==
  /\ At(r, "claiming")
  /\ IF req[r].email # None /\ ByEmail(req[r].email) = {}
     THEN req' = [req EXCEPT ![r].pc = "naming"]
     ELSE Finish(r)
  /\ UNCHANGED <<users, identities, reached>>

-----------------------------------------------------------------------------
(* allocate: one SELECT for each handle it tries.                          *)

\* The candidates: the user name at the provider first, then the address.
Candidates(p, e) ==
  IF p = None THEN <<Spelling[e]>> ELSE <<Spelling[p], Spelling[e]>>

\* The stem a request works from.
Stem ==
  [p \in Subjects \cup {None} |->
     [e \in Addresses |-> StemFrom(Candidates(p, e))]]

\* Slip: a handle that is reserved is taken for a free one.
IsUntaken(handle) == \A a \in Existing : users[a].handle # handle

IsFree(handle) ==
  /\ handle \notin ReservedHandles
  /\ \A a \in Existing : users[a].handle # handle

Try(r) ==
  LET q == req[r]
      attempt == Attempt(Stem[q.subject][q.email], q.suffix)
  IN  /\ At(r, "naming")
      /\ req' = [req EXCEPT ![r] =
           IF IsFree(attempt)
           THEN [q EXCEPT !.pc = "creating", !.handle = attempt]
           ELSE IF q.suffix < MaxSuffix
           THEN [q EXCEPT !.suffix = @ + 1]
           ELSE [q EXCEPT !.pc = "counting"]]
      /\ UNCHANGED <<users, identities, reached>>

Count(r) ==
  /\ At(r, "counting")
  /\ req' = [req EXCEPT ![r].pc = "creating",
                        ![r].handle = LastResort(Cardinality(Existing))]
  /\ UNCHANGED <<users, identities, reached>>

-----------------------------------------------------------------------------
(* The INSERTs and the commit.                                             *)

NewUser(q) ==
  [handle |-> q.handle, email |-> NormaliseEmail(q.email),
   email_verified |-> q.verified, password |-> q.subject = None,
   via |-> q.subject]

LinkOf(q, a) ==
  [subject |-> q.subject, user |-> a, email |-> q.email,
   verified |-> q.verified]

\* Slip: users has a unique index on one of the two columns only.
HandleTaken(q) == \E a \in Existing : users[a].handle = q.handle

AddressTaken(q) == \E a \in Existing : users[a].email = NormaliseEmail(q.email)

\* The unique indexes of users.
UserCollides(q) == HandleTaken(q) \/ AddressTaken(q)

\* Slip: identities has no unique constraint.
NeverCollides(q) == FALSE

\* uq_identity_provider_subject.
LinkCollides(q) == q.subject # None /\ ByIdentity(q.subject) # {}

\* The way in the request used, as reached records it.
WayOf(q) == IF q.subject = None THEN Normal[q.email] ELSE q.subject

\* The next id no account has.
FreshId == CHOOSE a \in AccountIds \ Existing :
             \A b \in AccountIds \ Existing : a <= b

\* An IntegrityError is not caught: it rolls everything back.
Create(r) ==
  LET q == req[r]
      a == FreshId
  IN  /\ At(r, "creating")
      /\ AccountIds # Existing
      /\ IF UserCollides(q) \/ LinkCollides(q)
         THEN UNCHANGED <<users, identities, reached>>
         ELSE /\ users' = [users EXCEPT ![a] = NewUser(q)]
              /\ identities' = IF q.subject = None THEN identities
                               ELSE identities \cup {LinkOf(q, a)}
              /\ LetIn(WayOf(q), a)
      /\ Finish(r)

\* The account the lookup found gets one more way in.
Link(r) ==
  LET q == req[r]
  IN  /\ At(r, "linking")
      /\ IF LinkCollides(q)
         THEN UNCHANGED <<identities, reached>>
         ELSE /\ identities' = identities \cup {LinkOf(q, q.account)}
              /\ LetIn(q.subject, q.account)
      /\ Finish(r)
      /\ UNCHANGED users

\* A disconnect, an exception or a crash.
Abort(r) ==
  /\ ~ At(r, "idle")
  /\ Finish(r)
  /\ UNCHANGED <<users, identities, reached>>

-----------------------------------------------------------------------------

Next ==
  \E r \in Requests :
    \/ Register(r) \/ SignIn(r) \/ Recognise(r)
    \/ \E profile \in Profiles : Arrive(r, profile)
    \/ Adopt(r) \/ Claim(r) \/ Try(r) \/ Count(r)
    \/ Create(r) \/ Link(r)
    \/ Abort(r)

Spec == Init /\ [][Next]_accountVars

\* What request r does next by itself.
Progress(r) == Adopt(r) \/ Claim(r) \/ Try(r) \/ Count(r) \/ Create(r) \/ Link(r)

OnBehalf(r, p) == ~ At(r, "idle") /\ req[r].subject = p

\* The owner of p comes back with an address the provider vouches for.
Return(p) == \E r \in Requests : Arrive(r, ReturnsWith[p])

\* A handler runs on, and whoever is to be let in is not kept from trying by
\* requests of others that happen to be in progress.
FairSpec ==
  /\ Spec
  /\ \A r \in Requests : WF_accountVars(Progress(r))
  /\ \A p \in Returning : SF_accountVars(Return(p))

-----------------------------------------------------------------------------
(* Properties.                                                             *)

(* Rows and requests have the shapes the code gives them; what a request    *)
(* remembers of an account is an account.                                   *)
AccountsTypeOK ==
  /\ users \in [AccountIds -> User \cup {Absent}]
  /\ identities \subseteq Identity
  /\ req \in [Requests -> Request \cup {Idle}]
  /\ reached \in [Addresses \cup Subjects -> SUBSET AccountIds]

(* One way in leads to one account for good (README, "both routes converge  *)
(* on one account"): whichever requests raced to create it, an address or a *)
(* provider account never lets anyone in to a second one.                   *)
SameWayIn ==
  \A way \in Addresses \cup Subjects : \A a, b \in reached[way] : a = b

(* accounts.py, _adoptable: a provider account is linked to an account that *)
(* was not created for it only if the provider vouched for that account's   *)
(* own address, although the account was looked up in an earlier statement. *)
AdoptionProven ==
  \A link \in identities :
    \/ users[link.user].via = link.subject
    \/ /\ link.verified
       /\ users[link.user].email = NormaliseEmail(link.email)

(* A handle is the account's namespace: two sign-ups that both found it     *)
(* free never both get it (handles.py, allocate).                           *)
HandlesUnique ==
  \A a, b \in Existing : users[a].handle = users[b].handle => a = b

(* README.md, "nothing can publish under a name that reads like a curated   *)
(* entry": no account has a reserved handle, although a handle is tested    *)
(* several statements before its row is inserted, and the last resort is    *)
(* not tested at all.                                                       *)
NothingReserved ==
  \A a \in Existing : users[a].handle \notin ReservedHandles

(* A sign-up that lost a race fails with an unhandled error; trying again   *)
(* is enough.  Whoever keeps coming back with an address the provider       *)
(* vouches for, and is not cut off every time, is let in, or allocate's     *)
(* last resort, which handles.py expects never to collide, is taken for     *)
(* good.                                                                    *)
RetriesGetIn ==
  \A p \in Returning :
    <>[][\A r \in Requests :
           OnBehalf(r, p) /\ req'[r] = Idle => Progress(r)]_accountVars
      => \/ <>(ByIdentity(p) # {})
         \/ <>[]~ IsFree(LastResort(Cardinality(Existing)))

=============================================================================
