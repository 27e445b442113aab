--------------------------- MODULE AccountsProofs ----------------------------
(***************************************************************************)
(* What holds of Accounts for any number of accounts, requests, addresses  *)
(* and provider accounts, whatever they are called.                        *)
(*                                                                         *)
(* A request acts on lookups that may be out of date.  AInv says what of   *)
(* them lasts: users are never deleted and never change, so an account     *)
(* that was found is still there under the address it was found by; and    *)
(* what does not last, that a name is free, the unique constraints check   *)
(* again.  That handles are unique and that every way in leads to one      *)
(* account does not depend on how handles are made; that none is reserved  *)
(* is proved last, from what collapsing, cutting and numbering a name do.  *)
(***************************************************************************)
EXTENDS AccountsRefinement, FiniteSetTheorems, SequenceTheorems,
        WellFoundedInduction, TLAPS

UserWith(handle) ==
  [handle : {handle}, email : Emails, email_verified : BOOLEAN,
   password : BOOLEAN, via : Subjects \cup {None}]

RequestWith(handle) ==
  [pc : Steps, subject : Subjects \cup {None}, email : Addresses \cup {None},
   verified : BOOLEAN, suffix : Nat, handle : {handle},
   account : AccountIds \cup {None}]

Shapes ==
  /\ users = [a \in AccountIds |-> users[a]]
  /\ \A a \in Existing : users[a] \in UserWith(users[a].handle)
  /\ identities \subseteq Identity
  /\ req = [r \in Requests |-> req[r]]
  /\ \A r \in Requests : req[r] # Idle => req[r] \in RequestWith(req[r].handle)
  /\ reached \in [Addresses \cup Subjects -> SUBSET AccountIds]

EmailsUnique ==
  \A a, b \in Existing : users[a].email = users[b].email => a = b

LinksUnique ==
  \A k, l \in identities : k.subject = l.subject => k = l

\* Where a way in has led, the tables lead.
ReachedStored ==
  /\ \A e \in Addresses : \A a \in reached[e] :
       a \in Existing /\ users[a].email = e
  /\ \A p \in Subjects : reached[p] \subseteq ByIdentity(p)

\* What a request has settled that nobody can undo.
Settled(r) ==
  LET q == req[r]
  IN  /\ q.pc \in {"adopting", "claiming"} => q.subject \in Subjects
      /\ q.pc \in {"naming", "counting", "creating"} => q.email \in Addresses
      /\ q.pc = "linking" =>
           /\ q.subject \in Subjects /\ q.email \in Addresses /\ q.verified
           /\ q.account \in Existing
           /\ users[q.account].email = NormaliseEmail(q.email)

AInv ==
  /\ Shapes
  /\ \A l \in identities : l.user \in Existing
  /\ HandlesUnique
  /\ EmailsUnique
  /\ LinksUnique
  /\ ReachedStored
  /\ AdoptionProven
  /\ \A r \in Requests : Settled(r)

-----------------------------------------------------------------------------
(* Rows.                                                                   *)

LEMMA Facts ==
  /\ Idle.pc = "idle" /\ "idle" \notin Steps
  /\ \A e \in Addresses : NormaliseEmail(e) \in Emails
  /\ \A e \in Emails : e \in Addresses
BY AccountsAssumption DEF Idle, Steps, NormaliseEmail, Emails

\* A new row is a row.
LEMMA NewRow ==
  ASSUME NEW q, q \in RequestWith(q.handle), q.email \in Addresses
  PROVE  /\ NewUser(q) \in UserWith(q.handle)
         /\ NewUser(q) # Absent
         /\ NewUser(q).handle = q.handle
         /\ NewUser(q).email = NormaliseEmail(q.email)
         /\ NewUser(q).via = q.subject
<1>1. NormaliseEmail(q.email) \in Emails
  BY Facts
<1>2. NewUser(q) \in UserWith(q.handle)
  BY <1>1 DEF NewUser, UserWith, RequestWith
<1>3. NewUser(q) # Absent
  <2>1. "email" \in DOMAIN NewUser(q) /\ "email" \notin DOMAIN Absent
    BY DEF NewUser, Absent
  <2> QED
    BY <2>1
<1> QED
  BY <1>2, <1>3 DEF NewUser

\* A set of numbers has a least one.
LEMMA Least ==
  ASSUME NEW T, T \subseteq Nat, T # {}
  PROVE  \E a \in T : \A b \in T : a <= b
<1> DEFINE less == {pair \in Nat \X Nat : pair[1] < pair[2]}
<1>1. IsWellFoundedOn(less, Nat)
  <2>1. less = OpToRel(<, Nat)
    BY Zenon DEF OpToRel
  <2> QED
    BY <2>1, NatLessThanWellFounded, Zenon
<1>2. PICK a \in T : \A b \in T : <<b, a>> \notin less
  <2> HIDE DEF less
  <2> QED
    BY <1>1, WFMin
<1>3. ASSUME NEW b \in T PROVE a <= b
  <2>1. a \in Nat /\ b \in Nat /\ <<b, a>> \notin less
    BY <1>2
  <2>2. ~ (b < a)
    BY <2>1
  <2> QED
    BY <2>1, <2>2
<1> QED
  BY <1>3

\* There is a next id as long as there is one left.
LEMMA Fresh ==
  ASSUME AccountIds # Existing
  PROVE  FreshId \in AccountIds /\ FreshId \notin Existing
<1>1. AccountIds \ Existing \subseteq Nat /\ AccountIds \ Existing # {}
  BY AccountsAssumption DEF Existing
<1> QED
  BY <1>1, Least DEF FreshId

-----------------------------------------------------------------------------
(* Steps that write nothing.                                               *)

OthersWait(r) == \A o \in Requests : o # r => req'[o] = req[o]

\* A request that goes on, or ends, with what it has settled.
LEMMA QuietStep ==
  ASSUME AInv, UNCHANGED <<users, identities, reached>>,
         NEW r \in Requests, NEW q, req' = [req EXCEPT ![r] = q],
         q = Idle \/ q \in RequestWith(q.handle), Settled(r)'
  PROVE  AInv'
<1>1. req'[r] = q /\ OthersWait(r) /\ req' = [o \in Requests |-> req'[o]]
  BY DEF AInv, Shapes, OthersWait
<1>2. Existing' = Existing
  BY DEF Existing
<1>3. Shapes'
  BY <1>1, <1>2 DEF AInv, Shapes, OthersWait
<1>4. ASSUME NEW o \in Requests PROVE Settled(o)'
  BY <1>1, <1>2 DEF AInv, Settled, OthersWait
<1>5. /\ HandlesUnique' /\ EmailsUnique' /\ LinksUnique' /\ ReachedStored'
      /\ AdoptionProven'
  BY <1>2 DEF AInv, HandlesUnique, EmailsUnique, LinksUnique, ReachedStored,
              ByIdentity, AdoptionProven
<1> QED
  BY <1>2, <1>3, <1>4, <1>5 DEF AInv

LEMMA Ends ==
  ASSUME AInv, UNCHANGED <<users, identities, reached>>,
         NEW r \in Requests, Finish(r)
  PROVE  AInv'
<1>1. req' = [req EXCEPT ![r] = Idle] /\ req'[r] = Idle
  BY DEF Finish, AInv, Shapes
<1>2. Settled(r)'
  BY <1>1, Facts DEF Settled
<1> QED
  BY <1>1, <1>2, QuietStep

\* A request in progress is a request.
LEMMA InProgress ==
  ASSUME AInv, NEW r \in Requests, req[r].pc # "idle"
  PROVE  req[r] \in RequestWith(req[r].handle) /\ Settled(r)
BY Facts DEF AInv, Shapes

LEMMA Starts ==
  ASSUME AInv, NEW r \in Requests,
         Register(r) \/ \E profile \in Profiles : Arrive(r, profile)
  PROVE  AInv'
<1>1. PICK pc \in {"naming", "adopting"}, subject \in Subjects \cup {None},
           email \in Addresses \cup {None}, verified \in BOOLEAN :
        /\ req' = [req EXCEPT ![r] = Started(pc, subject, email, verified)]
        /\ pc = "naming" => email \in Addresses
        /\ pc = "adopting" => subject \in Subjects
  <2>1. CASE Register(r)
    BY <2>1 DEF Register
  <2>2. ASSUME NEW profile \in Profiles, Arrive(r, profile)
        PROVE  /\ profile[1] \in Subjects /\ profile[2] \in Addresses \cup {None}
               /\ profile[3] \in BOOLEAN
               /\ req' = [req EXCEPT ![r] =
                    Started("adopting", profile[1], profile[2], profile[3])]
    BY <2>2, AccountsAssumption DEF Arrive
  <2> QED
    BY <2>1, <2>2
<1> DEFINE q == Started(pc, subject, email, verified)
<1>2. UNCHANGED <<users, identities, reached>>
  BY DEF Register, Arrive
<1>3. q \in RequestWith(q.handle) /\ q.pc = pc /\ q.subject = subject
      /\ q.email = email
  BY DEF Started, RequestWith, Steps
<1> HIDE DEF q
<1>4. req'[r] = q
  BY <1>1 DEF AInv, Shapes, q
<1>5. Settled(r)'
  BY <1>1, <1>3, <1>4 DEF Settled
<1> QED
  BY <1>1, <1>2, <1>3, <1>5, QuietStep DEF q

\* The account that is adopted is there, under the address it was found by.
LEMMA Adopts ==
  ASSUME AInv, NEW r \in Requests, Adopt(r)
  PROVE  AInv'
<1> DEFINE q == req[r]
<1>1. /\ q.pc = "adopting" /\ q \in RequestWith(q.handle) /\ q.subject \in Subjects
      /\ UNCHANGED <<users, identities, reached>>
  BY InProgress DEF Adopt, At, Settled
<1>2. ASSUME NEW a \in ByEmail(q.email), MayAdopt(q),
             req' = [req EXCEPT ![r].pc = "linking", ![r].account = a]
      PROVE  AInv'
  <2> DEFINE n == [q EXCEPT !.pc = "linking", !.account = a]
  <2>1. /\ q.email \in Addresses /\ q.verified
        /\ a \in Existing /\ users[a].email = NormaliseEmail(q.email)
        /\ a \in AccountIds
    BY <1>1, <1>2 DEF MayAdopt, RequestWith, ByEmail, Existing
  <2>2. /\ n \in RequestWith(n.handle) /\ n.pc = "linking" /\ n.account = a
        /\ n.subject = q.subject /\ n.email = q.email /\ n.verified = q.verified
    BY <1>1, <2>1 DEF RequestWith, Steps
  <2> HIDE DEF q
  <2>3. req' = [req EXCEPT ![r] = n]
    BY <1>2 DEF q
  <2> HIDE DEF n
  <2>4. req'[r] = n
    BY <2>3 DEF AInv, Shapes
  <2>5. Existing' = Existing
    BY <1>1 DEF Existing
  <2>6. Settled(r)'
    BY <1>1, <2>1, <2>2, <2>4, <2>5 DEF Settled
  <2> QED
    BY <1>1, <2>2, <2>3, <2>6, QuietStep
<1>3. CASE req' = [req EXCEPT ![r].pc = "claiming"]
  <2> DEFINE n == [q EXCEPT !.pc = "claiming"]
  <2>1. /\ n \in RequestWith(n.handle) /\ n.pc = "claiming"
        /\ n.subject = q.subject
    BY <1>1 DEF RequestWith, Steps
  <2>2. req' = [req EXCEPT ![r] = n] /\ req'[r] = n
    BY <1>3 DEF AInv, Shapes
  <2> HIDE DEF n
  <2>3. Settled(r)'
    BY <1>1, <2>1, <2>2 DEF Settled
  <2> QED
    BY <1>1, <2>1, <2>2, <2>3, QuietStep
<1> QED
  BY <1>2, <1>3 DEF Adopt

\* Claiming an address and choosing a handle: an address is all that is kept.
LEMMA Chooses ==
  ASSUME AInv, NEW r \in Requests, Claim(r) \/ Try(r) \/ Count(r)
  PROVE  AInv'
<1> DEFINE q == req[r]
<1>1. /\ q.pc \in {"claiming", "naming", "counting"}
      /\ q \in RequestWith(q.handle)
      /\ q.pc # "claiming" => q.email \in Addresses
      /\ UNCHANGED <<users, identities, reached>>
  BY InProgress DEF Claim, Try, Count, At, Settled
<1>2. ASSUME NEW n, req' = [req EXCEPT ![r] = n], n \in RequestWith(n.handle),
             n.pc \in {"naming", "counting", "creating"}, n.email \in Addresses
      PROVE  AInv'
  <2>1. req'[r] = n
    BY <1>2 DEF AInv, Shapes
  <2>2. Settled(r)'
    BY <1>2, <2>1 DEF Settled
  <2> QED
    BY <1>1, <1>2, <2>2, QuietStep
<1>3. CASE Claim(r)
  <2>1. CASE Finish(r)
    BY <1>1, <2>1, Ends
  <2>2. CASE ~ Finish(r)
    <3> DEFINE n == [q EXCEPT !.pc = "naming"]
    <3>1. q.email \in Addresses /\ req' = [req EXCEPT ![r] = n]
      BY <1>1, <1>3, <2>2 DEF Claim, RequestWith
    <3>2. n \in RequestWith(n.handle) /\ n.pc = "naming" /\ n.email = q.email
      BY <1>1 DEF RequestWith, Steps
    <3> HIDE DEF n
    <3> QED
      BY <1>2, <3>1, <3>2
  <2> QED
    BY <2>1, <2>2
<1>4. CASE Try(r)
  <2> DEFINE h == Attempt(Stem[q.subject][q.email], q.suffix)
             found == [q EXCEPT !.pc = "creating", !.handle = h]
             again == [q EXCEPT !.suffix = q.suffix + 1]
             out == [q EXCEPT !.pc = "counting"]
  <2>1. /\ q.pc = "naming"
        /\ \/ req' = [req EXCEPT ![r] = found]
           \/ req' = [req EXCEPT ![r] = again]
           \/ req' = [req EXCEPT ![r] = out]
    BY <1>4 DEF Try, At
  <2> HIDE DEF h
  <2>2. /\ found \in RequestWith(found.handle) /\ found.email = q.email
        /\ found.pc = "creating"
    BY <1>1 DEF RequestWith, Steps
  <2>3. again \in RequestWith(again.handle) /\ again.email = q.email
        /\ again.pc = q.pc
    BY <1>1 DEF RequestWith, Steps
  <2>4. out \in RequestWith(out.handle) /\ out.email = q.email
        /\ out.pc = "counting"
    BY <1>1 DEF RequestWith, Steps
  <2> HIDE DEF found, again, out
  <2> QED
    BY <1>1, <1>2, <2>1, <2>2, <2>3, <2>4
<1>5. CASE Count(r)
  <2> DEFINE h == LastResort(Cardinality(Existing))
             n == [q EXCEPT !.pc = "creating", !.handle = h]
  <2>1. q.pc = "counting"
    BY <1>5 DEF Count, At
  <2>2. req' = [req EXCEPT ![r] = n]
    BY <1>5 DEF Count
  <2> HIDE DEF h
  <2>3. n \in RequestWith(n.handle) /\ n.email = q.email /\ n.pc = "creating"
    BY <1>1 DEF RequestWith, Steps
  <2> HIDE DEF n
  <2> QED
    BY <1>1, <1>2, <2>1, <2>2, <2>3
<1> QED
  BY <1>3, <1>4, <1>5

-----------------------------------------------------------------------------
(* Steps that write.                                                       *)

\* Rows and links are added, none is changed; where a way in has led is where
\* the tables now lead; a request that settled something keeps it.
LEMMA WritingStep ==
  ASSUME AInv, NEW r \in Requests, Finish(r), Existing \subseteq Existing',
         \A a \in Existing : users'[a] = users[a],
         Shapes', \A l \in identities' : l.user \in Existing',
         HandlesUnique', EmailsUnique', LinksUnique', ReachedStored',
         AdoptionProven'
  PROVE  AInv'
<1>1. /\ req'[r] = Idle
      /\ \A o \in Requests : o # r => req'[o] = req[o]
  BY DEF Finish, AInv, Shapes
<1>2. Settled(r)'
  BY <1>1, Facts DEF Settled
<1>3. ASSUME NEW o \in Requests, o # r PROVE Settled(o)'
  BY <1>1, <1>3 DEF AInv, Settled
<1> QED
  BY <1>2, <1>3 DEF AInv

\* A way in is recorded when the tables lead it to that account.
LEMMA LetInShape ==
  ASSUME AInv, NEW way \in Addresses \cup Subjects, NEW a \in AccountIds,
         LetIn(way, a)
  PROVE  /\ reached' \in [Addresses \cup Subjects -> SUBSET AccountIds]
         /\ reached'[way] = reached[way] \cup {a}
         /\ \A w \in Addresses \cup Subjects : w # way => reached'[w] = reached[w]
BY DEF LetIn, AInv, Shapes

\* An account that is signed in to was there.
LEMMA SignsIn ==
  ASSUME AInv, NEW r \in Requests, SignIn(r) \/ Recognise(r)
  PROVE  AInv'
<1>1. PICK way \in Addresses \cup Subjects, a \in AccountIds :
        /\ LetIn(way, a)
        /\ \/ way \in Emails /\ a \in Existing /\ users[a].email = way
           \/ way \in Subjects /\ a \in ByIdentity(way)
  <2>1. CASE SignIn(r)
    <3>1. PICK e \in Addresses : \E a \in ByEmail(e) : LetIn(Normal[e], a)
      BY <2>1 DEF SignIn
    <3> QED
      BY <3>1, Facts DEF ByEmail, Existing, NormaliseEmail
  <2>2. CASE Recognise(r)
    <3>1. PICK p \in Subjects : \E a \in ByIdentity(p) : LetIn(p, a)
      BY <2>2 DEF Recognise
    <3>2. ByIdentity(p) \subseteq AccountIds
      BY DEF ByIdentity, AInv, Shapes, Identity
    <3> QED
      BY <3>1, <3>2
  <2> QED
    BY <2>1, <2>2
<1>2. UNCHANGED <<users, identities, req>>
  BY DEF SignIn, Recognise
<1>3. Existing' = Existing /\ \A p : ByIdentity(p)' = ByIdentity(p)
  BY <1>2 DEF Existing, ByIdentity
<1>4. Shapes'
  BY <1>1, <1>2, <1>3, LetInShape DEF AInv, Shapes
<1>5. ReachedStored'
  <2>1. /\ reached'[way] = reached[way] \cup {a}
        /\ \A w \in Addresses \cup Subjects : w # way => reached'[w] = reached[w]
    BY <1>1, LetInShape
  <2>2. ASSUME NEW e \in Addresses, NEW b \in reached'[e]
        PROVE  b \in Existing /\ users[b].email = e
    <3>1. b \in reached[e] => b \in Existing /\ users[b].email = e
      BY DEF AInv, ReachedStored
    <3>2. way = e => a \in Existing /\ users[a].email = e
      BY <1>1, AccountsAssumption
    <3> QED
      BY <2>1, <2>2, <3>1, <3>2
  <2>3. ASSUME NEW p \in Subjects, NEW b \in reached'[p]
        PROVE  b \in ByIdentity(p)
    <3>1. b \in reached[p] => b \in ByIdentity(p)
      BY DEF AInv, ReachedStored
    <3>2. way = p => a \in ByIdentity(p)
      BY <1>1, Facts, AccountsAssumption
    <3> QED
      BY <2>1, <2>3, <3>1, <3>2
  <2>4. \A p \in Subjects : reached'[p] \subseteq ByIdentity(p)
    BY <2>3
  <2>5. \A p \in Subjects : ByIdentity(p)' = ByIdentity(p)
    BY <1>3
  <2> QED
    BY <1>2, <1>3, <2>2, <2>4, <2>5 DEF ReachedStored
<1>6. HandlesUnique' /\ EmailsUnique' /\ LinksUnique' /\ AdoptionProven'
  BY <1>2, <1>3
  DEF AInv, HandlesUnique, EmailsUnique, LinksUnique, AdoptionProven
<1>7. \A o \in Requests : Settled(o)'
  BY <1>2, <1>3 DEF AInv, Settled
<1> QED
  BY <1>2, <1>3, <1>4, <1>5, <1>6, <1>7 DEF AInv

\* A link to an account that was looked up, and is still the same.
LEMMA Links ==
  ASSUME AInv, NEW r \in Requests, Link(r)
  PROVE  AInv'
<1> DEFINE q == req[r]
           p == q.subject
           a == q.account
           l == LinkOf(q, q.account)
<1>1. /\ q.pc = "linking" /\ q \in RequestWith(q.handle)
      /\ p \in Subjects /\ q.email \in Addresses /\ q.verified
      /\ a \in Existing /\ a \in AccountIds
      /\ users[a].email = NormaliseEmail(q.email)
      /\ Finish(r) /\ users' = users
  BY InProgress DEF Link, At, Settled, Existing
<1>2. CASE LinkCollides(q)
  BY <1>1, <1>2, Ends DEF Link
<1>3. CASE ~ LinkCollides(q)
  <2>1. /\ identities' = identities \cup {l} /\ LetIn(p, a)
        /\ ByIdentity(p) = {}
    BY <1>1, <1>3, AccountsAssumption DEF Link, LinkCollides
  <2>2. /\ l.subject = p /\ l.user = a /\ l.email = q.email /\ l.verified
        /\ l \in Identity
    BY <1>1 DEF LinkOf, Identity, RequestWith
  <2> HIDE DEF l
  <2>3. Existing' = Existing /\ \A k \in identities : k.subject # p
    BY <1>1, <2>1 DEF Existing, ByIdentity
  <2>4. req' = [o \in Requests |-> req'[o]] /\ \A o \in Requests :
          req'[o] = Idle \/ req'[o] = req[o]
    BY <1>1 DEF Finish, AInv, Shapes
  <2>5. Shapes'
    BY <1>1, <2>1, <2>2, <2>3, <2>4, LetInShape DEF AInv, Shapes
  <2>6. LinksUnique' /\ \A k \in identities' : k.user \in Existing'
    BY <1>1, <2>1, <2>2, <2>3 DEF AInv, LinksUnique
  <2>7. AdoptionProven'
    BY <1>1, <2>1, <2>2 DEF AInv, AdoptionProven
  <2>8. HandlesUnique' /\ EmailsUnique'
    BY <1>1, <2>3 DEF AInv, HandlesUnique, EmailsUnique
  <2>9. ReachedStored'
    <3>1. a \in {k.user : k \in {x \in identities' : x.subject = p}}
      BY <2>1, <2>2
    <3>2. \A w \in Subjects : ByIdentity(w) \subseteq
            {k.user : k \in {x \in identities' : x.subject = w}}
      BY <2>1 DEF ByIdentity
    <3>3. \A w \in Subjects : reached'[w] \subseteq
            {k.user : k \in {x \in identities' : x.subject = w}}
      BY <1>1, <2>1, <3>1, <3>2, LetInShape DEF AInv, ReachedStored
    <3>4. \A e \in Addresses : reached'[e] = reached[e]
      BY <1>1, <2>1, LetInShape, AccountsAssumption
    <3> QED
      BY <1>1, <2>3, <3>3, <3>4 DEF AInv, ReachedStored, ByIdentity
  <2> QED
    BY <1>1, <2>3, <2>5, <2>6, <2>7, <2>8, <2>9, WritingStep
<1> QED
  BY <1>2, <1>3

\* A new account: what the unique indexes let in is free after all.
LEMMA Creates ==
  ASSUME AInv, NEW r \in Requests, Create(r)
  PROVE  AInv'
<1> DEFINE q == req[r]
           p == q.subject
           a == FreshId
           u == NewUser(q)
           l == LinkOf(q, FreshId)
           new == IF p = None THEN {} ELSE {l}
<1>1. /\ q.pc = "creating" /\ q \in RequestWith(q.handle)
      /\ q.email \in Addresses /\ p \in Subjects \cup {None}
      /\ a \in AccountIds /\ a \notin Existing
      /\ Finish(r)
  BY InProgress, Fresh DEF Create, At, Settled, RequestWith
<1>2. CASE UserCollides(q) \/ LinkCollides(q)
  BY <1>1, <1>2, Ends DEF Create
<1>3. CASE ~ (UserCollides(q) \/ LinkCollides(q))
  <2>1. /\ users' = [users EXCEPT ![a] = u]
        /\ identities' = identities \cup new
        /\ LetIn(WayOf(q), a)
    BY <1>3 DEF Create
  <2>2. /\ \A b \in Existing : users[b].handle # q.handle
        /\ \A b \in Existing : users[b].email # NormaliseEmail(q.email)
        /\ p # None => ByIdentity(p) = {}
    BY <1>3 DEF UserCollides, HandleTaken, AddressTaken, LinkCollides
  <2>3. /\ u \in UserWith(q.handle) /\ u # Absent /\ u.handle = q.handle
        /\ u.email = NormaliseEmail(q.email) /\ u.via = p
    BY <1>1, NewRow
  <2>4. /\ l.subject = p /\ l.user = a
        /\ p # None => l \in Identity
    BY <1>1 DEF LinkOf, Identity, RequestWith
  <2>5. /\ WayOf(q) \in Addresses \cup Subjects
        /\ p = None => WayOf(q) = NormaliseEmail(q.email) /\ WayOf(q) \notin Subjects
        /\ p # None => WayOf(q) = p /\ WayOf(q) \notin Addresses
    BY <1>1, AccountsAssumption DEF WayOf, NormaliseEmail
  <2> HIDE DEF u, l, q, a
  <2>6. /\ users'[a] = u /\ \A b \in AccountIds : b # a => users'[b] = users[b]
        /\ users' = [b \in AccountIds |-> users'[b]]
    BY <1>1, <2>1 DEF AInv, Shapes
  <2>7. Existing' = Existing \cup {a} /\ \A b \in Existing : users'[b] = users[b]
    BY <1>1, <2>3, <2>6 DEF Existing
  <2>8. req' = [o \in Requests |-> req'[o]] /\ \A o \in Requests :
          req'[o] = Idle \/ req'[o] = req[o]
    BY <1>1 DEF Finish, AInv, Shapes
  <2>9. \A k \in identities : k.user \in Existing /\ k \in Identity
    BY DEF AInv, Shapes
  <2>10. Shapes'
    <3>1. reached' \in [Addresses \cup Subjects -> SUBSET AccountIds]
      BY <1>1, <2>1, <2>5, LetInShape
    <3>2. identities' \subseteq Identity
      BY <2>1, <2>4, <2>9
    <3>3. \A b \in Existing' : users'[b] \in UserWith(users'[b].handle)
      BY <2>3, <2>6, <2>7 DEF AInv, Shapes
    <3> QED
      BY <2>6, <2>8, <3>1, <3>2, <3>3 DEF AInv, Shapes
  <2>11. HandlesUnique' /\ EmailsUnique'
    BY <2>2, <2>3, <2>6, <2>7 DEF AInv, HandlesUnique, EmailsUnique
  <2>12. p # None => \A k \in identities : k.subject # p
    BY <2>2 DEF ByIdentity
  <2>13. LinksUnique' /\ \A k \in identities' : k.user \in Existing'
    BY <2>1, <2>4, <2>7, <2>9, <2>12 DEF AInv, LinksUnique
  <2>14. AdoptionProven'
    <3>1. \A k \in identities : users'[k.user] = users[k.user]
      BY <2>7, <2>9
    <3>2. p # None => users'[l.user].via = l.subject
      BY <2>3, <2>4, <2>6
    <3> QED
      BY <2>1, <3>1, <3>2 DEF AInv, AdoptionProven
  <2>15. ReachedStored'
    <3>1. /\ reached'[WayOf(q)] = reached[WayOf(q)] \cup {a}
          /\ \A w \in Addresses \cup Subjects :
               w # WayOf(q) => reached'[w] = reached[w]
      BY <1>1, <2>1, <2>5, LetInShape
    <3>2. ASSUME NEW e \in Addresses, NEW b \in reached'[e]
          PROVE  b \in Existing' /\ users'[b].email = e
      <4>1. b \in reached[e] => b \in Existing /\ users[b].email = e
        BY DEF AInv, ReachedStored
      <4>2. CASE b = a /\ WayOf(q) = e
        BY <2>3, <2>5, <2>6, <2>7, <3>2, <4>2
      <4>3. CASE ~ (b = a /\ WayOf(q) = e)
        BY <2>5, <2>7, <3>1, <3>2, <4>1, <4>3
      <4> QED
        BY <4>2, <4>3
    <3>3. \A w \in Subjects : ByIdentity(w) \subseteq
            {k.user : k \in {x \in identities' : x.subject = w}}
      BY <2>1 DEF ByIdentity
    <3>4. p # None =>
            a \in {k.user : k \in {x \in identities' : x.subject = p}}
      BY <2>1, <2>4
    <3>5. \A w \in Subjects : reached'[w] \subseteq
            {k.user : k \in {x \in identities' : x.subject = w}}
      BY <2>5, <3>1, <3>3, <3>4 DEF AInv, ReachedStored
    <3> QED
      BY <3>2, <3>5 DEF ReachedStored, ByIdentity
  <2> QED
    BY <1>1, <2>7, <2>10, <2>11, <2>13, <2>14, <2>15, WritingStep
<1> QED
  BY <1>2, <1>3

-----------------------------------------------------------------------------
(* The theorems.                                                           *)

LEMMA InitAInv == Init => AInv
<1> SUFFICES ASSUME Init PROVE AInv
  OBVIOUS
<1>1. Existing = {} /\ identities = {} /\ \A r \in Requests : req[r] = Idle
  BY DEF Init, Existing
<1>2. Shapes
  BY <1>1 DEF Init, Shapes
<1>3. \A r \in Requests : Settled(r)
  BY <1>1, Facts DEF Settled
<1>4. ReachedStored
  BY DEF Init, ReachedStored
<1> QED
  BY <1>1, <1>2, <1>3, <1>4
  DEF AInv, HandlesUnique, EmailsUnique, LinksUnique, AdoptionProven

LEMMA StepAInv == AInv /\ [Next]_accountVars => AInv'
<1> SUFFICES ASSUME AInv, [Next]_accountVars PROVE AInv'
  OBVIOUS
<1>1. CASE UNCHANGED accountVars
  <2>1. UNCHANGED <<users, identities, req, reached>> /\ Existing' = Existing
    BY <1>1 DEF accountVars, Existing
  <2> QED
    BY <2>1 DEF AInv, Shapes, HandlesUnique, EmailsUnique, LinksUnique,
                ReachedStored, ByIdentity, AdoptionProven, Settled
<1>2. ASSUME NEW r \in Requests, Abort(r) PROVE AInv'
  BY <1>2, Ends DEF Abort
<1> QED
  BY <1>1, <1>2, Starts, SignsIn, Adopts, Chooses, Creates, Links DEF Next

\* What is true of the tables and of every request at all times.
THEOREM AccountsInvariance == Spec => []AInv
BY InitAInv, StepAInv, PTL DEF Spec

\* Whichever requests raced to create it: an address or a provider account
\* lets people in to one account.
THEOREM OneAccountPerWayIn == Spec => []SameWayIn
<1>1. AInv => SameWayIn
  <2> SUFFICES ASSUME AInv, NEW way \in Addresses \cup Subjects,
                      NEW a \in reached[way], NEW b \in reached[way]
               PROVE  a = b
    BY DEF SameWayIn
  <2>1. CASE way \in Addresses
    BY <2>1 DEF AInv, ReachedStored, EmailsUnique
  <2>2. CASE way \in Subjects
    <3>1. a \in ByIdentity(way) /\ b \in ByIdentity(way)
      BY <2>2 DEF AInv, ReachedStored
    <3> QED
      BY <3>1 DEF AInv, ByIdentity, LinksUnique
  <2> QED
    BY <2>1, <2>2
<1> QED
  BY <1>1, AccountsInvariance, PTL

\* No provider account is linked to an account it was not created for unless
\* the provider vouched for that account's address.
THEOREM AdoptionsAreProven == Spec => []AdoptionProven
<1>1. AInv => AdoptionProven
  BY DEF AInv
<1> QED
  BY <1>1, AccountsInvariance, PTL

\* Two accounts never share a handle, however handles are made up.
THEOREM HandlesAreUnique == Spec => []HandlesUnique
<1>1. AInv => HandlesUnique
  BY DEF AInv
<1> QED
  BY <1>1, AccountsInvariance, PTL

-----------------------------------------------------------------------------
(* The refinement of Directory.                                            *)

Owners == [way \in Emails \cup Subjects |-> OwnersOf(way)]

\* A step that opens an account does so for a way in, or two, that lead
\* nowhere yet.
LEMMA CreateOpens ==
  ASSUME AInv, NEW r \in Requests, Create(r), users' # users \/ identities' # identities
  PROVE  Promise!Next
<1> DEFINE q == req[r]
           p == q.subject
           a == FreshId
           u == NewUser(q)
           l == LinkOf(q, FreshId)
           e == NormaliseEmail(q.email)
           via == IF p = None THEN {} ELSE {p}
<1>1. /\ q.pc = "creating" /\ q \in RequestWith(q.handle)
      /\ q.email \in Addresses /\ p \in Subjects \cup {None}
      /\ a \in AccountIds /\ a \notin Existing
      /\ ~ (UserCollides(q) \/ LinkCollides(q))
  BY InProgress, Fresh DEF Create, At, Settled, RequestWith
<1>2. /\ users' = [users EXCEPT ![a] = u]
      /\ identities' = IF p = None THEN identities ELSE identities \cup {l}
  BY <1>1 DEF Create
<1>3. /\ \A b \in Existing : users[b].email # e
      /\ p # None => ByIdentity(p) = {}
      /\ u # Absent /\ u.email = e /\ e \in Emails
      /\ l.subject = p /\ l.user = a
  BY <1>1, NewRow, Facts DEF UserCollides, AddressTaken, LinkCollides, LinkOf
<1>4. /\ via \in {{}} \cup {{s} : s \in Subjects}
      /\ \A way \in Emails \cup Subjects : way \in via <=> way = p
      /\ Emails \cap Subjects = {} /\ e \notin Subjects /\ None \notin Subjects
  <2>1. Emails \cap Subjects = {} /\ None \notin Subjects /\ None \notin Emails
    BY AccountsAssumption, Facts
  <2>2. via \in {{}} \cup {{s} : s \in Subjects}
    BY <1>1
  <2>3. \A way \in Emails \cup Subjects : way \in via <=> way = p
    BY <2>1
  <2> QED
    BY <1>3, <2>1, <2>2, <2>3
<1> HIDE DEF u, l, a, e
<1>5. /\ users'[a] = u /\ \A b \in AccountIds : b # a => users'[b] = users[b]
      /\ Existing' = Existing \cup {a}
  BY <1>1, <1>2, <1>3 DEF AInv, Shapes, Existing
<1>6. \A way \in Emails \cup Subjects : a \notin OwnersOf(way)
  BY <1>1 DEF OwnersOf, ByIdentity, AInv
<1>7. \A way \in {e} \cup via : OwnersOf(way) = {}
  BY <1>3, <1>4 DEF OwnersOf
<1>8. ASSUME NEW way \in Emails \cup Subjects
      PROVE  OwnersOf(way)' = IF way \in {e} \cup via THEN {a} ELSE OwnersOf(way)
  <2>1. CASE way \in Subjects
    <3>1. OwnersOf(way)' = {k.user : k \in {x \in identities' : x.subject = way}}
      BY <2>1 DEF OwnersOf, ByIdentity
    <3>2. OwnersOf(way) = {k.user : k \in {x \in identities : x.subject = way}}
      BY <2>1 DEF OwnersOf, ByIdentity
    <3>3. CASE way = p
      BY <1>2, <1>3, <1>4, <1>7, <2>1, <3>1, <3>2, <3>3
    <3>4. CASE way # p
      BY <1>2, <1>3, <1>4, <2>1, <3>1, <3>2, <3>4
    <3> QED
      BY <3>3, <3>4
  <2>2. CASE way \in Emails
    <3>1. /\ OwnersOf(way)' = {b \in Existing' : users'[b].email = way}
          /\ OwnersOf(way) = {b \in Existing : users[b].email = way}
          /\ way \notin via
      BY <1>1, <1>4, <2>2 DEF OwnersOf
    <3>2. \A b \in Existing : users'[b] = users[b]
      BY <1>1, <1>5 DEF Existing
    <3> QED
      BY <1>1, <1>3, <1>5, <3>1, <3>2
  <2> QED
    BY <2>1, <2>2
<1>9. Owners' = [way \in Emails \cup Subjects |->
                   IF way \in {e} \cup via THEN {a} ELSE Owners[way]]
  BY <1>8 DEF Owners
<1>10. /\ \A way \in Emails \cup Subjects : a \notin Owners[way]
       /\ \A way \in {e} \cup via : Owners[way] = {}
  BY <1>1, <1>3, <1>4, <1>6, <1>7 DEF Owners
<1> HIDE DEF via
<1>11. Promise!Open(a, e, via)
  BY <1>9, <1>10 DEF Promise!Open, Promise!Ways, Owners
<1> QED
  BY <1>1, <1>3, <1>4, <1>11 DEF Promise!Next

\* A step that links a provider account joins one that leads nowhere yet to an
\* account that its address leads to.
LEMMA LinkJoins ==
  ASSUME AInv, NEW r \in Requests, Link(r), identities' # identities
  PROVE  Promise!Next
<1> DEFINE q == req[r]
           p == q.subject
           a == q.account
           l == LinkOf(q, q.account)
           e == users[q.account].email
<1>1. /\ p \in Subjects /\ a \in Existing /\ a \in AccountIds
      /\ users' = users
      /\ identities' = identities \cup {l} /\ ~ LinkCollides(q)
  BY InProgress DEF Link, At, Settled, Existing
<1>2. /\ l.subject = p /\ l.user = a /\ ByIdentity(p) = {}
  BY <1>1, AccountsAssumption DEF LinkOf, LinkCollides
<1>3. e \in Emails /\ Emails \cap Subjects = {}
  BY <1>1, AccountsAssumption, Facts DEF AInv, Shapes, UserWith
<1> HIDE DEF l, a
<1>4. OwnersOf(e) = {a}
  BY <1>1, <1>3 DEF OwnersOf, AInv, EmailsUnique, a
<1>5. OwnersOf(p) = {}
  BY <1>1, <1>2 DEF OwnersOf
<1>6. ASSUME NEW way \in Emails \cup Subjects
      PROVE  OwnersOf(way)' = IF way = p THEN {a} ELSE OwnersOf(way)
  <2>1. CASE way \in Subjects
    <3>1. /\ OwnersOf(way)' = {k.user : k \in {x \in identities' : x.subject = way}}
          /\ OwnersOf(way) = {k.user : k \in {x \in identities : x.subject = way}}
      BY <2>1 DEF OwnersOf, ByIdentity
    <3>2. CASE way = p
      BY <1>1, <1>2, <1>5, <3>1, <3>2
    <3>3. CASE way # p
      BY <1>1, <1>2, <3>1, <3>3
    <3> QED
      BY <3>2, <3>3
  <2>2. CASE way \in Emails
    BY <1>1, <1>3, <2>2 DEF OwnersOf, Existing
  <2> QED
    BY <2>1, <2>2
<1>7. Owners' = [Owners EXCEPT ![p] = {a}]
  BY <1>1, <1>6 DEF Owners
<1>8. Owners[p] = {} /\ Owners[e] = {a}
  BY <1>1, <1>3, <1>4, <1>5 DEF Owners
<1> HIDE DEF p
<1>9. Promise!Join(a, p)
  BY <1>3, <1>7, <1>8 DEF Promise!Join, Owners
<1> QED
  BY <1>1, <1>9 DEF Promise!Next, p

\* What a way in leads to is settled once: for any number of sign-ups and
\* provider logins at a time, Accounts implements Directory.
THEOREM AccountsImplementDirectory == Spec => DirectoryKept
<1>1. Init => Promise!Init
  <2> SUFFICES ASSUME Init PROVE Promise!Init
    OBVIOUS
  <2>1. \A way : OwnersOf(way) = {}
    BY DEF Init, OwnersOf, ByIdentity, Existing
  <2> QED
    BY <2>1 DEF Promise!Init, Promise!Ways
<1>2. AInv /\ [Next]_accountVars => [Promise!Next]_Owners
  <2> SUFFICES ASSUME AInv, [Next]_accountVars, Owners' # Owners
               PROVE  Promise!Next
    BY DEF Owners
  <2>1. users' # users \/ identities' # identities
    <3>1. ASSUME users' = users, identities' = identities PROVE Owners' = Owners
      BY <3>1 DEF Owners, OwnersOf, ByIdentity, Existing
    <3> QED
      BY <3>1
  <2>2. PICK r \in Requests : Create(r) \/ Link(r)
    BY <2>1 DEF Next, Register, SignIn, Recognise, Arrive, Adopt, Claim, Try,
                Count, Abort, accountVars
  <2>3. CASE Create(r)
    BY <2>1, <2>3, CreateOpens
  <2>4. CASE Link(r)
    BY <2>1, <2>4, LinkJoins DEF Link
  <2> QED
    BY <2>2, <2>3, <2>4
<1> QED
  BY <1>1, <1>2, AccountsInvariance, PTL
  DEF Spec, DirectoryKept, Promise!Spec, Owners

-----------------------------------------------------------------------------
(* What a handle is made of.                                               *)

\* The part of a name before its "@" is a sequence.
LEMMA LocalPartLength ==
  ASSUME NEW raw \in Seq(Characters)
  PROVE  \E n \in Nat : DOMAIN LocalPart(raw) = 1..n
<1> DEFINE ats == {i \in DOMAIN raw : raw[i] = "@"}
           end == IF ats = {} THEN Len(raw)
                  ELSE (CHOOSE i \in ats : \A j \in ats : i <= j) - 1
<1>1. end \in Nat
  <2>1. CASE ats = {}
    BY <2>1
  <2>2. CASE ats # {}
    <3>1. ats \subseteq Nat /\ \A i \in ats : i \in 1..Len(raw)
      OBVIOUS
    <3>2. \E i \in ats : \A j \in ats : i <= j
      BY <2>2, <3>1, Least
    <3> HIDE DEF ats
    <3>3. (CHOOSE i \in ats : \A j \in ats : i <= j) \in 1..Len(raw)
      BY <3>1, <3>2
    <3> QED
      BY <2>2, <3>3
  <2> QED
    BY <2>1, <2>2
<1>2. DOMAIN LocalPart(raw) = 1..end
  BY DEF LocalPart
<1> QED
  BY <1>1, <1>2

LEMMA CollapsedIsWritten ==
  ASSUME NEW n \in Nat, NEW name, DOMAIN name = 1..n
  PROVE  Collapsed(name) \in Seq(Characters)
<1> DEFINE legal == {i \in DOMAIN name : name[i] \in Alphanumerics}
           kept == {i \in DOMAIN name :
                      i \in legal \/ (i + 1 \in legal /\ \E j \in legal : j < i)}
           kth(k) == CHOOSE i \in kept : Cardinality({j \in kept : j <= i}) = k
           char(k) == IF kth(k) \in legal THEN name[kth(k)] ELSE "-"
<1>1. Collapsed(name) = [k \in 1..Cardinality(kept) |-> char(k)]
  BY DEF Collapsed
<1>2. \A k : char(k) \in Characters
  BY HandlesAssumption
<1>3. Cardinality(kept) \in Nat
  <2>1. IsFiniteSet(1..n) /\ kept \in SUBSET (1..n)
    BY FS_Interval
  <2> HIDE DEF kept
  <2> QED
    BY <2>1, FS_Subset, FS_CardinalityType
<1> HIDE DEF kept, char
<1>4. [k \in 1..Cardinality(kept) |-> char(k)] \in [1..Cardinality(kept) -> Characters]
  BY <1>2
<1> QED
  BY <1>1, <1>3, <1>4, SeqDef

\* What allocate makes handles of.
IsStem(h) == h \in Seq(Characters) /\ h # <<>>

LEMMA CleanIsStem ==
  ASSUME NEW raw \in Seq(Characters), Clean(raw) # <<>>
  PROVE  IsStem(Clean(raw))
<1> DEFINE whole == Collapsed(LocalPart(raw))
<1>1. whole \in Seq(Characters)
  BY LocalPartLength, CollapsedIsWritten
<1>2. Clean(raw) = IF Len(whole) > StemLimit THEN SubSeq(whole, 1, StemLimit) ELSE whole
  BY DEF Clean
<1> HIDE DEF whole
<1>3. CASE Len(whole) > StemLimit
  BY <1>1, <1>2, <1>3, HandlesAssumption DEF IsStem
<1>4. CASE ~ (Len(whole) > StemLimit)
  BY <1>1, <1>2, <1>4 DEF IsStem
<1> QED
  BY <1>3, <1>4

LEMMA FallbackIsStem == IsStem(Fallback)
<1>1. Fallback \in Seq(Characters)
  BY HandlesAssumption, SeqMonotonic
<1> QED
  BY <1>1, HandlesAssumption DEF IsStem

LEMMA StemFromIsStem ==
  ASSUME NEW candidates \in Seq(Seq(Characters))
  PROVE  IsStem(StemFrom(candidates))
<1> DEFINE usable == {i \in DOMAIN candidates : Clean(candidates[i]) # <<>>}
           first == CHOOSE i \in usable : \A j \in usable : i <= j
<1>1. CASE usable = {}
  BY <1>1, FallbackIsStem DEF StemFrom
<1>2. CASE usable # {}
  <2>1. usable \subseteq Nat
    OBVIOUS
  <2>2. first \in usable
    <3> HIDE DEF usable
    <3> QED
      BY <1>2, <2>1, Least
  <2>3. candidates[first] \in Seq(Characters) /\ Clean(candidates[first]) # <<>>
    BY <2>2
  <2>4. StemFrom(candidates) = Clean(candidates[first])
    BY <1>2 DEF StemFrom
  <2> HIDE DEF first
  <2> QED
    BY <2>3, <2>4, CleanIsStem
<1> QED
  BY <1>1, <1>2

LEMMA StemIsStem ==
  ASSUME NEW p \in Subjects \cup {None}, NEW e \in Addresses
  PROVE  IsStem(Stem[p][e])
<1>1. Spelling[e] \in Seq(Characters) /\ (p # None => Spelling[p] \in Seq(Characters))
  BY AccountsAssumption
<1>2. Candidates(p, e) \in Seq(Seq(Characters))
  <2> DEFINE S == Seq(Characters)
  <2> HIDE DEF S
  <2>1. /\ <<Spelling[e]>> \in Seq(S)
        /\ p # None => <<Spelling[p], Spelling[e]>> \in Seq(S)
    BY <1>1 DEF S
  <2> QED
    BY <2>1 DEF Candidates, S
<1>3. Stem[p][e] = StemFrom(Candidates(p, e))
  BY DEF Stem
<1> QED
  BY <1>2, <1>3, StemFromIsStem

\* What a row may carry.
ProperHandle(h) == h \in Seq(Characters) /\ h \notin ReservedHandles

\* Nothing reserved has a suffix.
LEMMA SuffixIsProper ==
  ASSUME NEW stem, IsStem(stem), NEW n \in DOMAIN Decimal
  PROVE  ProperHandle(WithSuffix(stem, n))
<1> DEFINE h == WithSuffix(stem, n)
<1>1. Decimal[n] \in Characters /\ "-" \in Characters
  BY HandlesAssumption
<1>2. /\ h \in Seq(Characters)
      /\ Len(stem) + 1 \in 1..Len(h) /\ h[Len(stem) + 1] = "-"
  <2>1. h = stem \o <<"-", Decimal[n]>> /\ stem \in Seq(Characters)
    BY DEF WithSuffix, IsStem
  <2> HIDE DEF h
  <2> QED
    BY <1>1, <2>1
<1> HIDE DEF h
<1>3. ASSUME h \in Seq(Characters \ {"-"}) PROVE FALSE
  <2>1. h[Len(stem) + 1] \in Characters \ {"-"}
    BY <1>2, <1>3, ElementOfSeq
  <2> QED
    BY <1>2, <2>1
<1>4. h \notin ReservedHandles
  BY <1>3, HandlesAssumption
<1> QED
  BY <1>2, <1>4 DEF ProperHandle, h

LEMMA AttemptIsProper ==
  ASSUME NEW stem, IsStem(stem), NEW n \in 1..MaxSuffix,
         Attempt(stem, n) \notin ReservedHandles
  PROVE  ProperHandle(Attempt(stem, n))
<1>1. CASE n = 1
  BY <1>1 DEF Attempt, IsStem, ProperHandle
<1>2. CASE n # 1
  <2>1. n \in DOMAIN Decimal
    BY <1>2, HandlesAssumption
  <2> QED
    BY <1>2, <2>1, SuffixIsProper DEF Attempt
<1> QED
  BY <1>1, <1>2

LEMMA LastResortIsProper == ProperHandle(LastResort(Cardinality(Existing)))
<1>1. Cardinality(Existing) + 1 \in 1..(Cardinality(AccountIds) + 1)
  <2>1. Existing \in SUBSET AccountIds /\ IsFiniteSet(AccountIds)
    BY AccountsAssumption DEF Existing
  <2>2. /\ IsFiniteSet(Existing)
        /\ Cardinality(Existing) <= Cardinality(AccountIds)
    BY <2>1, FS_Subset
  <2>3. Cardinality(Existing) \in Nat /\ Cardinality(AccountIds) \in Nat
    BY <2>1, <2>2, FS_CardinalityType
  <2> QED
    BY <2>2, <2>3
<1>2. IsStem(Fallback)
  BY FallbackIsStem
<1>3. Cardinality(Existing) + 1 \in DOMAIN Decimal
  BY <1>1, AccountsAssumption
<1> QED
  BY <1>2, <1>3, SuffixIsProper DEF LastResort

-----------------------------------------------------------------------------
(* Requests carry handles that may become rows.                            *)

NamedRequest(q) ==
  /\ q.handle \in Seq(Characters)
  /\ q.suffix \in 1..MaxSuffix
  /\ q.pc = "creating" => ProperHandle(q.handle)

Named ==
  /\ \A a \in Existing : ProperHandle(users[a].handle)
  /\ \A r \in Requests : req[r] # Idle => NamedRequest(req[r])

LEMMA QuietNamed ==
  ASSUME AInv, Named, UNCHANGED users, NEW r \in Requests, NEW q,
         req' = [req EXCEPT ![r] = q], q # Idle => NamedRequest(q)
  PROVE  Named'
<1>1. req'[r] = q /\ \A o \in Requests : o # r => req'[o] = req[o]
  BY DEF AInv, Shapes
<1>2. Existing' = Existing
  BY DEF Existing
<1>3. \A o \in Requests : req'[o] # Idle => NamedRequest(req'[o])
  BY <1>1 DEF Named
<1> QED
  BY <1>2, <1>3 DEF Named

LEMMA NamedInProgress ==
  ASSUME AInv, Named, NEW r \in Requests, req[r].pc # "idle"
  PROVE  NamedRequest(req[r]) /\ req[r] \in RequestWith(req[r].handle)
BY Facts, InProgress DEF Named

\* allocate takes a handle only if it is free, which no reserved one is.
LEMMA TryNames ==
  ASSUME AInv, Named, NEW r \in Requests, Try(r)
  PROVE  Named'
<1> DEFINE q == req[r]
           h == Attempt(Stem[q.subject][q.email], q.suffix)
           found == [q EXCEPT !.pc = "creating", !.handle = h]
           again == [q EXCEPT !.suffix = q.suffix + 1]
           out == [q EXCEPT !.pc = "counting"]
<1>1. /\ q.pc = "naming" /\ NamedRequest(q) /\ q \in RequestWith(q.handle)
      /\ q.subject \in Subjects \cup {None} /\ q.email \in Addresses
      /\ users' = users
  BY NamedInProgress, InProgress DEF Try, At, Settled, RequestWith
<1>2. \/ req' = [req EXCEPT ![r] = found] /\ h \notin ReservedHandles
      \/ req' = [req EXCEPT ![r] = again] /\ q.suffix < MaxSuffix
      \/ req' = [req EXCEPT ![r] = out]
  BY DEF Try, IsFree
<1>3. h \notin ReservedHandles => ProperHandle(h)
  <2>1. IsStem(Stem[q.subject][q.email]) /\ q.suffix \in 1..MaxSuffix
    BY <1>1, StemIsStem DEF NamedRequest
  <2> QED
    BY <2>1, AttemptIsProper
<1> HIDE DEF h
<1>4. h \notin ReservedHandles => NamedRequest(found)
  <2>1. found.handle = h /\ found.suffix = q.suffix
    BY <1>1 DEF RequestWith
  <2> HIDE DEF found
  <2> QED
    BY <1>1, <1>3, <2>1 DEF NamedRequest, ProperHandle
<1>5. q.suffix < MaxSuffix => NamedRequest(again)
  <2>1. again.handle = q.handle /\ again.suffix = q.suffix + 1 /\ again.pc = q.pc
    BY <1>1 DEF RequestWith
  <2> HIDE DEF again
  <2> QED
    BY <1>1, <2>1, HandlesAssumption DEF NamedRequest
<1>6. NamedRequest(out)
  <2>1. out.handle = q.handle /\ out.suffix = q.suffix /\ out.pc = "counting"
    BY <1>1 DEF RequestWith
  <2> HIDE DEF out
  <2> QED
    BY <1>1, <2>1 DEF NamedRequest
<1> HIDE DEF found, again, out
<1> QED
  BY <1>1, <1>2, <1>4, <1>5, <1>6, QuietNamed

LEMMA CountNames ==
  ASSUME AInv, Named, NEW r \in Requests, Count(r)
  PROVE  Named'
<1> DEFINE q == req[r]
           h == LastResort(Cardinality(Existing))
           n == [q EXCEPT !.pc = "creating", !.handle = h]
<1>1. /\ NamedRequest(q) /\ q \in RequestWith(q.handle)
      /\ req' = [req EXCEPT ![r] = n] /\ users' = users
  BY NamedInProgress DEF Count, At
<1>2. ProperHandle(h)
  BY LastResortIsProper
<1> HIDE DEF h
<1>3. n.handle = h /\ n.suffix = q.suffix
  BY <1>1 DEF RequestWith
<1> HIDE DEF n
<1>4. NamedRequest(n)
  BY <1>1, <1>2, <1>3 DEF NamedRequest, ProperHandle
<1> QED
  BY <1>1, <1>4, QuietNamed

\* Steps that neither choose a handle nor write one.
LEMMA QuietNames ==
  ASSUME AInv, Named, NEW r \in Requests,
         \/ Register(r) \/ SignIn(r) \/ Recognise(r)
         \/ \E profile \in Profiles : Arrive(r, profile)
         \/ Adopt(r) \/ Claim(r) \/ Link(r) \/ Abort(r)
  PROVE  Named'
<1> DEFINE q == req[r]
<1>1. users' = users
  BY DEF Register, SignIn, Recognise, Arrive, Adopt, Claim, Link, Abort
<1>2. CASE SignIn(r) \/ Recognise(r)
  BY <1>2 DEF SignIn, Recognise, Named, Existing
<1>3. CASE Finish(r)
  BY <1>1, <1>3, QuietNamed DEF Finish
<1>4. CASE Register(r) \/ \E profile \in Profiles : Arrive(r, profile)
  <2>1. ASSUME NEW pc, pc # "creating", NEW subject, NEW email, NEW verified,
               req' = [req EXCEPT ![r] = Started(pc, subject, email, verified)]
        PROVE  Named'
    <3>1. <<>> \in Seq(Characters) /\ 1 \in 1..MaxSuffix
      BY HandlesAssumption, EmptySeq
    <3>2. NamedRequest(Started(pc, subject, email, verified))
      BY <2>1, <3>1 DEF NamedRequest, Started
    <3> QED
      BY <1>1, <2>1, <3>2, QuietNamed
  <2>2. CASE Register(r)
    BY <2>1, <2>2 DEF Register
  <2>3. ASSUME NEW profile \in Profiles, Arrive(r, profile) PROVE Named'
    <3>1. "adopting" # "creating"
      OBVIOUS
    <3>2. req' = [req EXCEPT ![r] =
            Started("adopting", profile[1], profile[2], profile[3])]
      BY <2>3 DEF Arrive
    <3> QED
      BY <2>1, <3>1, <3>2, Zenon
  <2> QED
    BY <1>4, <2>2, <2>3
<1>5. CASE (Adopt(r) \/ Claim(r)) /\ ~ Finish(r)
  <2>1. NamedRequest(q) /\ q \in RequestWith(q.handle)
    BY <1>5, NamedInProgress DEF Adopt, Claim, At
  <2>2. PICK n : /\ req' = [req EXCEPT ![r] = n]
                 /\ n.handle = q.handle /\ n.suffix = q.suffix
                 /\ n.pc # "creating"
    <3>1. CASE \E a : req' = [req EXCEPT ![r].pc = "linking", ![r].account = a]
      <4>1. PICK a : req' = [req EXCEPT ![r].pc = "linking", ![r].account = a]
        BY <3>1
      <4> WITNESS [q EXCEPT !.pc = "linking", !.account = a]
      <4> QED
        BY <2>1, <4>1 DEF RequestWith
    <3>2. ASSUME NEW pc \in {"claiming", "naming"}, req' = [req EXCEPT ![r].pc = pc]
          PROVE  \E n : /\ req' = [req EXCEPT ![r] = n]
                        /\ n.handle = q.handle /\ n.suffix = q.suffix
                        /\ n.pc # "creating"
      <4> WITNESS [q EXCEPT !.pc = pc]
      <4> QED
        BY <2>1, <3>2 DEF RequestWith
    <3> QED
      BY <1>5, <3>1, <3>2 DEF Adopt, Claim
  <2>3. NamedRequest(n)
    BY <2>1, <2>2 DEF NamedRequest
  <2> QED
    BY <1>1, <2>2, <2>3, QuietNamed
<1> QED
  BY <1>2, <1>3, <1>4, <1>5 DEF Link, Abort

\* The row takes the handle its request carried.
LEMMA CreateNames ==
  ASSUME AInv, Named, NEW r \in Requests, Create(r)
  PROVE  Named'
<1> DEFINE q == req[r]
           a == FreshId
           u == NewUser(q)
<1>1. /\ q.pc = "creating" /\ q \in RequestWith(q.handle)
      /\ q.email \in Addresses /\ NamedRequest(q)
      /\ a \in AccountIds /\ a \notin Existing
      /\ Finish(r)
  BY InProgress, NamedInProgress, Fresh DEF Create, At, Settled
<1>2. CASE users' = users
  BY <1>1, <1>2, QuietNamed DEF Finish
<1>3. CASE users' # users
  <2>1. users' = [users EXCEPT ![a] = u]
    BY <1>3 DEF Create
  <2>2. u # Absent /\ u.handle = q.handle
    BY <1>1, NewRow
  <2> HIDE DEF u, a
  <2>3. /\ users'[a] = u /\ \A b \in AccountIds : b # a => users'[b] = users[b]
        /\ Existing' = Existing \cup {a}
    BY <1>1, <2>1, <2>2 DEF AInv, Shapes, Existing
  <2>4. ASSUME NEW b \in Existing' PROVE ProperHandle(users'[b].handle)
    <3>1. CASE b = a
      BY <1>1, <2>2, <2>3, <3>1 DEF NamedRequest
    <3>2. CASE b # a
      BY <2>3, <2>4, <3>2 DEF Named, Existing
    <3> QED
      BY <3>1, <3>2
  <2>5. \A o \in Requests : req'[o] # Idle => NamedRequest(req'[o])
    BY <1>1 DEF Finish, Named, AInv, Shapes
  <2> QED
    BY <2>4, <2>5 DEF Named
<1> QED
  BY <1>2, <1>3

LEMMA StepNamed == AInv /\ Named /\ [Next]_accountVars => Named'
<1> SUFFICES ASSUME AInv, Named, [Next]_accountVars PROVE Named'
  OBVIOUS
<1>1. CASE UNCHANGED accountVars
  BY <1>1 DEF accountVars, Named, Existing
<1>2. CASE Next
  BY <1>2, QuietNames, TryNames, CountNames, CreateNames DEF Next
<1> QED
  BY <1>1, <1>2

LEMMA InitNamed == Init => Named
<1>1. Init => Existing = {} /\ \A r \in Requests : req[r] = Idle
  BY DEF Init, Existing
<1> QED
  BY <1>1 DEF Named

LEMMA NamedInvariance == Spec => []Named
BY AccountsInvariance, InitNamed, StepNamed, PTL DEF Spec

\* Whatever names are written in, however many accounts there are, no account
\* has a reserved handle.
THEOREM HandlesAreNotReserved == Spec => []NothingReserved
<1>1. Named => NothingReserved
  BY DEF Named, ProperHandle, NothingReserved
<1> QED
  BY <1>1, NamedInvariance, PTL

\* Rows, links and requests keep their shapes.
THEOREM AccountsTypeCorrect == Spec => []AccountsTypeOK
<1>1. ASSUME AInv, Named PROVE AccountsTypeOK
  <2>1. ASSUME NEW a \in AccountIds PROVE users[a] \in User \cup {Absent}
    <3>1. CASE users[a] = Absent
      BY <3>1
    <3>2. CASE users[a] # Absent
      <4>1. /\ users[a] \in UserWith(users[a].handle)
            /\ users[a].handle \in Seq(Characters)
        BY <1>1, <3>2 DEF AInv, Shapes, Named, Existing, ProperHandle
      <4> QED
        BY <4>1 DEF UserWith, User
    <3> QED
      BY <3>1, <3>2
  <2>2. ASSUME NEW r \in Requests PROVE req[r] \in Request \cup {Idle}
    <3>1. CASE req[r] # Idle
      <4>1. /\ req[r] \in RequestWith(req[r].handle)
            /\ req[r].handle \in Seq(Characters)
        BY <1>1, <3>1 DEF AInv, Shapes, Named, NamedRequest
      <4> QED
        BY <4>1 DEF RequestWith, Request
    <3> QED
      BY <3>1
  <2> QED
    BY <1>1, <2>1, <2>2 DEF AInv, Shapes, AccountsTypeOK
<1> QED
  BY <1>1, AccountsInvariance, NamedInvariance, PTL

=============================================================================
