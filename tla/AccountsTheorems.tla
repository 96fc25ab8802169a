--------------------------- MODULE AccountsTheorems --------------------------
(***************************************************************************)
(* Theorems about Accounts, for every number of calls in flight: racing    *)
(* sign-ins and provisioning lead a person to one user, and calls that     *)
(* have passed the key count exceed the maximum by less than their number. *)
(***************************************************************************)
EXTENDS Accounts, FiniteSetTheorems, TLAPS

USE EmailAssumption, ClerkAssumption, NoOneAssumption, MaxKeysAssumption, BoundAssumption

-----------------------------------------------------------------------------
(* The inductive invariant *)

UniqueEmails == \A u, v \in UserIds : email[u] # NoOne /\ email[u] = email[v] => u = v
LinkedByEmail == \A i \in Identities : identity[i] # NoOne => email[identity[i]] = EmailOf[i]

AInv == AccountsTyped /\ KnownUsers /\ UniqueEmails /\ LinkedByEmail /\ KeysAreBounded

LEMMA CallFacts ==
    ASSUME AccountsTyped, NEW c \in Calls
    PROVE  /\ call[c].at \in {"link", "key", "idle"}
           /\ call[c].at = "link" => call[c].who \in Identities
           /\ call[c].at = "key" => call[c].who \in UserIds
           /\ call[c] # Ended => call[c].at \in {"link", "key"}
           /\ Ended.at = "idle"
  BY DEF AccountsTyped, Ended

LEMMA KeyFacts ==
    ASSUME AccountsTyped, NEW p \in KeyPrefixes
    PROVE  /\ key[p].user \in UserIds \cup {NoOne} /\ key[p].active \in BOOLEAN
           /\ key[p] = NoKey => key[p].user = NoOne
           /\ NoKey \in [user : UserIds \cup {NoOne}, active : BOOLEAN]
  BY DEF AccountsTyped, NoKey

LEMMA Countable ==
    ASSUME NEW u
    PROVE  /\ IsFiniteSet(ActiveKeys(u)) /\ Cardinality(ActiveKeys(u)) \in Nat
           /\ IsFiniteSet(Creating(u)) /\ Cardinality(Creating(u)) \in Nat
           /\ Cardinality(Calls) \in Nat /\ Cardinality(Creating(u)) <= Cardinality(Calls)
<1>1. IsFiniteSet(Calls) /\ IsFiniteSet(KeyPrefixes)
  BY FiniteCallsAssumption
<1>2. ActiveKeys(u) \subseteq KeyPrefixes /\ Creating(u) \subseteq Calls
  BY DEF ActiveKeys, Creating
<1> QED
  BY <1>1, <1>2, FS_Subset, FS_CardinalityType

LEMMA AInvInit == AccountsInit => AInv
<1> SUFFICES ASSUME AccountsInit PROVE AInv
  OBVIOUS
<1>1. AccountsTyped
  BY DEF AccountsInit, AccountsTyped, NoKey, Ended
<1>2. UniqueEmails /\ LinkedByEmail
  BY DEF AccountsInit, UniqueEmails, LinkedByEmail
<1>3. KnownUsers
  BY DEF AccountsInit, KnownUsers, NoKey, Ended
<1>4. ASSUME NEW u \in UserIds
      PROVE  Cardinality(ActiveKeys(u)) + Cardinality(Creating(u)) < MaxKeys + Cardinality(Calls)
  <2>1. ActiveKeys(u) = {}
    BY DEF AccountsInit, ActiveKeys, NoKey
  <2>2. Cardinality(ActiveKeys(u)) = 0
    BY <2>1, FS_EmptySet
  <2> QED
    BY <2>2, Countable
<1> QED
  BY <1>1, <1>2, <1>3, <1>4 DEF AInv, KeysAreBounded

-----------------------------------------------------------------------------
(* Users and identities *)

\* A step that inserts user u for address e.
LEMMA InsertedUser ==
    ASSUME AInv, NEW u \in UserIds, NEW e \in Emails, InsertUser(u, e)
    PROVE  /\ email' \in [UserIds -> Emails \cup {NoOne}]
           /\ email[u] = NoOne /\ email'[u] = e /\ e # NoOne
           /\ \A v \in UserIds \ {u} : email'[v] = email[v]
           /\ UniqueEmails'
<1>1. /\ email \in [UserIds -> Emails \cup {NoOne}] /\ email[u] = NoOne
      /\ email' = [email EXCEPT ![u] = e] /\ \A v \in UserIds : email[v] # e
  BY DEF AInv, AccountsTyped, InsertUser
<1>2. /\ email' \in [UserIds -> Emails \cup {NoOne}] /\ email'[u] = e /\ e # NoOne
      /\ \A v \in UserIds \ {u} : email'[v] = email[v]
  BY <1>1
<1>3. UniqueEmails'
  BY <1>1, <1>2 DEF AInv, UniqueEmails
<1> QED
  BY <1>1, <1>2, <1>3

\* Known users stay known when no row goes and the new ones are of known users.
EmailsStay == \A u \in UserIds : email[u] # NoOne => email'[u] = email[u]

-----------------------------------------------------------------------------
(* Counting keys *)

\* A user who has no more keys and calls creating one than before.
LEMMA NoMore ==
    ASSUME AInv, NEW u \in UserIds,
           ActiveKeys(u)' \subseteq ActiveKeys(u), Creating(u)' \subseteq Creating(u)
    PROVE  Cardinality(ActiveKeys(u)') + Cardinality(Creating(u)') < MaxKeys + Cardinality(Calls)
<1>1. /\ Cardinality(ActiveKeys(u)') <= Cardinality(ActiveKeys(u))
      /\ Cardinality(Creating(u)') <= Cardinality(Creating(u))
      /\ Cardinality(ActiveKeys(u)') \in Nat /\ Cardinality(Creating(u)') \in Nat
  BY Countable, FS_Subset, FS_CardinalityType
<1>2. Cardinality(ActiveKeys(u)) + Cardinality(Creating(u)) < MaxKeys + Cardinality(Calls)
  BY DEF AInv, KeysAreBounded
<1> QED
  BY <1>1, <1>2, Countable

\* A user who has been counted, or is new, and has keys to spare.
LEMMA Counted ==
    ASSUME NEW u, Cardinality(ActiveKeys(u)) < MaxKeys, ActiveKeys(u)' = ActiveKeys(u)
    PROVE  Cardinality(ActiveKeys(u)') + Cardinality(Creating(u)') < MaxKeys + Cardinality(Calls)
<1>1. Creating(u)' \subseteq Calls
  BY DEF Creating
<1>2. Cardinality(Creating(u)') <= Cardinality(Calls) /\ Cardinality(Creating(u)') \in Nat
  BY <1>1, FiniteCallsAssumption, FS_Subset, FS_CardinalityType
<1>3. Cardinality(ActiveKeys(u)') = Cardinality(ActiveKeys(u))
  OBVIOUS
<1> QED
  BY <1>2, <1>3, Countable

\* A key is created for the call that asked for it.
LEMMA Created ==
    ASSUME AInv, NEW u \in UserIds, NEW p, NEW c,
           p \notin ActiveKeys(u), ActiveKeys(u)' = ActiveKeys(u) \cup {p},
           c \in Creating(u), Creating(u)' = Creating(u) \ {c}
    PROVE  Cardinality(ActiveKeys(u)') + Cardinality(Creating(u)') < MaxKeys + Cardinality(Calls)
<1>1. Cardinality(ActiveKeys(u) \cup {p}) = Cardinality(ActiveKeys(u)) + 1
  BY Countable, FS_AddElement
<1>2. Cardinality(Creating(u) \ {c}) = Cardinality(Creating(u)) - 1
  BY Countable, FS_RemoveElement
<1>3. Cardinality(ActiveKeys(u)) + Cardinality(Creating(u)) < MaxKeys + Cardinality(Calls)
  BY DEF AInv, KeysAreBounded
<1>4. /\ Cardinality(ActiveKeys(u)') = Cardinality(ActiveKeys(u)) + 1
      /\ Cardinality(Creating(u)') = Cardinality(Creating(u)) - 1
  BY <1>1, <1>2
<1> QED
  BY <1>3, <1>4, Countable

-----------------------------------------------------------------------------
(* Every step keeps the invariant *)

LEMMA NoMoreKeys ==
    ASSUME AInv, \A u \in UserIds : ActiveKeys(u)' \subseteq ActiveKeys(u)
                                    /\ Creating(u)' \subseteq Creating(u)
    PROVE  KeysAreBounded'
  BY NoMore DEF KeysAreBounded

\* A call that ends.
LEMMA Left ==
    ASSUME AccountsTyped, NEW c \in Calls, Leave(c)
    PROVE  /\ call' \in [Calls -> [at : {"link"}, who : Identities]
                                  \cup [at : {"key"}, who : UserIds] \cup {Ended}]
           /\ call'[c] = Ended /\ \A d \in Calls \ {c} : call'[d] = call[d]
           /\ \A u \in UserIds : Creating(u)' = Creating(u) \ {c}
<1>1. /\ call' \in [Calls -> [at : {"link"}, who : Identities]
                             \cup [at : {"key"}, who : UserIds] \cup {Ended}]
      /\ call'[c] = Ended /\ \A d \in Calls \ {c} : call'[d] = call[d]
  BY DEF AccountsTyped, Leave
<1> QED
  BY <1>1 DEF Creating, Ended

\* A call that begins.
LEMMA Entered ==
    ASSUME AccountsTyped, NEW c \in Calls, NEW statement, NEW x, Enter(c, statement, x),
           (statement = "link" /\ x \in Identities) \/ (statement = "key" /\ x \in UserIds)
    PROVE  /\ call' \in [Calls -> [at : {"link"}, who : Identities]
                                  \cup [at : {"key"}, who : UserIds] \cup {Ended}]
           /\ call'[c].at = statement /\ call'[c].who = x
           /\ \A d \in Calls \ {c} : call'[d] = call[d]
           /\ \A u \in UserIds : statement = "link" \/ u # x => Creating(u)' = Creating(u)
<1>1. /\ call' \in [Calls -> [at : {"link"}, who : Identities]
                             \cup [at : {"key"}, who : UserIds] \cup {Ended}]
      /\ call'[c] = [at |-> statement, who |-> x] /\ \A d \in Calls \ {c} : call'[d] = call[d]
      /\ call[c] = Ended
  BY DEF AccountsTyped, Enter
<1>2. call'[c].at = statement /\ call'[c].who = x /\ call[c].at = "idle"
  BY <1>1 DEF Ended
<1> QED
  BY <1>1, <1>2 DEF Creating

LEMMA LinkKeepsInv ==
    ASSUME AInv, NEW c \in Calls, LinkIdentity(c)
    PROVE  AInv'
<1>1. /\ AccountsTyped /\ call[c].at = "link" /\ call[c].who \in Identities
      /\ Leave(c) /\ UNCHANGED <<key, session, revoked, expired, faults>>
  BY CallFacts DEF LinkIdentity, AInv
<1> DEFINE i == call[c].who
<1>2. KeysAreBounded'
  <2>1. \A u \in UserIds : ActiveKeys(u)' = ActiveKeys(u) /\ Creating(u)' \subseteq Creating(u)
    BY <1>1, Left DEF ActiveKeys
  <2> QED
    BY <2>1, NoMoreKeys
<1>3. ASSUME NEW u \in UserIds, identity' = [identity EXCEPT ![i] = u],
             InsertUser(u, EmailOf[i]) \/ (email' = email /\ email[u] = EmailOf[i])
      PROVE  AInv'
  <2>1. EmailOf[i] \in Emails
    BY <1>1
  <2>2. /\ email' \in [UserIds -> Emails \cup {NoOne}] /\ UniqueEmails'
        /\ email'[u] = EmailOf[i] /\ email'[u] # NoOne /\ EmailsStay
    BY <1>3, <2>1, InsertedUser DEF AInv, AccountsTyped, UniqueEmails, EmailsStay
  <2>3. identity' \in [Identities -> UserIds \cup {NoOne}]
        /\ identity'[i] = u /\ \A j \in Identities \ {i} : identity'[j] = identity[j]
    BY <1>1, <1>3 DEF AccountsTyped
  <2>4. AccountsTyped'
    BY <1>1, <2>2, <2>3, Left DEF AccountsTyped
  <2>5. \A p \in KeyPrefixes : key'[p].user # NoOne => email'[key'[p].user] # NoOne
    BY <1>1, <2>2, KeyFacts DEF AInv, KnownUsers, EmailsStay
  <2>6. \A d \in Calls : call'[d].at = "key" => email'[call'[d].who] # NoOne
    <3>1. ASSUME NEW d \in Calls, call'[d].at = "key" PROVE email'[call'[d].who] # NoOne
      <4>1. d # c /\ call'[d] = call[d]
        BY <1>1, <3>1, Left DEF Ended
      <4>2. call[d].who \in UserIds /\ email[call[d].who] # NoOne
        BY <1>1, <3>1, <4>1, CallFacts DEF AInv, KnownUsers
      <4> QED
        BY <2>2, <4>1, <4>2 DEF EmailsStay
    <3> QED
      BY <3>1
  <2>7. \A j \in Identities : identity'[j] # NoOne => email'[identity'[j]] # NoOne
    BY <2>2, <2>3 DEF AInv, AccountsTyped, KnownUsers, EmailsStay
  <2>8. \A s \in Cookies : session'[s] # NoOne => email'[session'[s]] # NoOne
    BY <1>1, <2>2 DEF AInv, AccountsTyped, KnownUsers, EmailsStay
  <2>9. LinkedByEmail'
    BY <2>2, <2>3 DEF AInv, AccountsTyped, KnownUsers, LinkedByEmail, EmailsStay
  <2> QED
    BY <1>2, <2>2, <2>4, <2>5, <2>6, <2>7, <2>8, <2>9 DEF AInv, KnownUsers
<1>4. CASE UNCHANGED <<email, identity>>
  <2>1. AccountsTyped' /\ UniqueEmails' /\ LinkedByEmail'
    BY <1>1, <1>4, Left DEF AInv, AccountsTyped, UniqueEmails, LinkedByEmail
  <2>2. KnownUsers'
    BY <1>1, <1>4, Left DEF AInv, KnownUsers, Ended
  <2> QED
    BY <1>2, <2>1, <2>2 DEF AInv
<1>5. \/ UNCHANGED <<email, identity>>
      \/ \E u \in UserIds : identity' = [identity EXCEPT ![i] = u]
                            /\ (InsertUser(u, EmailOf[i]) \/ (email' = email /\ email[u] = EmailOf[i]))
  BY <1>1 DEF LinkIdentity
<1> QED
  BY <1>3, <1>4, <1>5

LEMMA ProvisionKeepsInv ==
    ASSUME AInv, NEW c \in Calls, NEW e \in Emails, ProvisionUser(c, e)
    PROVE  AInv'
<1>1. PICK u \in UserIds : InsertUser(u, e) /\ Enter(c, "key", u)
  BY DEF ProvisionUser
<1>2. AccountsTyped /\ UNCHANGED <<identity, key, session, revoked, expired, faults>>
  BY DEF ProvisionUser, AInv
<1>3. /\ email' \in [UserIds -> Emails \cup {NoOne}] /\ UniqueEmails'
      /\ email[u] = NoOne /\ email'[u] # NoOne /\ EmailsStay
  BY <1>1, InsertedUser DEF EmailsStay
<1>4. /\ call' \in [Calls -> [at : {"link"}, who : Identities]
                             \cup [at : {"key"}, who : UserIds] \cup {Ended}]
      /\ call'[c].at = "key" /\ call'[c].who = u
      /\ \A d \in Calls \ {c} : call'[d] = call[d]
      /\ \A v \in UserIds \ {u} : Creating(v)' = Creating(v)
  BY <1>1, <1>2, Entered
<1>5. AccountsTyped'
  BY <1>2, <1>3, <1>4 DEF AccountsTyped
<1>6. \A v \in UserIds : ActiveKeys(v)' = ActiveKeys(v)
  BY <1>2 DEF ActiveKeys
<1>7. KeysAreBounded'
  <2>1. ActiveKeys(u) = {}
    BY <1>3 DEF AInv, KnownUsers, ActiveKeys
  <2>2. Cardinality(ActiveKeys(u)) < MaxKeys
    BY <2>1, FS_EmptySet
  <2>3. Cardinality(ActiveKeys(u)') + Cardinality(Creating(u)') < MaxKeys + Cardinality(Calls)
    BY <1>6, <2>2, Counted
  <2>4. \A v \in UserIds \ {u} :
           Cardinality(ActiveKeys(v)') + Cardinality(Creating(v)') < MaxKeys + Cardinality(Calls)
    BY <1>4, <1>6, NoMore
  <2> QED
    BY <2>3, <2>4 DEF KeysAreBounded
<1>8. KnownUsers'
  <2>1. \A p \in KeyPrefixes : key'[p].user # NoOne => email'[key'[p].user] # NoOne
    BY <1>2, <1>3, KeyFacts DEF AInv, KnownUsers, EmailsStay
  <2>2. \A d \in Calls : call'[d].at = "key" => email'[call'[d].who] # NoOne
    BY <1>2, <1>3, <1>4, CallFacts DEF AInv, KnownUsers, EmailsStay
  <2>3. \A j \in Identities : identity'[j] # NoOne => email'[identity'[j]] # NoOne
    BY <1>2, <1>3 DEF AInv, AccountsTyped, KnownUsers, EmailsStay
  <2>4. \A s \in Cookies : session'[s] # NoOne => email'[session'[s]] # NoOne
    BY <1>2, <1>3 DEF AInv, AccountsTyped, KnownUsers, EmailsStay
  <2> QED
    BY <2>1, <2>2, <2>3, <2>4 DEF KnownUsers
<1>9. LinkedByEmail'
  BY <1>2, <1>3 DEF AInv, AccountsTyped, KnownUsers, LinkedByEmail, EmailsStay
<1> QED
  BY <1>3, <1>5, <1>7, <1>8, <1>9 DEF AInv

LEMMA EntersKeepInv ==
    ASSUME AInv, NEW c \in Calls,
           (\E i \in Identities : SignIn(c, i)) \/ (\E u \in UserIds : CountKeys(c, u))
    PROVE  AInv'
<1>1. AccountsTyped /\ UNCHANGED <<email, identity, key, session, revoked, expired, faults>>
  BY DEF SignIn, CountKeys, AInv
<1>2. \A u \in UserIds : ActiveKeys(u)' = ActiveKeys(u)
  BY <1>1 DEF ActiveKeys
<1>3. PICK statement, x : /\ Enter(c, statement, x)
                          /\ \/ statement = "link" /\ x \in Identities
                             \/ /\ statement = "key" /\ x \in UserIds /\ email[x] # NoOne
                                /\ Cardinality(ActiveKeys(x)) < MaxKeys
  <2>1. CASE \E i \in Identities : SignIn(c, i)
    BY <2>1 DEF SignIn
  <2>2. CASE \E u \in UserIds : CountKeys(c, u)
    <3>1. PICK u \in UserIds : CountKeys(c, u)
      BY <2>2
    <3>2. email[u] # NoOne
      BY <3>1 DEF CountKeys, RequirePortalUser, LookupAuthSession, AInv, KnownUsers
    <3> QED
      BY <3>1, <3>2 DEF CountKeys
  <2> QED
    BY <2>1, <2>2
<1>4. /\ call' \in [Calls -> [at : {"link"}, who : Identities]
                             \cup [at : {"key"}, who : UserIds] \cup {Ended}]
      /\ call'[c].at = statement /\ call'[c].who = x
      /\ \A d \in Calls \ {c} : call'[d] = call[d]
      /\ \A u \in UserIds : statement = "link" \/ u # x => Creating(u)' = Creating(u)
  BY <1>1, <1>3, Entered
<1>5. AccountsTyped' /\ UniqueEmails' /\ LinkedByEmail'
  BY <1>1, <1>4 DEF AInv, AccountsTyped, UniqueEmails, LinkedByEmail
<1>6. KnownUsers'
  BY <1>1, <1>3, <1>4 DEF AInv, KnownUsers
<1>7. KeysAreBounded'
  <2>1. ASSUME NEW u \in UserIds
        PROVE  Cardinality(ActiveKeys(u)') + Cardinality(Creating(u)') < MaxKeys + Cardinality(Calls)
    <3>1. CASE statement = "link" \/ u # x
      BY <1>2, <1>4, <3>1, NoMore
    <3>2. CASE statement # "link" /\ u = x
      BY <1>2, <1>3, <3>2, Counted
    <3> QED
      BY <3>1, <3>2
  <2> QED
    BY <2>1 DEF KeysAreBounded
<1> QED
  BY <1>5, <1>6, <1>7 DEF AInv

LEMMA InsertKeepsInv ==
    ASSUME AInv, NEW c \in Calls, InsertKey(c)
    PROVE  AInv'
<1>1. /\ AccountsTyped /\ call[c].at = "key" /\ call[c].who \in UserIds
      /\ Leave(c) /\ UNCHANGED <<email, identity, session, revoked, expired, faults>>
  BY CallFacts DEF InsertKey, AInv
<1> DEFINE u == call[c].who
<1>2. email[u] # NoOne /\ c \in Creating(u)
  BY <1>1 DEF AInv, KnownUsers, Creating
<1>3. /\ call' \in [Calls -> [at : {"link"}, who : Identities]
                             \cup [at : {"key"}, who : UserIds] \cup {Ended}]
      /\ call'[c] = Ended /\ \A d \in Calls \ {c} : call'[d] = call[d]
      /\ \A v \in UserIds : Creating(v)' = Creating(v) \ {c}
  BY <1>1, Left
<1>4. ASSUME key' \in [KeyPrefixes -> [user : UserIds \cup {NoOne}, active : BOOLEAN]],
             \A p \in KeyPrefixes : key'[p].user \in {key[p].user, u},
             KeysAreBounded'
      PROVE  AInv'
  <2>1. AccountsTyped' /\ UniqueEmails' /\ LinkedByEmail'
    BY <1>1, <1>3, <1>4 DEF AInv, AccountsTyped, UniqueEmails, LinkedByEmail
  <2>2. KnownUsers'
    BY <1>1, <1>2, <1>3, <1>4 DEF AInv, KnownUsers, Ended
  <2> QED
    BY <1>4, <2>1, <2>2 DEF AInv
<1>5. CASE UNCHANGED key
  <2>1. KeysAreBounded'
    BY <1>3, <1>5, NoMoreKeys DEF ActiveKeys
  <2> QED
    BY <1>1, <1>4, <1>5, <2>1 DEF AccountsTyped
<1>6. ASSUME NEW p \in KeyPrefixes, key[p] = NoKey,
             key' = [key EXCEPT ![p] = [user |-> u, active |-> TRUE]]
      PROVE  AInv'
  <2>1. /\ key' \in [KeyPrefixes -> [user : UserIds \cup {NoOne}, active : BOOLEAN]]
        /\ key'[p].user = u /\ key'[p].active
        /\ \A r \in KeyPrefixes \ {p} : key'[r] = key[r]
    BY <1>1, <1>6 DEF AccountsTyped
  <2>2. key[p].user = NoOne /\ NoOne \notin UserIds
    BY <1>6 DEF NoKey
  <2>3. ASSUME NEW v \in UserIds
        PROVE  Cardinality(ActiveKeys(v)') + Cardinality(Creating(v)') < MaxKeys + Cardinality(Calls)
    <3>1. CASE v = u
      <4>1. \A r \in KeyPrefixes : (key'[r].user = v /\ key'[r].active)
                                   <=> ((key[r].user = v /\ key[r].active) \/ r = p)
        BY <2>1, <3>1
      <4>2. p \notin ActiveKeys(v)
        BY <2>2 DEF ActiveKeys
      <4>3. ActiveKeys(v)' = ActiveKeys(v) \cup {p}
        BY <4>1 DEF ActiveKeys
      <4>4. c \in Creating(v) /\ Creating(v)' = Creating(v) \ {c}
        BY <1>2, <1>3, <3>1
      <4> QED
        BY <4>2, <4>3, <4>4, Created
    <3>2. CASE v # u
      <4>1. ActiveKeys(v)' = ActiveKeys(v)
        BY <2>1, <2>2, <3>2 DEF ActiveKeys
      <4>2. Creating(v)' \subseteq Creating(v)
        BY <1>3
      <4> QED
        BY <4>1, <4>2, NoMore
    <3> QED
      BY <3>1, <3>2
  <2> QED
    BY <1>4, <2>1, <2>3 DEF KeysAreBounded
<1> QED
  BY <1>5, <1>6 DEF InsertKey

LEMMA RevokeKeepsInv ==
    ASSUME AInv, NEW p \in KeyPrefixes, HandlePortalRevokeKey(p)
    PROVE  AInv'
<1>1. /\ key[p].active /\ key' = [key EXCEPT ![p] = [key[p] EXCEPT !.active = FALSE]]
      /\ UNCHANGED <<email, identity, call, session, revoked, expired, faults>>
  BY DEF HandlePortalRevokeKey, RevokeAPIKey
<1>2. /\ key' \in [KeyPrefixes -> [user : UserIds \cup {NoOne}, active : BOOLEAN]]
      /\ key'[p].user = key[p].user /\ ~key'[p].active
      /\ \A r \in KeyPrefixes \ {p} : key'[r] = key[r]
  BY <1>1 DEF AInv, AccountsTyped
<1>3. AccountsTyped' /\ UniqueEmails' /\ LinkedByEmail' /\ KnownUsers'
  BY <1>1, <1>2 DEF AInv, AccountsTyped, UniqueEmails, LinkedByEmail, KnownUsers
<1>4. \A u \in UserIds : ActiveKeys(u)' \subseteq ActiveKeys(u) /\ Creating(u)' = Creating(u)
  BY <1>1, <1>2 DEF ActiveKeys, Creating
<1> QED
  BY <1>3, <1>4, NoMoreKeys DEF AInv

LEMMA FailKeepsInv ==
    ASSUME AInv, NEW c \in Calls, CallFails(c)
    PROVE  AInv'
<1>1. AccountsTyped /\ Leave(c) /\ UNCHANGED <<email, identity, key, session, revoked, expired>>
      /\ faults' \in 0 .. MaxFaults
  BY DEF CallFails, AInv, AccountsTyped
<1>2. AccountsTyped' /\ UniqueEmails' /\ LinkedByEmail'
  BY <1>1, Left DEF AInv, AccountsTyped, UniqueEmails, LinkedByEmail
<1>3. KnownUsers'
  BY <1>1, Left DEF AInv, KnownUsers, Ended
<1>4. \A u \in UserIds : ActiveKeys(u)' = ActiveKeys(u) /\ Creating(u)' \subseteq Creating(u)
  BY <1>1, Left DEF ActiveKeys
<1> QED
  BY <1>2, <1>3, <1>4, NoMoreKeys DEF AInv

\* A session is only of a user there is; the rest of the invariant is not
\* about sessions.
LEMMA SessionsKeepInv ==
    ASSUME AInv, UNCHANGED <<email, identity, key, call, faults>>,
           session' \in [Cookies -> UserIds \cup {NoOne}],
           \A s \in Cookies : session'[s] # NoOne => email[session'[s]] # NoOne,
           revoked' \subseteq Cookies, expired' \subseteq Cookies
    PROVE  AInv'
  BY DEF AInv, AccountsTyped, UniqueEmails, LinkedByEmail, KnownUsers, KeysAreBounded,
         ActiveKeys, Creating

LEMMA AInvNext == AInv /\ [AccountsNext]_accountVars => AInv'
<1> SUFFICES ASSUME AInv, [AccountsNext]_accountVars PROVE AInv'
  OBVIOUS
<1>1. CASE UNCHANGED accountVars
  BY <1>1, SessionsKeepInv DEF accountVars, AInv, AccountsTyped, KnownUsers
<1>2. ASSUME NEW s \in Cookies, NEW i \in Identities, HandlePortalDevLogin(s, i) PROVE AInv'
  BY <1>2, SessionsKeepInv DEF HandlePortalDevLogin, CreateAuthSession, AInv, AccountsTyped, KnownUsers
<1>3. ASSUME NEW s \in Cookies, HandlePortalLogout(s) \/ SessionTimesOut(s) PROVE AInv'
  BY <1>3, SessionsKeepInv DEF HandlePortalLogout, RevokeAuthSession, SessionTimesOut,
     AInv, AccountsTyped, KnownUsers
<1> QED
  BY <1>1, <1>2, <1>3, EntersKeepInv, ProvisionKeepsInv, LinkKeepsInv, InsertKeepsInv,
     FailKeepsInv, RevokeKeepsInv DEF AccountsNext

LEMMA AInvHolds == AccountsSpec => []AInv
  BY AInvInit, AInvNext, PTL DEF AccountsSpec

-----------------------------------------------------------------------------
(* The theorems *)

\* Rows, calls and sessions hold what they may hold, and are of users there are
\* (auth.go EnsureOAuthUser, mgmt.go HandleProvision, portal.go issueSession).
THEOREM AccountsTypes == AccountsSpec => []AccountsTypeOK
<1>1. AInv => AccountsTypeOK
  BY DEF AInv, AccountsTypeOK
<1> QED
  BY AInvHolds, <1>1, PTL

\* However first sign-ins and provisioning race, the identities of one address
\* lead to one user: the transaction finds the row another call inserted, and
\* the row that an identity leads to stays the only one of its address.
THEOREM PeopleHaveOneUser == AccountsSpec => []OneUserPerPerson
<1>1. ASSUME AInv PROVE OneUserPerPerson
  <2>1. ASSUME NEW i \in Identities, NEW j \in Identities,
               identity[i] # NoOne, identity[j] # NoOne, EmailOf[i] = EmailOf[j]
        PROVE  identity[i] = identity[j]
    <3>1. identity[i] \in UserIds /\ identity[j] \in UserIds /\ EmailOf[i] # NoOne
      BY <1>1, <2>1 DEF AInv, AccountsTyped
    <3>2. email[identity[i]] = EmailOf[i] /\ email[identity[j]] = EmailOf[i]
      BY <1>1, <2>1 DEF AInv, LinkedByEmail
    <3> QED
      BY <1>1, <3>1, <3>2 DEF AInv, UniqueEmails
  <2> QED
    BY <2>1 DEF OneUserPerPerson
<1> QED
  BY AInvHolds, <1>1, PTL

\* With n calls in flight a user has at most n - 1 active keys beyond the
\* maximum (portal.go HandlePortalCreateKey, auth.go CountActiveAPIKeys).
THEOREM KeysStayBounded == AccountsSpec => []KeysAreBounded
<1>1. AInv => KeysAreBounded
  BY DEF AInv
<1> QED
  BY AInvHolds, <1>1, PTL
==============================================================================
