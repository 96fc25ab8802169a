------------------------------ MODULE Accounts ------------------------------
(***************************************************************************)
(* User rows, the sign-in identities linked to them, API keys and cookie   *)
(* sessions (internal/billing/auth.go, admin.go), as the portal and the    *)
(* management API drive them.  A first sign-in looks its identity up and   *)
(* creates or links the user in a transaction of its own; a portal call    *)
(* counts the user's keys and then creates one; provisioning creates a     *)
(* user and then their key.  Calls interleave between these statements,    *)
(* and a statement may fail, which ends its call.                          *)
(*                                                                         *)
(* An operator named Bug... is a wrong version of the one that follows it, *)
(* used to see a property fail; no specification refers to it.             *)
(***************************************************************************)
EXTENDS Integers, FiniteSets

CONSTANTS
    Emails,         \* addresses as they are spelled
    Identities,     \* <<provider, subject>> of a sign-in
    ClerkIdentities,\* those that send Clerk's bearer token with every call
    EmailOf,        \* EmailOf[i]: the address of identity i, in lower case
    NoOne,          \* no user, no address
    KeyPrefixes,    \* what the first six characters of a key can be
    MaxKeys,        \* TOKENGUARD_PORTAL_MAX_KEYS
    Cookies,        \* session tokens
    Calls,          \* calls in flight
    MaxUsers,       \* bound: user ids are 1 .. MaxUsers
    MaxFaults       \* bound: statements that fail

UserIds == 1 .. MaxUsers

ASSUME EmailAssumption == EmailOf \in [Identities -> Emails]
ASSUME ClerkAssumption == ClerkIdentities \subseteq Identities
ASSUME NoOneAssumption == NoOne \notin Emails \cup UserIds
ASSUME MaxKeysAssumption == MaxKeys \in Nat \ {0}
ASSUME BoundAssumption == MaxUsers \in Nat /\ MaxFaults \in Nat
ASSUME FiniteCallsAssumption == IsFiniteSet(Calls) /\ IsFiniteSet(KeyPrefixes)

VARIABLES
    email,          \* email[u]: users.email, NoOne when there is no row u
    identity,       \* identity[i]: oauth_identities.user_id
    key,            \* key[p]: the api_keys row with prefix p
    call,           \* call[c]: the statement call c comes to, and for whom
    session,        \* session[s]: auth_sessions.user_id
    revoked,        \* the sessions with a revoked_at
    expired,        \* the sessions past their expires_at
    faults

accountVars == <<email, identity, key, call, session, revoked, expired, faults>>

Ended == [at |-> "idle", who |-> NoOne]
NoKey == [user |-> NoOne, active |-> FALSE]

AccountsTyped ==
    /\ email \in [UserIds -> Emails \cup {NoOne}]
    /\ identity \in [Identities -> UserIds \cup {NoOne}]
    /\ key \in [KeyPrefixes -> [user : UserIds \cup {NoOne}, active : BOOLEAN]]
    /\ call \in [Calls -> [at : {"link"}, who : Identities]
                          \cup [at : {"key"}, who : UserIds] \cup {Ended}]
    /\ session \in [Cookies -> UserIds \cup {NoOne}]
    /\ revoked \subseteq Cookies /\ expired \subseteq Cookies
    /\ faults \in 0 .. MaxFaults

\* Keys, calls about to create one, identities and sessions are of users whose
\* rows there are, whatever failed in between.  Foreign keys do not see to it:
\* schema.go:5 turns them on for the connection that creates the tables only.
KnownUsers ==
    /\ \A p \in KeyPrefixes : key[p].user # NoOne => email[key[p].user] # NoOne
    /\ \A c \in Calls : call[c].at = "key" => email[call[c].who] # NoOne
    /\ \A i \in Identities : identity[i] # NoOne => email[identity[i]] # NoOne
    /\ \A s \in Cookies : session[s] # NoOne => email[session[s]] # NoOne

AccountsTypeOK == AccountsTyped /\ KnownUsers

AccountsInit ==
    /\ email = [u \in UserIds |-> NoOne]
    /\ identity = [i \in Identities |-> NoOne]
    /\ key = [p \in KeyPrefixes |-> NoKey]
    /\ call = [c \in Calls |-> Ended]
    /\ session = [s \in Cookies |-> NoOne]
    /\ revoked = {} /\ expired = {}
    /\ faults = 0

Enter(c, statement, x) ==
    /\ call[c] = Ended
    /\ call' = [call EXCEPT ![c] = [at |-> statement, who |-> x]]

Leave(c) == call' = [call EXCEPT ![c] = Ended]

ActiveKeys(u) == {p \in KeyPrefixes : key[p].user = u /\ key[p].active}

-----------------------------------------------------------------------------
(* Sessions *)

\* issueSession: a token for user u.
CreateAuthSession(s, u) ==
    /\ session[s] = NoOne
    /\ session' = [session EXCEPT ![s] = u]

\* HandlePortalDevLogin issues one to a user it has made sure of.
HandlePortalDevLogin(s, i) ==
    /\ i \notin ClerkIdentities
    /\ identity[i] # NoOne
    /\ CreateAuthSession(s, identity[i])
    /\ UNCHANGED <<email, identity, key, call, revoked, expired, faults>>

RevokeAuthSession(s) == session[s] # NoOne /\ s \notin revoked /\ revoked' = revoked \cup {s}

\* HandlePortalLogout forgets the cookie and revokes its session; the error
\* of a revocation that fails is dropped, and nothing has changed.
HandlePortalLogout(s) ==
    /\ RevokeAuthSession(s)
    /\ UNCHANGED <<email, identity, key, call, session, expired, faults>>

\* portalSessionTTL passes.
SessionTimesOut(s) ==
    /\ session[s] # NoOne
    /\ s \notin expired
    /\ expired' = expired \cup {s}
    /\ UNCHANGED <<email, identity, key, call, session, revoked, faults>>

BugLookupIgnoresExpiry(s) == session[s] # NoOne /\ s \notin revoked

\* The token opens the portal.
LookupAuthSession(s) == session[s] # NoOne /\ s \notin revoked /\ s \notin expired

\* A portal call is user u's by Clerk's token or by a cookie.
RequirePortalUser(u) ==
    \/ \E i \in ClerkIdentities : identity[i] = u
    \/ \E s \in Cookies : LookupAuthSession(s) /\ session[s] = u

-----------------------------------------------------------------------------
(* Users, identities and keys *)

BugInsertNotUnique(u, e) ==
    /\ email[u] = NoOne
    /\ email' = [email EXCEPT ![u] = e]

BugInsertOrIgnore(u, e) ==
    /\ email[u] = NoOne
    /\ email' = IF \E v \in UserIds : email[v] = e THEN email ELSE [email EXCEPT ![u] = e]

\* INSERT INTO users, under a fresh id; users.email is UNIQUE.
InsertUser(u, e) ==
    /\ email[u] = NoOne
    /\ \A v \in UserIds : email[v] # e
    /\ email' = [email EXCEPT ![u] = e]

\* EnsureOAuthUser looks the identity up; an identity it finds is the answer.
SignIn(c, i) ==
    /\ identity[i] = NoOne
    /\ Enter(c, "link", i)
    /\ UNCHANGED <<email, identity, key, session, revoked, expired, faults>>

BugNoLinkByEmail(c) ==
    /\ call[c].at = "link"
    /\ LET i == call[c].who
       IN  \/ /\ identity[i] # NoOne \/ \E u \in UserIds : email[u] = EmailOf[i]
              /\ UNCHANGED <<email, identity>>
           \/ /\ identity[i] = NoOne
              /\ \E u \in UserIds :
                    InsertUser(u, EmailOf[i]) /\ identity' = [identity EXCEPT ![i] = u]
    /\ Leave(c)
    /\ UNCHANGED <<key, session, revoked, expired, faults>>

\* Its transaction links the user with the identity's e-mail, or a new one.
\* UNIQUE(provider, subject) fails it when a racing sign-in was first.
LinkIdentity(c) ==
    /\ call[c].at = "link"
    /\ LET i == call[c].who
           owners == {u \in UserIds : email[u] = EmailOf[i]}
       IN  \/ identity[i] # NoOne /\ UNCHANGED <<email, identity>>
           \/ /\ identity[i] = NoOne
              /\ \E u \in owners : identity' = [identity EXCEPT ![i] = u]
              /\ UNCHANGED email
           \/ /\ identity[i] = NoOne
              /\ owners = {}
              /\ \E u \in UserIds :
                    InsertUser(u, EmailOf[i]) /\ identity' = [identity EXCEPT ![i] = u]
    /\ Leave(c)
    /\ UNCHANGED <<key, session, revoked, expired, faults>>

\* HandleProvision: CreateUser under the address as it is spelled ...
ProvisionUser(c, e) ==
    /\ \E u \in UserIds : InsertUser(u, e) /\ Enter(c, "key", u)
    /\ UNCHANGED <<identity, key, session, revoked, expired, faults>>

BugCountAtMost(c, u) ==
    /\ RequirePortalUser(u)
    /\ Cardinality(ActiveKeys(u)) <= MaxKeys
    /\ Enter(c, "key", u)
    /\ UNCHANGED <<email, identity, key, session, revoked, expired, faults>>

\* HandlePortalCreateKey: CountActiveAPIKeys ...
CountKeys(c, u) ==
    /\ RequirePortalUser(u)
    /\ Cardinality(ActiveKeys(u)) < MaxKeys
    /\ Enter(c, "key", u)
    /\ UNCHANGED <<email, identity, key, session, revoked, expired, faults>>

\* ... and CreateAPIKey, for both: the prefix is drawn, and key_prefix is
\* UNIQUE, among the revoked keys too.
InsertKey(c) ==
    /\ call[c].at = "key"
    /\ \E p \in KeyPrefixes :
          \/ /\ key[p] = NoKey
             /\ key' = [key EXCEPT ![p] = [user |-> call[c].who, active |-> TRUE]]
          \/ key[p] # NoKey /\ UNCHANGED key
    /\ Leave(c)
    /\ UNCHANGED <<email, identity, session, revoked, expired, faults>>

\* The row stays.
RevokeAPIKey(p) == key[p].active /\ key' = [key EXCEPT ![p].active = FALSE]

HandlePortalRevokeKey(p) ==
    /\ RequirePortalUser(key[p].user)
    /\ RevokeAPIKey(p)
    /\ UNCHANGED <<email, identity, call, session, revoked, expired, faults>>

CallFails(c) ==
    /\ call[c] # Ended
    /\ faults < MaxFaults
    /\ faults' = faults + 1
    /\ Leave(c)
    /\ UNCHANGED <<email, identity, key, session, revoked, expired>>

-----------------------------------------------------------------------------
AccountsNext ==
    \/ \E c \in Calls, i \in Identities : SignIn(c, i)
    \/ \E c \in Calls, u \in UserIds : CountKeys(c, u)
    \/ \E c \in Calls, e \in Emails : ProvisionUser(c, e)
    \/ \E c \in Calls : LinkIdentity(c) \/ InsertKey(c) \/ CallFails(c)
    \/ \E p \in KeyPrefixes : HandlePortalRevokeKey(p)
    \/ \E s \in Cookies, i \in Identities : HandlePortalDevLogin(s, i)
    \/ \E s \in Cookies : HandlePortalLogout(s) \/ SessionTimesOut(s)

AccountsSpec == AccountsInit /\ [][AccountsNext]_accountVars

\* People who are not in try again (a slot comes free again and again), a
\* call that has begun goes on, and time passes.  Nobody has to log out.
AccountsFairness ==
    /\ SF_accountVars(\E c \in Calls, i \in Identities : SignIn(c, i))
    /\ \A c \in Calls : WF_accountVars(LinkIdentity(c) \/ InsertKey(c))
    /\ \A s \in Cookies : WF_accountVars(SessionTimesOut(s))

-----------------------------------------------------------------------------
(* Properties *)

\* auth.go:87, "Link to existing user by email when present": all identities
\* of one address lead to one user, however their first sign-ins race each other
\* and provisioning.  An administrator's other spelling of the address is
\* nobody's identity: the user under it is a second one, with its own budget.
OneUserPerPerson ==
    \A i, j \in Identities :
        identity[i] # NoOne /\ identity[j] # NoOne /\ EmailOf[i] = EmailOf[j]
        => identity[i] = identity[j]

\* The calls that have passed the count, or are provisioning, for user u.
Creating(u) == {c \in Calls : call[c].at = "key" /\ call[c].who = u}

\* The count and the creation are two statements: with n calls in flight a
\* user can end up with n - 1 keys more than the maximum, and never with
\* more, whatever is revoked and created in between.
KeysAreBounded ==
    \A u \in UserIds :
        Cardinality(ActiveKeys(u)) + Cardinality(Creating(u)) < MaxKeys + Cardinality(Calls)

\* A person who keeps trying gets in, also when every first sign-in races
\* another one of theirs or provisioning, or fails: the loser of a race finds
\* the winner's row.
SignInsSucceed == <>(\A i \in Identities : identity[i] # NoOne)

\* A token stops working, also when the revocation of a logout was lost.
SessionsEnd == \A s \in Cookies : LookupAuthSession(s) ~> ~LookupAuthSession(s)
=============================================================================
