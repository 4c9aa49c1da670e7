------------------------------- MODULE Access -------------------------------
(***************************************************************************)
(* Logins with Google and the sessions they issue                          *)
(* (internal/service/google_auth.go, session.go, internal/repository/      *)
(* auth.go).  Every statement commits by itself.                           *)
(*                                                                         *)
(* A browser is sent to Google with a login state; the callback redeems    *)
(* the state, looks for the identity, makes a user and a household for a   *)
(* new one, and issues a session.  A request resolves its session: reads   *)
(* it, moves its expiry, looks up the household; it may be a logout.       *)
(* Names, pictures, locales, e-mail addresses and tokens decide nothing    *)
(* and are left out.                                                       *)
(***************************************************************************)
EXTENDS Naturals, Sequences

CONSTANTS
    Caller,             \* concurrent callbacks and requests
    Subject,            \* people with a Google account
    Seeds,              \* households there before the first login
    ClaimExistingData,  \* AUTH_CLAIM_EXISTING_DATA
    OauthStateTTL, IdleTime, AbsoluteTime,
    Budgets             \* bounds: how many logins and requests begin, clock
                        \* ticks pass and statements fail

ASSUME AccessAssumption ==
    /\ Seeds \in Nat /\ ClaimExistingData \in BOOLEAN
    /\ {OauthStateTTL, IdleTime, AbsoluteTime} \subseteq Nat \ {0}
    /\ Budgets \subseteq [login : Nat, request : Nat, tick : Nat, cut : Nat]

VARIABLES
    now,
    states,      \* oauth_login_states: when each expires, a number names it
    identity,    \* identity[s]: user of the identity of s, or Nobody
    users,       \* number of users, numbered as created
    households,  \* households[h].claimed, numbered as created
    members,     \* household_memberships
    sessions,    \* session rows, numbered as issued, or Gone
    call,        \* call[c]: where the callback or request is
    cutUsers,    \* users whose creating login was cut off
    left         \* what is left of the budget

tables == <<states, identity, users, households, members, sessions>>
vars == <<now, tables, call, cutUsers, left>>

Nobody == 0
Gone == [user |-> Nobody]
Idle == [at |-> "idle"]
Household == 1..Len(households)
Session == 1..Len(sessions)
Smaller(a, b) == IF a <= b THEN a ELSE b

Init ==
    /\ now = 0
    /\ states = << >>
    /\ identity = [s \in Subject |-> Nobody]
    /\ users = 0
    /\ households = [h \in 1..Seeds |-> [claimed |-> FALSE]]
    /\ members = {}
    /\ sessions = << >>
    /\ call = [c \in Caller |-> Idle]
    /\ cutUsers = {}
    /\ left \in Budgets

Spend(what) == left[what] > 0 /\ left' = [left EXCEPT ![what] = @ - 1]

Tick ==
    /\ Spend("tick")
    /\ now' = now + 1
    /\ UNCHANGED <<tables, call, cutUsers>>

\* The call ends; if it went wrong, what it stored stays.
End(c) == call' = [call EXCEPT ![c] = Idle]

-----------------------------------------------------------------------------
(* Login states                                                            *)

\* Start clears expired states and stores one of its own, which lives for
\* OauthStateTTL; a state that is gone is 0.
DeleteExpiredOAuthLoginStates ==
    [f \in DOMAIN states |-> IF states[f] < now THEN 0 ELSE states[f]]
StartLogin ==
    /\ Spend("login")
    /\ states' = Append(DeleteExpiredOAuthLoginStates, now + OauthStateTTL)
    /\ UNCHANGED <<now, identity, users, households, members, sessions, call, cutUsers>>

\* A callback with a state that is stored; any other one ends at once.
Callback(c, f) ==
    /\ call[c] = Idle /\ states[f] # 0
    /\ call' = [call EXCEPT ![c] = [at |-> "redeem", flow |-> f, expires |-> states[f]]]
    /\ UNCHANGED <<now, tables, cutUsers, left>>

\* The state is deleted, a failure of that ignored; an expired one ends the
\* callback.
Redeem(c) ==
    /\ call[c].at = "redeem"
    /\ \/ states' = [states EXCEPT ![call[c].flow] = 0] /\ UNCHANGED left
       \/ Spend("cut") /\ UNCHANGED states
    /\ IF call[c].expires > now
       THEN call' = [call EXCEPT ![c] = [at |-> "exchange"]]
       ELSE End(c)
    /\ UNCHANGED <<now, identity, users, households, members, sessions, cutUsers>>

\* Google exchanges the code for the claims of a person or refuses it; so
\* does the service if the e-mail address is not verified.
Exchange(c) ==
    /\ call[c].at = "exchange"
    /\ \/ \E s \in Subject :
             call' = [call EXCEPT ![c] = [at |-> "find", subject |-> s]]
       \/ End(c)
    /\ UNCHANGED <<now, tables, cutUsers, left>>

-----------------------------------------------------------------------------
(* resolveOrCreateUserID                                                   *)

Known(s) == identity[s] # Nobody
\* With an identity: its user (whose e-mail address and profile are brought
\* up to date); else a new user.
FindIdentity(c) ==
    /\ call[c].at = "find"
    /\ LET s == call[c].subject IN
          call' = [call EXCEPT ![c] =
            IF Known(s)
            THEN [at |-> "issue", subject |-> s, user |-> identity[s]]
            ELSE [at |-> "create", subject |-> s]]
    /\ UNCHANGED <<now, tables, cutUsers, left>>

CreateUser(c) ==
    /\ call[c].at = "create"
    /\ users' = users + 1
    /\ call' = [call EXCEPT ![c] =
          [at |-> "identity", subject |-> call[c].subject, user |-> users + 1]]
    /\ UNCHANGED <<now, states, identity, households, members, sessions, cutUsers, left>>

\* Bug: ON CONFLICT DO UPDATE SET user_id = EXCLUDED.user_id.
LastUserWins(s, u) == u
\* An identity that appeared meanwhile keeps its user.
IdentityUser(s, u) == IF Known(s) THEN identity[s] ELSE u
\* The login goes on with the user it created, whoever has the identity.
UpsertAuthIdentity(c) ==
    /\ call[c].at = "identity"
    /\ identity' = [identity EXCEPT
          ![call[c].subject] = IdentityUser(call[c].subject, call[c].user)]
    /\ call' = [call EXCEPT ![c] =
          [at |-> "attach", subject |-> call[c].subject, user |-> call[c].user]]
    /\ UNCHANGED <<now, states, users, households, members, sessions, cutUsers, left>>

-----------------------------------------------------------------------------
(* attachHousehold                                                         *)

Unclaimed == {h \in Household : ~households[h].claimed}
GetUnclaimedSeedHousehold == CHOOSE h \in Unclaimed : \A g \in Unclaimed : h <= g

With(c, at, h) ==
    [at |-> at, subject |-> call[c].subject, user |-> call[c].user, household |-> h]

\* The oldest household nobody has claimed, where data may be claimed.
FindSeed(c) ==
    /\ call[c].at = "attach"
    /\ call' = [call EXCEPT ![c] =
          IF ClaimExistingData /\ Unclaimed # {}
          THEN With(c, "claim", GetUnclaimedSeedHousehold)
          ELSE With(c, "household", 0)]
    /\ UNCHANGED <<now, tables, cutUsers, left>>

\* Bug: the update has no claimed_at IS NULL.
AlwaysClaimable(h) == TRUE
Claimable(h) == ~households[h].claimed
\* Bug: whoever loses the claim gets no household.
NoHousehold(c) == [at |-> "issue", subject |-> call[c].subject, user |-> call[c].user]
ClaimLost(c) == With(c, "household", 0)
\* If another login was first, a household is created instead.
ClaimHousehold(c) ==
    /\ call[c].at = "claim"
    /\ LET h == call[c].household IN
          IF Claimable(h)
          THEN /\ households' = [households EXCEPT ![h].claimed = TRUE]
               /\ call' = [call EXCEPT ![c] = With(c, "member", h)]
          ELSE /\ call' = [call EXCEPT ![c] = ClaimLost(c)]
               /\ UNCHANGED households
    /\ UNCHANGED <<now, states, identity, users, members, sessions, cutUsers, left>>

\* A created household is not marked as claimed.
CreateHousehold(c) ==
    /\ call[c].at = "household"
    /\ households' = Append(households, [claimed |-> FALSE])
    /\ call' = [call EXCEPT ![c] = With(c, "member", Len(households) + 1)]
    /\ UNCHANGED <<now, states, identity, users, members, sessions, cutUsers, left>>

CreateMembership(c) ==
    /\ call[c].at = "member"
    /\ members' = members \cup {[household |-> call[c].household, user |-> call[c].user]}
    /\ call' = [call EXCEPT ![c] = NoHousehold(c)]
    /\ UNCHANGED <<now, states, identity, users, households, sessions, cutUsers, left>>

CreateSession(u) ==
    [user |-> u, expires |-> now + IdleTime, absolute |-> now + AbsoluteTime,
     revoked |-> FALSE]
\* The session of the login, for its cookie.
IssueSession(c) ==
    /\ call[c].at = "issue"
    /\ sessions' = Append(sessions, CreateSession(call[c].user))
    /\ End(c)
    /\ UNCHANGED <<now, states, identity, users, households, members, cutUsers, left>>

-----------------------------------------------------------------------------
(* Requests with a session cookie                                          *)

\* GetSessionByTokenHash; a token of no row ends the request.
ReadSession(c, k) ==
    /\ call[c] = Idle /\ sessions[k] # Gone
    /\ Spend("request")
    /\ call' = [call EXCEPT ![c] = [at |-> "judge", session |-> k, row |-> sessions[k]]]
    /\ UNCHANGED <<now, tables, cutUsers>>

Alive(row) == ~row.revoked /\ row.expires > now /\ row.absolute > now

\* Bug: the idle time is added without looking at the absolute end.
IdleOnly(row) == now + IdleTime
NewExpiry(row) == Smaller(now + IdleTime, row.absolute)
JudgeSession(c) ==
    /\ call[c].at = "judge"
    /\ LET k == call[c].session
           row == call[c].row
       IN  call' = [call EXCEPT ![c] =
             IF ~Alive(row) THEN [at |-> "clean"]
             ELSE IF NewExpiry(row) = row.expires
             THEN [at |-> "load", session |-> k, row |-> row]
             ELSE [at |-> "touch", session |-> k, row |-> row, until |-> NewExpiry(row)]]
    /\ UNCHANGED <<now, tables, cutUsers, left>>

\* A request that is refused clears what has ended, by the database's clock.
Ended(row) ==
    row # Gone /\ (row.revoked \/ row.expires < now \/ row.absolute < now)
DeleteExpiredSessions(c) ==
    /\ call[c].at = "clean"
    /\ sessions' = [k \in Session |-> IF Ended(sessions[k]) THEN Gone ELSE sessions[k]]
    /\ End(c)
    /\ UNCHANGED <<now, states, identity, users, households, members, cutUsers, left>>

\* Bug: the row is saved as it was read, with its new expiry.
SaveRow(k, row, until) == [row EXCEPT !.expires = until]
\* UPDATE ... WHERE revoked_at IS NULL RETURNING: the row, or no row.
Touched(k, row, until) ==
    IF sessions[k] # Gone /\ ~sessions[k].revoked
    THEN [sessions[k] EXCEPT !.expires = until]
    ELSE Gone
\* A session that was revoked or deleted meanwhile refuses the request.
TouchSession(c) ==
    /\ call[c].at = "touch"
    /\ LET k == call[c].session
           touched == Touched(k, call[c].row, call[c].until)
       IN  IF touched # Gone
           THEN /\ sessions' = [sessions EXCEPT ![k] = touched]
                /\ call' = [call EXCEPT ![c] =
                      [at |-> "load", session |-> k, row |-> call[c].row]]
           ELSE End(c) /\ UNCHANGED sessions
    /\ UNCHANGED <<now, states, identity, users, households, members, cutUsers, left>>

GetMembershipsByUser(u) == {m \in members : m.user = u}
\* The first membership of the user; without one the request is refused.
LoadUserHousehold(c) ==
    /\ call[c].at = "load"
    /\ IF GetMembershipsByUser(call[c].row.user) # {}
       THEN call' = [call EXCEPT ![c] =
               [at |-> "serve", session |-> call[c].session, row |-> call[c].row]]
       ELSE End(c)
    /\ UNCHANGED <<now, tables, cutUsers, left>>

RevokeSession(k) ==
    IF sessions[k] # Gone THEN [sessions EXCEPT ![k].revoked = TRUE] ELSE sessions
\* The handler: Logout revokes the session unless it is deleted meanwhile;
\* others leave it alone.
Logout(c) ==
    /\ call[c].at = "serve"
    /\ sessions' = RevokeSession(call[c].session)
    /\ End(c)
    /\ UNCHANGED <<now, states, identity, users, households, members, cutUsers, left>>
Served(c) ==
    /\ call[c].at = "serve"
    /\ End(c)
    /\ UNCHANGED <<now, tables, cutUsers, left>>

\* A failing statement, a cancelled request or a crash.
CutOff(c) ==
    /\ call[c] # Idle
    /\ Spend("cut")
    /\ cutUsers' = IF call[c].at \in {"identity", "attach", "claim", "household", "member"}
                   THEN cutUsers \cup {call[c].user} ELSE cutUsers
    /\ End(c)
    /\ UNCHANGED <<now, tables>>

LoginStep(c) ==
    \/ Redeem(c) \/ Exchange(c) \/ FindIdentity(c) \/ CreateUser(c)
    \/ UpsertAuthIdentity(c) \/ FindSeed(c) \/ ClaimHousehold(c)
    \/ CreateHousehold(c) \/ CreateMembership(c) \/ IssueSession(c)
RequestStep(c) ==
    \/ JudgeSession(c) \/ DeleteExpiredSessions(c) \/ TouchSession(c)
    \/ LoadUserHousehold(c) \/ Logout(c) \/ Served(c)

Next ==
    \/ Tick \/ StartLogin
    \/ \E c \in Caller :
          \/ \E f \in DOMAIN states : Callback(c, f)
          \/ \E k \in Session : ReadSession(c, k)
          \/ LoginStep(c) \/ RequestStep(c) \/ CutOff(c)

Spec == Init /\ [][Next]_vars

-----------------------------------------------------------------------------
(* Properties                                                              *)

User == Nat \ {Nobody}
SessionRow == [user : User, expires : Nat, absolute : Nat, revoked : BOOLEAN]
CallState ==
    {Idle}
    \cup [at : {"redeem"}, flow : Nat, expires : Nat]
    \cup [at : {"exchange", "clean"}]
    \cup [at : {"find", "create"}, subject : Subject]
    \cup [at : {"identity", "attach", "issue"}, subject : Subject, user : User]
    \cup [at : {"claim", "household", "member"}, subject : Subject, user : User,
          household : Nat]
    \cup [at : {"judge", "load", "serve"}, session : Nat, row : SessionRow]
    \cup [at : {"touch"}, session : Nat, row : SessionRow, until : Nat]

TypeOK ==
    /\ now \in Nat /\ users \in Nat
    /\ states \in Seq(Nat)
    /\ identity \in [Subject -> User \cup {Nobody}]
    /\ households \in Seq([claimed : BOOLEAN])
    /\ members \subseteq [household : Nat, user : User]
    /\ sessions \in Seq(SessionRow \cup {Gone})
    /\ call \in [Caller -> CallState]
    /\ cutUsers \subseteq User

\* The data that was there before the first login goes to one user, however
\* many people log in for the first time at once.
SeedClaimedOnce ==
    \A m, n \in members : m.household \in 1..Seeds /\ n.household = m.household => n = m

\* A user who has a session has a household, unless the login that created
\* the user was cut off: losing the race for the existing data, or the race
\* of two first logins of one person, leaves nobody without.
HouseholdUnlessCut ==
    \A k \in Session :
        sessions[k] # Gone =>
            \/ GetMembershipsByUser(sessions[k].user) # {}
            \/ sessions[k].user \in cutUsers
            \/ \E c \in Caller : call[c] # Idle /\ call[c].at
                  \in {"attach", "claim", "household", "member"}
                  /\ call[c].user = sessions[k].user

\* A person keeps the user of the first login that stored the identity.
IdentityKept ==
    [][\A s \in Subject : identity[s] # Nobody => identity'[s] = identity[s]]_vars

\* A session that is revoked or deleted stays so, and no request that read it
\* before brings it back.
RevokedIsFinal ==
    [][\A k \in Session : sessions[k] = Gone \/ sessions[k].revoked
          => sessions'[k] = Gone \/ sessions'[k].revoked]_vars

\* Whatever requests overlap, none extends a session past its absolute end,
\* though a request moves the expiry by what it read of the session before;
\* and none moves that end (ResolveSession, TouchSession).
WithinLifetime ==
    [][\A k \in Session : sessions[k] # Gone /\ sessions'[k] # Gone =>
          /\ sessions'[k].absolute = sessions[k].absolute
          /\ \/ sessions'[k].expires = sessions[k].expires
             \/ sessions'[k].expires <= sessions[k].absolute]_vars
=============================================================================
