---------------------------- MODULE AccessProofs ----------------------------
(***************************************************************************)
(* That the data of a household nobody owned goes to one user, that an     *)
(* identity keeps its user, that a revoked session stays revoked, that     *)
(* everybody who has a session has a household and that no session is      *)
(* extended past its absolute end, for any number of people, callbacks,    *)
(* requests and households.                                                *)
(***************************************************************************)
EXTENDS Access, WellFoundedInduction, SequenceTheorems, TLAPS

\* A household of the beginning that has a member, or gets one, is claimed,
\* and by one login only.
Claims ==
    /\ \A m \in members : m.household \in 1..Seeds => households[m.household].claimed
    /\ \A c \in Caller : call[c].at = "member" /\ call[c].household \in 1..Seeds =>
          /\ households[call[c].household].claimed
          /\ \A m \in members : m.household # call[c].household
          /\ \A d \in Caller : call[d].at = "member" /\ call[d].household = call[c].household
                               => d = c

IInv ==
    /\ TypeOK
    /\ Seeds <= Len(households)
    /\ \A c \in Caller : call[c].at = "claim" => call[c].household \in 1..Len(households)
    /\ Claims
    /\ SeedClaimedOnce

\* What the calls are at each point.
LEMMA CallShape ==
    ASSUME TypeOK, NEW c \in Caller
    PROVE  /\ call[c].at = "redeem" => call[c].flow \in Nat /\ call[c].expires \in Nat
           /\ call[c].at \in {"find", "create", "identity", "attach", "issue",
                              "claim", "household", "member"} => call[c].subject \in Subject
           /\ call[c].at \in {"identity", "attach", "issue", "claim", "household", "member"}
              => call[c].user \in User
           /\ call[c].at \in {"claim", "household", "member"} => call[c].household \in Nat
           /\ call[c].at \in {"judge", "load", "serve", "touch"}
              => call[c].session \in Nat /\ call[c].row \in SessionRow
           /\ call[c].at = "touch" => call[c].until \in Nat
<1>1. call[c] \in CallState
  BY DEF TypeOK
<1> QED
  BY <1>1 DEF CallState, Idle

\* The states a call moves to.
LEMMA CallStates ==
    /\ Idle \in CallState
    /\ \A f \in Nat, e \in Nat : [at |-> "redeem", flow |-> f, expires |-> e] \in CallState
    /\ [at |-> "exchange"] \in CallState /\ [at |-> "clean"] \in CallState
    /\ \A s \in Subject : /\ [at |-> "find", subject |-> s] \in CallState
                          /\ [at |-> "create", subject |-> s] \in CallState
    /\ \A a \in {"identity", "attach", "issue"}, s \in Subject, u \in User :
          [at |-> a, subject |-> s, user |-> u] \in CallState
    /\ \A a \in {"claim", "household", "member"}, s \in Subject, u \in User, h \in Nat :
          [at |-> a, subject |-> s, user |-> u, household |-> h] \in CallState
    /\ \A a \in {"judge", "load", "serve"}, k \in Nat, row \in SessionRow :
          [at |-> a, session |-> k, row |-> row] \in CallState
    /\ \A k \in Nat, row \in SessionRow, n \in Nat :
          [at |-> "touch", session |-> k, row |-> row, until |-> n] \in CallState
<1>1. Idle \in CallState
  BY DEF CallState
<1>2. \A f \in Nat, e \in Nat : [at |-> "redeem", flow |-> f, expires |-> e] \in CallState
  BY DEF CallState
<1>3. [at |-> "exchange"] \in CallState /\ [at |-> "clean"] \in CallState
  BY DEF CallState
<1>4. \A s \in Subject : /\ [at |-> "find", subject |-> s] \in CallState
                         /\ [at |-> "create", subject |-> s] \in CallState
  BY DEF CallState
<1>5. \A a \in {"identity", "attach", "issue"}, s \in Subject, u \in User :
          [at |-> a, subject |-> s, user |-> u] \in CallState
  BY DEF CallState
<1>6. \A a \in {"claim", "household", "member"}, s \in Subject, u \in User, h \in Nat :
          [at |-> a, subject |-> s, user |-> u, household |-> h] \in CallState
  BY DEF CallState
<1>7. \A a \in {"judge", "load", "serve"}, k \in Nat, row \in SessionRow :
          [at |-> a, session |-> k, row |-> row] \in CallState
  BY DEF CallState
<1>8. \A k \in Nat, row \in SessionRow, n \in Nat :
          [at |-> "touch", session |-> k, row |-> row, until |-> n] \in CallState
  BY DEF CallState
<1> QED
  BY <1>1, <1>2, <1>3, <1>4, <1>5, <1>6, <1>7, <1>8

\* A step that replaces a call's state by one of CallState keeps the type.
LEMMA MoveCall ==
    ASSUME TypeOK, NEW c \in Caller, NEW s \in CallState, call' = [call EXCEPT ![c] = s]
    PROVE  /\ call' \in [Caller -> CallState]
           /\ call'[c] = s
           /\ \A d \in Caller : d # c => call'[d] = call[d]
  BY DEF TypeOK

\* A set of numbers has a least one.
LEMMA LeastNat ==
    ASSUME NEW T \in SUBSET Nat, T # {}
    PROVE  \E h \in T : \A g \in T : h <= g
<1>1. PICK h \in T : \A g \in T : ~(<<g, h>> \in OpToRel(<, Nat))
  BY NatLessThanWellFounded, WFMin
<1>2. \A g \in T : ~(g < h)
  BY <1>1 DEF OpToRel
<1> QED
  BY <1>2

\* A sequence with one place replaced.
LEMMA ReplaceInSeq ==
    ASSUME NEW S, NEW s \in Seq(S), NEW i, NEW v, i \in 1..Len(s) => v \in S
    PROVE  /\ [s EXCEPT ![i] = v] \in Seq(S)
           /\ Len([s EXCEPT ![i] = v]) = Len(s)
<1>1. s \in [1..Len(s) -> S] /\ Len(s) \in Nat
  OBVIOUS
<1>2. [s EXCEPT ![i] = v] \in [1..Len(s) -> S]
  BY <1>1
<1> QED
  BY <1>1, <1>2

LEMMA InitInv == Init => IInv
<1> SUFFICES ASSUME Init PROVE IInv
  OBVIOUS
<1>1. households \in Seq([claimed : BOOLEAN]) /\ Len(households) = Seeds
  BY AccessAssumption DEF Init
<1>2. call \in [Caller -> CallState] /\ \A c \in Caller : call[c].at = "idle"
  BY CallStates DEF Init, Idle
<1>3. TypeOK
  BY <1>1, <1>2 DEF Init, TypeOK, User, Nobody
<1> QED
  BY <1>1, <1>2, <1>3, AccessAssumption DEF Init, IInv, Claims, SeedClaimedOnce

-----------------------------------------------------------------------------
(* Type correctness                                                        *)

LEMMA TypeStep == TypeOK /\ [Next]_vars => TypeOK'
<1> SUFFICES ASSUME TypeOK, [Next]_vars PROVE TypeOK'
  OBVIOUS
<1> USE AccessAssumption
<1>1. CASE UNCHANGED vars
  BY <1>1 DEF TypeOK, vars, tables
<1>2. CASE Tick
  BY <1>2 DEF Tick, TypeOK, tables
<1>3. CASE StartLogin
  <2>1. DeleteExpiredOAuthLoginStates \in Seq(Nat)
    <3>1. Len(states) \in Nat /\ DOMAIN states = 1..Len(states) /\ now \in Nat
      BY DEF TypeOK
    <3>2. \A f \in 1..Len(states) : states[f] \in Nat
      BY DEF TypeOK
    <3>3. DeleteExpiredOAuthLoginStates \in [1..Len(states) -> Nat]
      BY <3>1, <3>2 DEF DeleteExpiredOAuthLoginStates
    <3> QED
      BY <3>1, <3>3
  <2>2. states' \in Seq(Nat)
    BY <1>3, <2>1 DEF StartLogin, TypeOK
  <2> QED
    BY <1>3, <2>2 DEF StartLogin, TypeOK
<1>4. ASSUME NEW c \in Caller, NEW f \in DOMAIN states, Callback(c, f) PROVE TypeOK'
  <2>1. f \in Nat /\ states[f] \in Nat
    BY DEF TypeOK
  <2>2. call' \in [Caller -> CallState]
    BY <1>4, <2>1, CallStates, MoveCall DEF Callback
  <2> QED
    BY <1>4, <2>2 DEF Callback, TypeOK, tables
<1>5. ASSUME NEW c \in Caller, NEW k \in Session, ReadSession(c, k) PROVE TypeOK'
  <2>1. k \in Nat /\ sessions[k] \in SessionRow
    BY <1>5 DEF TypeOK, ReadSession, Session
  <2>2. call' \in [Caller -> CallState]
    BY <1>5, <2>1, CallStates, MoveCall DEF ReadSession
  <2> QED
    BY <1>5, <2>2 DEF ReadSession, TypeOK, tables
<1>6. ASSUME NEW c \in Caller, LoginStep(c) PROVE TypeOK'
  <2> USE CallShape, CallStates, MoveCall
  <2>1. CASE Redeem(c)
    <3>1. call' \in [Caller -> CallState]
      BY <2>1 DEF Redeem, End
    <3>2. states' \in Seq(Nat)
      <4>1. [states EXCEPT ![call[c].flow] = 0] \in Seq(Nat)
        BY ReplaceInSeq DEF TypeOK
      <4> QED
        BY <2>1, <4>1 DEF Redeem, TypeOK
    <3> QED
      BY <2>1, <3>1, <3>2 DEF Redeem, TypeOK
  <2>2. CASE Exchange(c)
    <3>1. call' \in [Caller -> CallState]
      BY <2>2 DEF Exchange, End
    <3> QED
      BY <2>2, <3>1 DEF Exchange, TypeOK, tables
  <2>3. CASE FindIdentity(c)
    <3>1. identity[call[c].subject] # Nobody => identity[call[c].subject] \in User
      BY <2>3 DEF TypeOK, FindIdentity
    <3>2. call' \in [Caller -> CallState]
      BY <2>3, <3>1 DEF FindIdentity, Known
    <3> QED
      BY <2>3, <3>2 DEF FindIdentity, TypeOK, tables
  <2>4. CASE CreateUser(c)
    <3>1. users + 1 \in User /\ users + 1 \in Nat
      BY DEF TypeOK, User, Nobody
    <3>2. call' \in [Caller -> CallState]
      BY <2>4, <3>1 DEF CreateUser
    <3> QED
      BY <2>4, <3>1, <3>2 DEF CreateUser, TypeOK
  <2>5. CASE UpsertAuthIdentity(c)
    <3>1. call' \in [Caller -> CallState]
      BY <2>5 DEF UpsertAuthIdentity
    <3>2. identity' \in [Subject -> User \cup {Nobody}]
      BY <2>5 DEF UpsertAuthIdentity, IdentityUser, Known, TypeOK
    <3> QED
      BY <2>5, <3>1, <3>2 DEF UpsertAuthIdentity, TypeOK
  <2>6. CASE FindSeed(c)
    <3>1. \A h \in Household : h \in Nat
      BY DEF Household
    <3>2. ASSUME Unclaimed # {} PROVE GetUnclaimedSeedHousehold \in Nat
      <4>1. \E h \in Unclaimed : \A g \in Unclaimed : h <= g
        <5>1. Unclaimed \subseteq Nat
          BY <3>1 DEF Unclaimed
        <5> QED
          BY <3>2, <5>1, LeastNat
      <4> QED
        BY <3>1, <4>1 DEF GetUnclaimedSeedHousehold, Unclaimed
    <3>3. call' \in [Caller -> CallState]
      BY <2>6, <3>2 DEF FindSeed, With
    <3> QED
      BY <2>6, <3>3 DEF FindSeed, TypeOK, tables
  <2>7. CASE ClaimHousehold(c)
    <3>1. call' \in [Caller -> CallState]
      BY <2>7 DEF ClaimHousehold, With, ClaimLost
    <3>2. households' \in Seq([claimed : BOOLEAN])
      <4> DEFINE h == call[c].household
                 row == [households[h] EXCEPT !.claimed = TRUE]
      <4>1. h \in 1..Len(households) => row \in [claimed : BOOLEAN]
        <5>1. h \in 1..Len(households) => households[h] \in [claimed : BOOLEAN]
          <6>1. households \in Seq([claimed : BOOLEAN])
            BY DEF TypeOK
          <6> HIDE DEF h
          <6> QED
            BY <6>1, ElementOfSeq
        <5>2. \A r \in [claimed : BOOLEAN] : [r EXCEPT !.claimed = TRUE] \in [claimed : BOOLEAN]
          OBVIOUS
        <5> QED
          BY <5>1, <5>2
      <4>2. [households EXCEPT ![h] = row] \in Seq([claimed : BOOLEAN])
        BY <4>1, ReplaceInSeq DEF TypeOK
      <4> QED
        BY <2>7, <4>2 DEF ClaimHousehold, TypeOK
    <3> QED
      BY <2>7, <3>1, <3>2 DEF ClaimHousehold, TypeOK
  <2>8. CASE CreateHousehold(c)
    <3>1. Len(households) + 1 \in Nat
      BY DEF TypeOK
    <3>2. call' \in [Caller -> CallState]
      BY <2>8, <3>1 DEF CreateHousehold, With
    <3>3. households' \in Seq([claimed : BOOLEAN])
      BY <2>8 DEF CreateHousehold, TypeOK
    <3> QED
      BY <2>8, <3>2, <3>3 DEF CreateHousehold, TypeOK
  <2>9. CASE CreateMembership(c)
    <3>1. call' \in [Caller -> CallState]
      BY <2>9 DEF CreateMembership, NoHousehold
    <3>2. members' \subseteq [household : Nat, user : User]
      BY <2>9 DEF CreateMembership, TypeOK
    <3> QED
      BY <2>9, <3>1, <3>2 DEF CreateMembership, TypeOK
  <2>10. CASE IssueSession(c)
    <3>1. call' \in [Caller -> CallState]
      BY <2>10 DEF IssueSession, End
    <3>2. CreateSession(call[c].user) \in SessionRow
      BY <2>10 DEF IssueSession, CreateSession, SessionRow, TypeOK
    <3>3. sessions' \in Seq(SessionRow \cup {Gone})
      BY <2>10, <3>2 DEF IssueSession, TypeOK
    <3> QED
      BY <2>10, <3>1, <3>3 DEF IssueSession, TypeOK
  <2> QED
    BY <1>6, <2>1, <2>2, <2>3, <2>4, <2>5, <2>6, <2>7, <2>8, <2>9, <2>10 DEF LoginStep
<1>7. ASSUME NEW c \in Caller, RequestStep(c) PROVE TypeOK'
  <2> USE CallShape, CallStates, MoveCall
  <2>1. CASE JudgeSession(c)
    <3>1. NewExpiry(call[c].row) \in Nat
      BY <2>1 DEF JudgeSession, NewExpiry, Smaller, SessionRow, TypeOK
    <3>2. call' \in [Caller -> CallState]
      BY <2>1, <3>1 DEF JudgeSession
    <3> QED
      BY <2>1, <3>2 DEF JudgeSession, TypeOK, tables
  <2>2. CASE DeleteExpiredSessions(c)
    <3>1. call' \in [Caller -> CallState]
      BY <2>2 DEF DeleteExpiredSessions, End
    <3>2. sessions' \in Seq(SessionRow \cup {Gone})
      BY <2>2 DEF DeleteExpiredSessions, TypeOK, Session
    <3> QED
      BY <2>2, <3>1, <3>2 DEF DeleteExpiredSessions, TypeOK
  <2>3. CASE TouchSession(c)
    <3>1. call' \in [Caller -> CallState]
      BY <2>3 DEF TouchSession, End
    <3>2. sessions' \in Seq(SessionRow \cup {Gone})
      <4> DEFINE k == call[c].session
                 row == [sessions[k] EXCEPT !.expires = call[c].until]
      <4>1. k \in 1..Len(sessions) /\ sessions[k] # Gone => row \in SessionRow
        <5>1. k \in 1..Len(sessions) => sessions[k] \in SessionRow \cup {Gone}
          BY DEF TypeOK
        <5>2. \A r \in SessionRow, n \in Nat : [r EXCEPT !.expires = n] \in SessionRow
          BY DEF SessionRow
        <5>3. call[c].until \in Nat
          BY <2>3 DEF TouchSession
        <5> QED
          BY <5>1, <5>2, <5>3
      <4>2. sessions[k] # Gone => [sessions EXCEPT ![k] = row] \in Seq(SessionRow \cup {Gone})
        BY <4>1, ReplaceInSeq DEF TypeOK
      <4> QED
        BY <2>3, <4>2 DEF TouchSession, Touched, TypeOK
    <3> QED
      BY <2>3, <3>1, <3>2 DEF TouchSession, TypeOK
  <2>4. CASE LoadUserHousehold(c)
    <3>1. call' \in [Caller -> CallState]
      BY <2>4 DEF LoadUserHousehold, End
    <3> QED
      BY <2>4, <3>1 DEF LoadUserHousehold, TypeOK, tables
  <2>5. CASE Logout(c)
    <3>1. call' \in [Caller -> CallState]
      BY <2>5 DEF Logout, End
    <3>2. sessions' \in Seq(SessionRow \cup {Gone})
      <4> DEFINE k == call[c].session
                 row == [sessions[k] EXCEPT !.revoked = TRUE]
      <4>1. k \in 1..Len(sessions) /\ sessions[k] # Gone => row \in SessionRow
        <5>1. k \in 1..Len(sessions) => sessions[k] \in SessionRow \cup {Gone}
          BY DEF TypeOK
        <5>2. \A r \in SessionRow : [r EXCEPT !.revoked = TRUE] \in SessionRow
          BY DEF SessionRow
        <5> QED
          BY <5>1, <5>2
      <4>2. sessions[k] # Gone => [sessions EXCEPT ![k] = row] \in Seq(SessionRow \cup {Gone})
        BY <4>1, ReplaceInSeq DEF TypeOK
      <4> QED
        BY <2>5, <4>2 DEF Logout, RevokeSession, TypeOK
    <3> QED
      BY <2>5, <3>1, <3>2 DEF Logout, TypeOK
  <2>6. CASE Served(c)
    <3>1. call' \in [Caller -> CallState]
      BY <2>6 DEF Served, End
    <3> QED
      BY <2>6, <3>1 DEF Served, TypeOK, tables
  <2> QED
    BY <1>7, <2>1, <2>2, <2>3, <2>4, <2>5, <2>6 DEF RequestStep
<1>8. ASSUME NEW c \in Caller, CutOff(c) PROVE TypeOK'
  <2>1. call' \in [Caller -> CallState]
    BY <1>8, CallStates, MoveCall DEF CutOff, End
  <2>2. cutUsers' \subseteq User
    BY <1>8, CallShape DEF CutOff, TypeOK
  <2> QED
    BY <1>8, <2>1, <2>2 DEF CutOff, TypeOK, tables
<1> QED
  BY <1>1, <1>2, <1>3, <1>4, <1>5, <1>6, <1>7, <1>8 DEF Next

-----------------------------------------------------------------------------
(* Claims                                                                  *)

\* A step that leaves members and households alone and takes no call to a
\* claim or a membership keeps the claims.
LEMMA NoClaim ==
    ASSUME IInv, TypeOK', NEW c \in Caller,
           UNCHANGED <<members, households>>,
           \A d \in Caller : d # c => call'[d] = call[d],
           call'[c].at \notin {"claim", "member"}
    PROVE  IInv'
<1>1. Claims'
  BY DEF IInv, Claims
<1>2. SeedClaimedOnce'
  BY DEF IInv, SeedClaimedOnce
<1>3. \A d \in Caller : call'[d].at = "claim" => call'[d].household \in 1..Len(households)
  BY DEF IInv
<1> QED
  BY <1>1, <1>2, <1>3 DEF IInv

LEMMA StepInv == IInv /\ [Next]_vars => IInv'
<1> SUFFICES ASSUME IInv, [Next]_vars PROVE IInv'
  OBVIOUS
<1> USE AccessAssumption
<1>0. TypeOK /\ TypeOK'
  BY TypeStep DEF IInv
<1>1. ASSUME UNCHANGED <<members, households, call>> PROVE IInv'
  BY <1>0, <1>1 DEF IInv, Claims, SeedClaimedOnce
<1>2. ASSUME NEW c \in Caller, NEW s, call' = [call EXCEPT ![c] = s],
             s.at \notin {"claim", "member"}, UNCHANGED <<members, households>>
      PROVE  IInv'
  <2>1. call'[c] = s /\ \A d \in Caller : d # c => call'[d] = call[d]
    BY <1>0, <1>2 DEF TypeOK
  <2> QED
    BY <1>0, <1>2, <2>1, NoClaim
<1>3. ASSUME NEW c \in Caller, FindSeed(c) PROVE IInv'
  <2>1. CASE ClaimExistingData /\ Unclaimed # {}
    <3> DEFINE h == GetUnclaimedSeedHousehold
               s == With(c, "claim", h)
    <3>1. h \in Household
      <4>1. Unclaimed \subseteq Nat
        BY DEF Unclaimed, Household
      <4>2. \E g \in Unclaimed : \A k \in Unclaimed : g <= k
        BY <2>1, <4>1, LeastNat
      <4> QED
        BY <4>2 DEF GetUnclaimedSeedHousehold, Unclaimed
    <3>2. call' = [call EXCEPT ![c] = s] /\ UNCHANGED <<members, households>>
      BY <1>3, <2>1 DEF FindSeed, tables
    <3>3. s.at = "claim" /\ s.household = h
      BY DEF With
    <3> HIDE DEF h, s
    <3>4. call'[c] = s /\ \A d \in Caller : d # c => call'[d] = call[d]
      BY <1>0, <3>2 DEF TypeOK
    <3>5. Claims'
      BY <3>2, <3>3, <3>4 DEF IInv, Claims
    <3> QED
      BY <1>0, <3>1, <3>2, <3>3, <3>4, <3>5 DEF IInv, SeedClaimedOnce, Household
  <2>2. CASE ~(ClaimExistingData /\ Unclaimed # {})
    <3>1. With(c, "household", 0).at = "household"
      BY DEF With
    <3> QED
      BY <1>2, <1>3, <2>2, <3>1 DEF FindSeed, tables
  <2> QED
    BY <2>1, <2>2
<1>4. ASSUME NEW c \in Caller, ClaimHousehold(c) PROVE IInv'
  <2> DEFINE h == call[c].household
             s == With(c, "member", h)
  <2>1. CASE Claimable(h)
    <3>1. /\ call' = [call EXCEPT ![c] = s] /\ UNCHANGED members
          /\ households' = [households EXCEPT ![h].claimed = TRUE]
          /\ h \in 1..Len(households) /\ ~households[h].claimed
      BY <1>4, <2>1 DEF ClaimHousehold, Claimable, IInv
    <3>2. s.at = "member" /\ s.household = h
      BY DEF With
    <3> HIDE DEF h, s
    <3>3. call'[c] = s /\ \A d \in Caller : d # c => call'[d] = call[d]
      BY <1>0, <3>1 DEF TypeOK
    <3>4. /\ Len(households') = Len(households)
          /\ households'[h].claimed
          /\ \A g \in 1..Len(households) : g # h => households'[g] = households[g]
      <4>1. households \in Seq([claimed : BOOLEAN])
        BY <1>0 DEF TypeOK
      <4>2. households[h] \in [claimed : BOOLEAN]
        BY <3>1, <4>1, ElementOfSeq
      <4>3. [households[h] EXCEPT !.claimed = TRUE].claimed
        BY <4>2
      <4> QED
        BY <3>1, <4>1, <4>3
    <3>5. \A m \in members : m.household \in 1..Seeds => m.household # h
      BY <3>1 DEF IInv, Claims
    <3>6. \A d \in Caller : call[d].at = "member" /\ call[d].household \in 1..Seeds
                            => call[d].household # h
      BY <3>1 DEF IInv, Claims
    <3>7. 1..Seeds \subseteq 1..Len(households)
      BY <1>0 DEF IInv, TypeOK
    <3>8. Claims'
      BY <3>1, <3>2, <3>3, <3>4, <3>5, <3>6, <3>7 DEF IInv, Claims
    <3> QED
      BY <1>0, <3>1, <3>2, <3>3, <3>4, <3>8 DEF IInv, SeedClaimedOnce
  <2>2. CASE ~Claimable(h)
    <3>1. ClaimLost(c).at = "household"
      BY DEF ClaimLost, With
    <3> QED
      BY <1>2, <1>4, <2>2, <3>1 DEF ClaimHousehold
  <2> QED
    BY <2>1, <2>2
<1>5. ASSUME NEW c \in Caller, CreateHousehold(c) PROVE IInv'
  <2> DEFINE h == Len(households) + 1
             s == With(c, "member", h)
  <2>1. /\ call' = [call EXCEPT ![c] = s] /\ UNCHANGED members
        /\ households' = Append(households, [claimed |-> FALSE])
    BY <1>5 DEF CreateHousehold
  <2>2. s.at = "member" /\ s.household = h
    BY DEF With
  <2>3. Len(households) \in Nat /\ h \notin 1..Seeds
    BY <1>0 DEF TypeOK, IInv
  <2>4. /\ Len(households') = h
        /\ \A g \in 1..Len(households) : households'[g] = households[g]
    BY <1>0, <2>1 DEF TypeOK
  <2> HIDE DEF s
  <2>5. call'[c] = s /\ \A d \in Caller : d # c => call'[d] = call[d]
    BY <1>0, <2>1 DEF TypeOK
  <2>6. 1..Seeds \subseteq 1..Len(households)
    BY <2>3 DEF IInv
  <2>7. Claims'
    BY <2>1, <2>2, <2>3, <2>4, <2>5, <2>6 DEF IInv, Claims
  <2> QED
    BY <1>0, <2>1, <2>2, <2>3, <2>4, <2>5, <2>7 DEF IInv, SeedClaimedOnce
<1>6. ASSUME NEW c \in Caller, CreateMembership(c) PROVE IInv'
  <2> DEFINE h == call[c].household
             n == [household |-> h, user |-> call[c].user]
             s == NoHousehold(c)
  <2>1. /\ call' = [call EXCEPT ![c] = s] /\ UNCHANGED households
        /\ members' = members \cup {n} /\ call[c].at = "member"
    BY <1>6 DEF CreateMembership
  <2>2. s.at = "issue" /\ n.household = h
    BY DEF NoHousehold
  <2> HIDE DEF s, n
  <2>3. call'[c] = s /\ \A d \in Caller : d # c => call'[d] = call[d]
    BY <1>0, <2>1 DEF TypeOK
  <2>4. h \in 1..Seeds => /\ households[h].claimed
                          /\ \A m \in members : m.household # h
                          /\ \A d \in Caller : call[d].at = "member" /\ call[d].household = h
                                               => d = c
    BY <2>1 DEF IInv, Claims
  <2>5. Claims'
    BY <2>1, <2>2, <2>3, <2>4 DEF IInv, Claims
  <2>6. SeedClaimedOnce'
    BY <2>1, <2>2, <2>4 DEF IInv, SeedClaimedOnce
  <2> QED
    BY <1>0, <2>1, <2>2, <2>3, <2>5, <2>6 DEF IInv
<1>7. ASSUME NEW c \in Caller,
             \/ \E f \in DOMAIN states : Callback(c, f)
             \/ \E k \in Session : ReadSession(c, k)
             \/ Redeem(c) \/ Exchange(c) \/ FindIdentity(c) \/ CreateUser(c)
             \/ UpsertAuthIdentity(c) \/ IssueSession(c)
             \/ RequestStep(c) \/ CutOff(c)
      PROVE  IInv'
  <2>1. /\ UNCHANGED <<members, households>>
        /\ \E s : call' = [call EXCEPT ![c] = s] /\ s.at \notin {"claim", "member"}
    BY <1>7 DEF Callback, ReadSession, Redeem, Exchange, FindIdentity, CreateUser,
       UpsertAuthIdentity, IssueSession, RequestStep, JudgeSession, DeleteExpiredSessions,
       TouchSession, LoadUserHousehold, Logout, Served, CutOff, End, Idle, tables
  <2> QED
    BY <1>2, <2>1
<1>8. ASSUME Tick \/ StartLogin \/ UNCHANGED vars PROVE IInv'
  BY <1>1, <1>8 DEF Tick, StartLogin, vars, tables
<1> QED
  BY <1>3, <1>4, <1>5, <1>6, <1>7, <1>8 DEF Next, LoginStep

\* Types, and one claim of each household of the beginning.
THEOREM Invariance == Spec => []IInv
  BY InitInv, StepInv, PTL DEF Spec

\* Tables and calls keep their types: no session is issued to nobody.
THEOREM TypeCorrect == Spec => []TypeOK
<1>1. IInv => TypeOK
  BY DEF IInv
<1> QED
  BY Invariance, <1>1, PTL

\* A household that was there before gets one user, whoever logs in at the
\* same time (ClaimHousehold's claimed_at IS NULL).
THEOREM ClaimedOnce == Spec => []SeedClaimedOnce
<1>1. IInv => SeedClaimedOnce
  BY DEF IInv
<1> QED
  BY Invariance, <1>1, PTL

-----------------------------------------------------------------------------
(* Identities and revocations                                              *)

\* Two first logins of one person leave the identity with one of their users
\* for good (ON CONFLICT of UpsertAuthIdentity).
THEOREM IdentitiesStay == Spec => IdentityKept
<1>1. ASSUME TypeOK, [Next]_vars, NEW s \in Subject, identity[s] # Nobody
      PROVE  identity'[s] = identity[s]
  <2>1. CASE UNCHANGED identity
    BY <2>1
  <2>2. ASSUME NEW c \in Caller, UpsertAuthIdentity(c) PROVE identity'[s] = identity[s]
    BY <1>1, <2>2 DEF UpsertAuthIdentity, IdentityUser, Known, TypeOK
  <2>3. \/ UNCHANGED identity
        \/ \E c \in Caller : UpsertAuthIdentity(c)
    BY <1>1 DEF Next, vars, tables, Tick, StartLogin, Callback, ReadSession, LoginStep, Redeem,
       Exchange, FindIdentity, CreateUser, FindSeed, ClaimHousehold, CreateHousehold,
       CreateMembership, IssueSession, RequestStep, JudgeSession, DeleteExpiredSessions,
       TouchSession, LoadUserHousehold, Logout, Served, CutOff
  <2> QED
    BY <2>1, <2>2, <2>3
<1>2. TypeOK /\ [Next]_vars =>
        [\A s \in Subject : identity[s] # Nobody => identity'[s] = identity[s]]_vars
  BY <1>1
<1> QED
  BY TypeCorrect, <1>2, PTL DEF Spec, IdentityKept

\* A revoked or deleted session stays so, whatever requests that read it
\* before still do (the guards of TouchSession and RevokeSession).
THEOREM RevocationsStay == Spec => RevokedIsFinal
<1>1. ASSUME TypeOK, [Next]_vars, NEW k \in Session, sessions[k] = Gone \/ sessions[k].revoked
      PROVE  sessions'[k] = Gone \/ sessions'[k].revoked
  <2>0. sessions \in Seq(SessionRow \cup {Gone}) /\ sessions[k] \in SessionRow \cup {Gone}
    BY <1>1, ElementOfSeq DEF TypeOK, Session
  <2>1. CASE UNCHANGED sessions
    BY <1>1, <2>1
  <2>2. ASSUME NEW c \in Caller, IssueSession(c)
        PROVE  sessions'[k] = Gone \/ sessions'[k].revoked
    BY <1>1, <2>0, <2>2 DEF IssueSession, Session
  <2>3. ASSUME NEW c \in Caller, DeleteExpiredSessions(c)
        PROVE  sessions'[k] = Gone \/ sessions'[k].revoked
    BY <1>1, <2>3 DEF DeleteExpiredSessions
  <2>4. ASSUME NEW c \in Caller, TouchSession(c)
        PROVE  sessions'[k] = Gone \/ sessions'[k].revoked
    <3> DEFINE j == call[c].session
    <3>1. CASE j = k
      BY <1>1, <2>4, <3>1 DEF TouchSession, Touched
    <3>2. CASE j # k
      BY <1>1, <2>0, <2>4, <3>2 DEF TouchSession, Session
    <3> QED
      BY <3>1, <3>2
  <2>5. ASSUME NEW c \in Caller, Logout(c)
        PROVE  sessions'[k] = Gone \/ sessions'[k].revoked
    <3> DEFINE j == call[c].session
               row == [sessions[j] EXCEPT !.revoked = TRUE]
    <3>1. CASE sessions[j] = Gone \/ j # k
      BY <1>1, <2>0, <2>5, <3>1 DEF Logout, RevokeSession, Session
    <3>2. CASE sessions[j] # Gone /\ j = k
      <4>1. \A r \in SessionRow : [r EXCEPT !.revoked = TRUE].revoked
        BY DEF SessionRow
      <4>2. sessions'[k] = [sessions[k] EXCEPT !.revoked = TRUE]
        <5>1. sessions' = [sessions EXCEPT ![k] = [sessions[k] EXCEPT !.revoked = TRUE]]
          BY <2>5, <3>2 DEF Logout, RevokeSession
        <5>2. k \in DOMAIN sessions
          BY <1>1, <2>0 DEF Session
        <5> QED
          BY <5>1, <5>2
      <4> QED
        BY <2>0, <3>2, <4>1, <4>2
    <3> QED
      BY <3>1, <3>2
  <2>6. \/ UNCHANGED sessions
        \/ \E c \in Caller : \/ IssueSession(c) \/ DeleteExpiredSessions(c)
                             \/ TouchSession(c) \/ Logout(c)
    BY <1>1 DEF Next, vars, tables, Tick, StartLogin, Callback, ReadSession, LoginStep, Redeem,
       Exchange, FindIdentity, CreateUser, UpsertAuthIdentity, FindSeed, ClaimHousehold,
       CreateHousehold, CreateMembership, RequestStep, JudgeSession, LoadUserHousehold, Served,
       CutOff
  <2> QED
    BY <2>1, <2>2, <2>3, <2>4, <2>5, <2>6
<1>2. TypeOK /\ [Next]_vars =>
        [\A k \in Session : sessions[k] = Gone \/ sessions[k].revoked
          => sessions'[k] = Gone \/ sessions'[k].revoked]_vars
  BY <1>1
<1> QED
  BY TypeCorrect, <1>2, PTL DEF Spec, RevokedIsFinal

-----------------------------------------------------------------------------
(* Every user has a household, or will                                     *)

\* The calls that are still to give their user a household.
Attaching == {"attach", "claim", "household", "member"}
Housed(u) ==
    \/ GetMembershipsByUser(u) # {}
    \/ u \in cutUsers
    \/ \E c \in Caller : call[c].at \in Attaching /\ call[c].user = u

\* So it is for the user of an identity, of a login about to issue a session
\* and of a session.
Homes ==
    /\ \A s \in Subject : Known(s) => Housed(identity[s])
    /\ \A c \in Caller : call[c].at = "issue" => Housed(call[c].user)
    /\ \A k \in Session : sessions[k] # Gone => Housed(sessions[k].user)

\* A step of one call: the others stay where they are.
LEMMA OneCallMoves ==
    ASSUME TypeOK, [Next]_vars
    PROVE  \/ UNCHANGED call
           \/ \E c \in Caller :
                 /\ \/ \E f \in DOMAIN states : Callback(c, f)
                    \/ \E k \in Session : ReadSession(c, k)
                    \/ LoginStep(c) \/ RequestStep(c) \/ CutOff(c)
                 /\ \A d \in Caller : d # c => call'[d] = call[d]
<1>1. ASSUME NEW c \in Caller, NEW s, call' = [call EXCEPT ![c] = s]
      PROVE  \A d \in Caller : d # c => call'[d] = call[d]
  BY <1>1 DEF TypeOK
<1>2. CASE Tick \/ StartLogin \/ UNCHANGED vars
  BY <1>2 DEF Tick, StartLogin, vars
<1>3. ASSUME NEW c \in Caller,
             \/ \E f \in DOMAIN states : Callback(c, f)
             \/ \E k \in Session : ReadSession(c, k)
             \/ LoginStep(c) \/ RequestStep(c) \/ CutOff(c)
      PROVE  \A d \in Caller : d # c => call'[d] = call[d]
  <2>1. \E s : call' = [call EXCEPT ![c] = s]
    BY <1>3 DEF Callback, ReadSession, LoginStep, Redeem, Exchange, FindIdentity, CreateUser,
       UpsertAuthIdentity, FindSeed, ClaimHousehold, CreateHousehold, CreateMembership,
       IssueSession, RequestStep, JudgeSession, DeleteExpiredSessions, TouchSession,
       LoadUserHousehold, Logout, Served, CutOff, End
  <2> QED
    BY <1>1, <2>1
<1> QED
  BY <1>2, <1>3 DEF Next

\* A login moves on with its user until the user has a household.
LEMMA HousedStays ==
    ASSUME TypeOK, [Next]_vars, NEW u, Housed(u)
    PROVE  Housed(u)'
<1>1. members \subseteq members' /\ cutUsers \subseteq cutUsers'
  BY DEF Next, vars, tables, Tick, StartLogin, Callback, ReadSession, LoginStep, Redeem,
     Exchange, FindIdentity, CreateUser, UpsertAuthIdentity, FindSeed, ClaimHousehold,
     CreateHousehold, CreateMembership, IssueSession, RequestStep, JudgeSession,
     DeleteExpiredSessions, TouchSession, LoadUserHousehold, Logout, Served, CutOff
<1>2. CASE GetMembershipsByUser(u) # {} \/ u \in cutUsers
  BY <1>1, <1>2 DEF Housed, GetMembershipsByUser
<1>3. ASSUME NEW c \in Caller, call[c].at \in Attaching, call[c].user = u
      PROVE  Housed(u)'
  <2>1. CASE call'[c] = call[c]
    BY <1>3, <2>1 DEF Housed
  <2>2. ASSUME NEW s, call' = [call EXCEPT ![c] = s]
        PROVE  call'[c] = s
    BY <2>2 DEF TypeOK
  <2>3. CASE FindSeed(c)
    <3>1. call'[c].at \in Attaching /\ call'[c].user = u
      BY <1>3, <2>2, <2>3 DEF FindSeed, With, Attaching
    <3> QED
      BY <3>1 DEF Housed
  <2>4. CASE ClaimHousehold(c)
    <3>1. call'[c].at \in Attaching /\ call'[c].user = u
      BY <1>3, <2>2, <2>4 DEF ClaimHousehold, ClaimLost, With, Attaching
    <3> QED
      BY <3>1 DEF Housed
  <2>5. CASE CreateHousehold(c)
    <3>1. call'[c].at \in Attaching /\ call'[c].user = u
      BY <1>3, <2>2, <2>5 DEF CreateHousehold, With, Attaching
    <3> QED
      BY <3>1 DEF Housed
  <2>6. CASE CreateMembership(c)
    <3>1. [household |-> call[c].household, user |-> u] \in GetMembershipsByUser(u)'
      BY <1>3, <2>6 DEF CreateMembership, GetMembershipsByUser
    <3> QED
      BY <3>1 DEF Housed
  <2>7. CASE CutOff(c)
    <3>1. u \in cutUsers'
      BY <1>3, <2>7 DEF CutOff, Attaching
    <3> QED
      BY <3>1 DEF Housed
  <2>8. CASE \/ \E f \in DOMAIN states : Callback(c, f)
             \/ \E k \in Session : ReadSession(c, k)
             \/ Redeem(c) \/ Exchange(c) \/ FindIdentity(c) \/ CreateUser(c)
             \/ UpsertAuthIdentity(c) \/ IssueSession(c) \/ RequestStep(c)
    BY <1>3, <2>8 DEF Attaching, Callback, ReadSession, Idle, Redeem, Exchange, FindIdentity,
       CreateUser, UpsertAuthIdentity, IssueSession, RequestStep, JudgeSession,
       DeleteExpiredSessions, TouchSession, LoadUserHousehold, Logout, Served
  <2> QED
    BY <2>1, <2>3, <2>4, <2>5, <2>6, <2>7, <2>8, OneCallMoves DEF LoginStep
<1> QED
  BY <1>2, <1>3 DEF Housed

\* A session row was there before, its user and its absolute end unchanged and
\* its expiry moved by a touch if at all, or was issued by this step.
LEMMA RowsStay ==
    ASSUME TypeOK, [Next]_vars, NEW k \in Session', sessions'[k] # Gone
    PROVE  \/ /\ k \in Session /\ sessions[k] # Gone
              /\ sessions'[k].user = sessions[k].user
              /\ sessions'[k].absolute = sessions[k].absolute
              /\ \/ sessions'[k].expires = sessions[k].expires
                 \/ \E c \in Caller : /\ call[c].at = "touch" /\ call[c].session = k
                                      /\ sessions'[k].expires = call[c].until
           \/ /\ k \notin Session
              /\ \E c \in Caller :
                    call[c].at = "issue" /\ sessions'[k] = CreateSession(call[c].user)
<1> DEFINE Goal == \/ /\ k \in Session /\ sessions[k] # Gone
                      /\ sessions'[k].user = sessions[k].user
                      /\ sessions'[k].absolute = sessions[k].absolute
                      /\ \/ sessions'[k].expires = sessions[k].expires
                         \/ \E c \in Caller : /\ call[c].at = "touch" /\ call[c].session = k
                                              /\ sessions'[k].expires = call[c].until
                   \/ /\ k \notin Session
                      /\ \E c \in Caller :
                            call[c].at = "issue" /\ sessions'[k] = CreateSession(call[c].user)
<1> SUFFICES Goal
  OBVIOUS
<1>0. sessions \in Seq(SessionRow \cup {Gone})
  BY DEF TypeOK
<1>1. CASE k \in Session /\ sessions'[k] = sessions[k]
  BY <1>1
<1>2. CASE UNCHANGED sessions
  BY <1>1, <1>2 DEF Session
<1>3. ASSUME NEW c \in Caller, IssueSession(c) PROVE Goal
  <2>1. CASE k \in Session
    BY <1>0, <1>1, <1>3, <2>1 DEF IssueSession, Session
  <2>2. CASE k \notin Session
    <3>1. k = Len(sessions) + 1
      BY <1>0, <1>3, <2>2 DEF IssueSession, Session
    <3>2. sessions'[k] = CreateSession(call[c].user)
      BY <1>0, <1>3, <3>1 DEF IssueSession
    <3> QED
      BY <1>3, <2>2, <3>2 DEF IssueSession
  <2> QED
    BY <2>1, <2>2
<1>4. ASSUME NEW c \in Caller, DeleteExpiredSessions(c) PROVE Goal
  <2>1. k \in Session
    BY <1>0, <1>4 DEF DeleteExpiredSessions, Session
  <2> QED
    BY <1>1, <1>4, <2>1 DEF DeleteExpiredSessions
<1>5. ASSUME NEW c \in Caller, NEW row, NEW j, sessions[j] # Gone,
             sessions' = [sessions EXCEPT ![j] = row],
             row.user = sessions[j].user, row.absolute = sessions[j].absolute,
             \/ row.expires = sessions[j].expires
             \/ call[c].at = "touch" /\ call[c].session = j /\ row.expires = call[c].until
      PROVE  Goal
  <2>1. k \in Session
    BY <1>0, <1>5 DEF Session
  <2>2. k # j => sessions'[k] = sessions[k]
    BY <1>0, <1>5, <2>1 DEF Session
  <2>3. k = j => sessions'[k] = row
    BY <1>0, <1>5, <2>1 DEF Session
  <2> QED
    BY <1>1, <1>5, <2>1, <2>2, <2>3
<1>6. \A j \in Session : sessions[j] \in SessionRow \cup {Gone}
  BY <1>0 DEF Session
<1>7. ASSUME NEW c \in Caller, TouchSession(c) PROVE Goal
  <2> DEFINE j == call[c].session
             row == [sessions[j] EXCEPT !.expires = call[c].until]
  <2>1. CASE sessions' = sessions
    BY <1>2, <2>1
  <2>2. CASE sessions' = [sessions EXCEPT ![j] = row] /\ sessions[j] # Gone
    <3>1. CASE j \in Session
      <4>1. sessions[j] \in SessionRow
        BY <1>6, <2>2, <3>1
      <4>2. /\ row.user = sessions[j].user /\ row.absolute = sessions[j].absolute
            /\ row.expires = call[c].until
        BY <4>1 DEF SessionRow
      <4>3. call[c].at = "touch"
        BY <1>7 DEF TouchSession
      <4> HIDE DEF row
      <4> QED
        BY <1>5, <2>2, <4>2, <4>3
    <3>2. CASE j \notin Session
      <4>1. sessions' = sessions
        BY <1>0, <2>2, <3>2 DEF Session
      <4> QED
        BY <1>2, <4>1
    <3> QED
      BY <3>1, <3>2
  <2> QED
    BY <1>7, <2>1, <2>2 DEF TouchSession, Touched
<1>8. ASSUME NEW c \in Caller, Logout(c) PROVE Goal
  <2> DEFINE j == call[c].session
             row == [sessions[j] EXCEPT !.revoked = TRUE]
  <2>1. CASE sessions' = sessions
    BY <1>2, <2>1
  <2>2. CASE sessions' = [sessions EXCEPT ![j] = row] /\ sessions[j] # Gone
    <3>1. CASE j \in Session
      <4>1. sessions[j] \in SessionRow
        BY <1>6, <2>2, <3>1
      <4>2. /\ row.user = sessions[j].user /\ row.absolute = sessions[j].absolute
            /\ row.expires = sessions[j].expires
        BY <4>1 DEF SessionRow
      <4> HIDE DEF row
      <4> QED
        BY <1>5, <2>2, <4>2
    <3>2. CASE j \notin Session
      <4>1. sessions' = sessions
        BY <1>0, <2>2, <3>2 DEF Session
      <4> QED
        BY <1>2, <4>1
    <3> QED
      BY <3>1, <3>2
  <2>3. \/ sessions' = sessions
        \/ sessions' = [sessions EXCEPT ![j].revoked = TRUE] /\ sessions[j] # Gone
    BY <1>8 DEF Logout, RevokeSession
  <2> QED
    BY <2>1, <2>2, <2>3
<1>9. \/ UNCHANGED sessions
      \/ \E c \in Caller : \/ IssueSession(c) \/ DeleteExpiredSessions(c)
                           \/ TouchSession(c) \/ Logout(c)
  BY DEF Next, vars, tables, Tick, StartLogin, Callback, ReadSession, LoginStep, Redeem,
     Exchange, FindIdentity, CreateUser, UpsertAuthIdentity, FindSeed, ClaimHousehold,
     CreateHousehold, CreateMembership, RequestStep, JudgeSession, LoadUserHousehold, Served,
     CutOff
<1> HIDE DEF Goal
<1> QED
  BY <1>2, <1>3, <1>4, <1>7, <1>8, <1>9

\* Who holds a user next held it before, or is a login that is to give it a
\* household, or stored the identity it found.
LEMMA HomesStep == TypeOK /\ Homes /\ [Next]_vars => Homes'
<1> SUFFICES ASSUME TypeOK, Homes, [Next]_vars PROVE Homes'
  OBVIOUS
<1>0. \A u : Housed(u) => Housed(u)'
  BY HousedStays
<1>1. ASSUME NEW s \in Subject, identity'[s] # Nobody PROVE Housed(identity[s])'
  <2>1. CASE identity'[s] = identity[s]
    BY <1>0, <1>1, <2>1 DEF Homes, Known
  <2>2. ASSUME NEW c \in Caller, UpsertAuthIdentity(c), identity'[s] # identity[s]
        PROVE  Housed(identity[s])'
    <3>1. identity'[s] = call[c].user
      BY <2>2 DEF UpsertAuthIdentity, IdentityUser, Known, TypeOK
    <3>2. call'[c].at \in Attaching /\ call'[c].user = call[c].user
      BY <2>2 DEF UpsertAuthIdentity, TypeOK, Attaching
    <3> QED
      BY <3>1, <3>2 DEF Housed
  <2>3. UNCHANGED identity \/ \E c \in Caller : UpsertAuthIdentity(c)
    BY DEF Next, vars, tables, Tick, StartLogin, Callback, ReadSession, LoginStep, Redeem,
       Exchange, FindIdentity, CreateUser, FindSeed, ClaimHousehold, CreateHousehold,
       CreateMembership, IssueSession, RequestStep, JudgeSession, DeleteExpiredSessions,
       TouchSession, LoadUserHousehold, Logout, Served, CutOff
  <2> QED
    BY <2>1, <2>2, <2>3
<1>2. ASSUME NEW c \in Caller, call'[c].at = "issue" PROVE Housed(call[c].user)'
  <2>1. CASE call'[c] = call[c]
    BY <1>0, <1>2, <2>1 DEF Homes
  <2>2. ASSUME NEW s, call' = [call EXCEPT ![c] = s]
        PROVE  call'[c] = s
    BY <2>2 DEF TypeOK
  <2>3. CASE FindIdentity(c)
    <3>1. /\ Known(call[c].subject) /\ call[c].subject \in Subject
          /\ call'[c].user = identity[call[c].subject]
      BY <1>2, <2>2, <2>3, CallShape DEF FindIdentity
    <3> QED
      BY <1>0, <3>1 DEF Homes
  <2>4. CASE CreateMembership(c)
    <3>1. /\ call'[c].user = call[c].user
          /\ [household |-> call[c].household, user |-> call[c].user]
                \in GetMembershipsByUser(call[c].user)'
      BY <2>2, <2>4 DEF CreateMembership, NoHousehold, GetMembershipsByUser
    <3> QED
      BY <3>1 DEF Housed
  <2>5. CASE \/ \E f \in DOMAIN states : Callback(c, f)
             \/ \E k \in Session : ReadSession(c, k)
             \/ Redeem(c) \/ Exchange(c) \/ CreateUser(c) \/ UpsertAuthIdentity(c)
    <3>1. call'[c].at # "issue"
      BY <2>2, <2>5 DEF Callback, ReadSession, Redeem, Exchange, CreateUser,
         UpsertAuthIdentity, End, Idle
    <3> QED
      BY <1>2, <3>1
  <2>6. CASE FindSeed(c) \/ ClaimHousehold(c) \/ CreateHousehold(c) \/ IssueSession(c)
    <3>1. call'[c].at # "issue"
      BY <2>6 DEF FindSeed, ClaimHousehold, CreateHousehold, IssueSession, End, Idle,
         With, ClaimLost, TypeOK
    <3> QED
      BY <1>2, <3>1
  <2>7. CASE RequestStep(c) \/ CutOff(c)
    <3>1. call'[c].at # "issue"
      BY <2>2, <2>7 DEF RequestStep, JudgeSession, DeleteExpiredSessions, TouchSession,
         LoadUserHousehold, Logout, Served, CutOff, End, Idle
    <3> QED
      BY <1>2, <3>1
  <2> QED
    BY <2>1, <2>3, <2>4, <2>5, <2>6, <2>7, OneCallMoves DEF LoginStep
<1>3. ASSUME NEW k \in Session', sessions'[k] # Gone PROVE Housed(sessions[k].user)'
  <2>1. ASSUME k \in Session, sessions[k] # Gone, sessions'[k].user = sessions[k].user
        PROVE  Housed(sessions[k].user)'
    BY <1>0, <2>1 DEF Homes
  <2>2. ASSUME NEW c \in Caller, call[c].at = "issue", sessions'[k].user = call[c].user
        PROVE  Housed(sessions[k].user)'
    BY <1>0, <2>2 DEF Homes
  <2>3. \A u : CreateSession(u).user = u
    BY DEF CreateSession
  <2> QED
    BY <1>3, <2>1, <2>2, <2>3, RowsStay
<1> QED
  BY <1>1, <1>2, <1>3 DEF Homes, Known

\* A user who has a session has a household, whichever logins raced for the
\* data of the beginning or for one identity, unless the login that created
\* the user was cut off (attachHousehold after UpsertAuthIdentity).
THEOREM HouseholdForAll == Spec => []HouseholdUnlessCut
<1>1. Init => Homes
  BY DEF Init, Homes, Known, Idle, Session
<1>2. TypeOK /\ Homes => HouseholdUnlessCut
  BY DEF Homes, Housed, Attaching, HouseholdUnlessCut, Idle
<1> QED
  BY <1>1, <1>2, HomesStep, TypeCorrect, PTL DEF Spec

-----------------------------------------------------------------------------
(* The absolute end of a session                                           *)

\* What a request read of a session, its absolute end, is still so when it
\* moves the expiry.
Lifetimes ==
    /\ \A c \in Caller : call[c].at \in {"judge", "touch"} =>
          /\ call[c].session \in Session
          /\ sessions[call[c].session] # Gone =>
                sessions[call[c].session].absolute = call[c].row.absolute
    /\ \A c \in Caller : call[c].at = "touch" => call[c].until <= call[c].row.absolute

\* No row is taken off the list of sessions, and none gets another absolute end.
LEMMA SessionsStay ==
    ASSUME TypeOK, [Next]_vars
    PROVE  /\ Session \subseteq Session'
           /\ \A k \in Session : sessions'[k] # Gone => /\ sessions[k] # Gone
                                                       /\ sessions'[k].absolute = sessions[k].absolute
<1>1. sessions \in Seq(SessionRow \cup {Gone})
  BY DEF TypeOK
<1>2. \/ UNCHANGED sessions
      \/ \E c \in Caller : sessions' = Append(sessions, CreateSession(call[c].user))
      \/ sessions' = [k \in Session |-> IF Ended(sessions[k]) THEN Gone ELSE sessions[k]]
      \/ \E j, row : sessions' = [sessions EXCEPT ![j] = row]
  BY DEF Next, vars, tables, Tick, StartLogin, Callback, ReadSession, LoginStep, Redeem,
     Exchange, FindIdentity, CreateUser, UpsertAuthIdentity, FindSeed, ClaimHousehold,
     CreateHousehold, CreateMembership, IssueSession, RequestStep, JudgeSession,
     DeleteExpiredSessions, TouchSession, LoadUserHousehold, Logout, RevokeSession, Served,
     CutOff
<1>3. Session \subseteq Session'
  BY <1>1, <1>2 DEF Session
<1>4. ASSUME NEW k \in Session, sessions'[k] # Gone
      PROVE  sessions[k] # Gone /\ sessions'[k].absolute = sessions[k].absolute
  BY <1>3, <1>4, RowsStay
<1> QED
  BY <1>3, <1>4

\* Only a judged request touches, with an expiry no later than the absolute
\* end it read, and nothing moves that end.
LEMMA LifetimesStep == TypeOK /\ Lifetimes /\ [Next]_vars => Lifetimes'
<1> SUFFICES ASSUME TypeOK, Lifetimes, [Next]_vars PROVE Lifetimes'
  OBVIOUS
<1> USE AccessAssumption
<1>1. /\ Session \subseteq Session'
      /\ \A k \in Session : sessions'[k] # Gone => /\ sessions[k] # Gone
                                                  /\ sessions'[k].absolute = sessions[k].absolute
  BY SessionsStay
<1>2. ASSUME NEW c \in Caller, call'[c].at \in {"judge", "touch"}
      PROVE  /\ call'[c].session \in Session'
             /\ sessions'[call'[c].session] # Gone =>
                   sessions'[call'[c].session].absolute = call'[c].row.absolute
             /\ call'[c].at = "touch" => call'[c].until <= call'[c].row.absolute
  <2>1. CASE call'[c] = call[c]
    BY <1>1, <1>2, <2>1 DEF Lifetimes
  <2>2. call \in [Caller -> CallState]
    BY DEF TypeOK
  <2>3. ASSUME NEW k \in Session, ReadSession(c, k)
        PROVE  call'[c].session = k /\ call'[c].row = sessions[k] /\ call'[c].at = "judge"
    BY <2>2, <2>3 DEF ReadSession
  <2>4. ASSUME JudgeSession(c)
        PROVE  /\ call[c].at = "judge"
               /\ call'[c].session = call[c].session /\ call'[c].row = call[c].row
               /\ call'[c].until = NewExpiry(call[c].row)
    BY <1>2, <2>2, <2>4 DEF JudgeSession
  <2>5. \/ \E k \in Session : ReadSession(c, k)
        \/ JudgeSession(c)
        \/ call'[c] = call[c]
    <3>1. CASE \/ \E f \in DOMAIN states : Callback(c, f)
               \/ LoginStep(c) \/ CutOff(c)
      BY <1>2, <2>2, <3>1 DEF Callback, LoginStep, Redeem, Exchange, FindIdentity, CreateUser,
         UpsertAuthIdentity, FindSeed, ClaimHousehold, CreateHousehold, CreateMembership,
         IssueSession, CutOff, End, Idle, With, ClaimLost, NoHousehold
    <3>2. CASE DeleteExpiredSessions(c) \/ TouchSession(c) \/ LoadUserHousehold(c)
               \/ Logout(c) \/ Served(c)
      BY <1>2, <2>2, <3>2 DEF DeleteExpiredSessions, TouchSession, LoadUserHousehold, Logout,
         Served, End, Idle
    <3> QED
      BY <3>1, <3>2, OneCallMoves DEF RequestStep
  <2>6. CASE \E k \in Session : ReadSession(c, k)
    <3>1. PICK k \in Session : ReadSession(c, k)
      BY <2>6
    <3>2. call'[c].at = "judge" /\ call'[c].session = k /\ call'[c].row = sessions[k]
      BY <2>3, <3>1
    <3> QED
      BY <1>1, <3>1, <3>2 DEF ReadSession
  <2>7. CASE JudgeSession(c)
    <3>1. NewExpiry(call[c].row) <= call[c].row.absolute
      BY <2>4, <2>7, CallShape DEF NewExpiry, Smaller, SessionRow, TypeOK
    <3> QED
      BY <1>1, <2>4, <2>7, <3>1 DEF Lifetimes
  <2> QED
    BY <2>1, <2>5, <2>6, <2>7
<1> QED
  BY <1>2 DEF Lifetimes

\* At every time.
LEMMA LifetimesKept == Spec => []Lifetimes
<1>1. Init => Lifetimes
  BY DEF Init, Lifetimes, Idle, Session
<1> QED
  BY <1>1, LifetimesStep, TypeCorrect, PTL DEF Spec

\* Whatever the idle and the absolute time are, no overlap of requests extends a
\* session past its absolute end, and nothing moves that end (ResolveSession,
\* TouchSession).
THEOREM EndsInTime == Spec => WithinLifetime
<1>1. ASSUME TypeOK, Lifetimes, [Next]_vars, NEW k \in Session, sessions[k] # Gone, sessions'[k] # Gone
      PROVE  /\ sessions'[k].absolute = sessions[k].absolute
             /\ \/ sessions'[k].expires = sessions[k].expires
                \/ sessions'[k].expires <= sessions[k].absolute
  <2>1. k \in Session'
    BY <1>1, SessionsStay
  <2>2. /\ sessions'[k].absolute = sessions[k].absolute
        /\ \/ sessions'[k].expires = sessions[k].expires
           \/ \E c \in Caller : /\ call[c].at = "touch" /\ call[c].session = k
                                /\ sessions'[k].expires = call[c].until
    BY <1>1, <2>1, RowsStay
  <2> QED
    BY <1>1, <2>2 DEF Lifetimes
<1>2. TypeOK /\ Lifetimes /\ [Next]_vars =>
        [\A k \in Session : sessions[k] # Gone /\ sessions'[k] # Gone =>
          /\ sessions'[k].absolute = sessions[k].absolute
          /\ \/ sessions'[k].expires = sessions[k].expires
             \/ sessions'[k].expires <= sessions[k].absolute]_vars
  BY <1>1
<1> QED
  BY <1>2, LifetimesKept, TypeCorrect, PTL DEF Spec, WithinLifetime
=============================================================================
