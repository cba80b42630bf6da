---------------------------- MODULE IdentityProofs ----------------------------
(***************************************************************************)
(* Proofs about Identity: its types, its invariants and that it keeps the  *)
(* promise of OneTimeCode.                                                 *)
(***************************************************************************)
EXTENDS Identity, FiniteSetTheorems, TLAPS

(* A challenge, and a session, exists with its whole row. *)
RowsOK ==
    /\ \A c \in Challenges : challenge[c] = "NONE" <=> owner[c] = None
    /\ \A c \in Challenges : challenge[c] # "NONE" => account[owner[c]] # "NONE"
    /\ \A c \in Challenges : challenge[c] = "NONE" => attempts[c] = 0 /\ c \notin late
    /\ \A s \in Sessions : session[s] = "NONE" <=> opener[s] = None
    /\ \A s \in Sessions : session[s] = "NONE" => s \notin lapsed
    /\ \A s, t \in Sessions : opener[s] = opener[t] /\ opener[s] # None => s = t

(* What an open request holds on to. The scan of a start still covers every *)
(* live challenge of its contact, since only the holder of the lock adds.   *)
RequestsOK ==
    /\ \A r \in Requests : pc[r] = "registering" => target[r] \in Keys
    /\ \A r \in Requests : pc[r] = "serving" => target[r] \in Sessions /\ session[target[r]] # "NONE"
    /\ \A r \in Requests : pc[r] = "starting" => target[r] \in Accounts /\ account[target[r]] # "NONE"
    /\ \A r \in Requests : pc[r] = "starting" => LiveChallenges(target[r]) \subseteq seen[r]
    /\ \A r \in Requests : pc[r] = "starting" => \A d \in seen[r] : owner[d] = target[r]
    /\ \A q, r \in Requests :
          pc[q] = "starting" /\ pc[r] = "starting" /\ target[q] = target[r] => q = r

(* The stored answers and the accounts are in one-to-one correspondence. *)
KeysOK ==
    /\ \A k \in Keys : dedup[k] # None => account[dedup[k]] # "NONE"
    /\ \A k, l \in Keys : dedup[k] = dedup[l] /\ dedup[k] # None => k = l
    /\ \A a \in Accounts : account[a] # "NONE" => \E k \in Keys : dedup[k] = a

IInv ==
    /\ TypeOK
    /\ RowsOK
    /\ RequestsOK
    /\ KeysOK
    /\ OneLiveChallenge
    /\ LiveChallengeHasAttemptLeft
    /\ SessionProvesContact

LEMMA InitIInv == Init => IInv
  BY NoneIsFresh, AttemptsPositive
  DEF Init, IInv, TypeOK, RowsOK, RequestsOK, KeysOK, OneLiveChallenge,
      LiveChallengeHasAttemptLeft, SessionProvesContact, LiveChallenges

(* Accounts only move among the statuses that are neither NONE nor PENDING. *)
LEMMA ChangedStatus ==
  ASSUME TypeOK, NEW a \in Accounts, ChangeAccountStatus(a)
  PROVE  \E to \in AccountStatuses \ {"PENDING"} : account' = [account EXCEPT ![a] = to]
  <1>1. account[a] \in AccountStatuses
    BY DEF ChangeAccountStatus, TypeOK
  <1>2. AccountTransitions[account[a]] \subseteq AccountStatuses \ {"PENDING"}
    <2>1. AccountTransitions["PENDING"] \subseteq AccountStatuses \ {"PENDING"}
      BY DEF AccountTransitions, AccountStatuses
    <2>2. AccountTransitions["ACTIVE"] \subseteq AccountStatuses \ {"PENDING"}
      BY DEF AccountTransitions, AccountStatuses
    <2>3. AccountTransitions["LIMITED"] \subseteq AccountStatuses \ {"PENDING"}
      BY DEF AccountTransitions, AccountStatuses
    <2>4. AccountTransitions["SUSPENDED"] \subseteq AccountStatuses \ {"PENDING"}
      BY DEF AccountTransitions, AccountStatuses
    <2>5. AccountTransitions["CLOSED"] \subseteq AccountStatuses \ {"PENDING"}
      BY DEF AccountTransitions, AccountStatuses
    <2> QED BY <1>1, <2>1, <2>2, <2>3, <2>4, <2>5 DEF AccountStatuses
  <1> QED BY <1>2 DEF ChangeAccountStatus

LEMMA TypeStep == IInv /\ [Next]_vars => TypeOK'
  <1> SUFFICES ASSUME IInv, [Next]_vars PROVE TypeOK'
    OBVIOUS
  <1> USE NoneIsFresh, AttemptsPositive DEF IInv, TypeOK, AccountStatuses, ChallengeStatuses
  <1>1. ASSUME NEW r \in Requests, NEW k \in Keys, StartAccountRegistration(r, k) PROVE TypeOK'
    BY <1>1 DEF StartAccountRegistration, Opens, accountVars, challengeVars, sessionVars
  <1>2. ASSUME NEW r \in Requests, NEW a \in Accounts, CreateIdentityRecords(r, a) PROVE TypeOK'
    BY <1>2 DEF CreateIdentityRecords, Closes, challengeVars, sessionVars
  <1>3. ASSUME NEW r \in Requests, RegistrationRefused(r) PROVE TypeOK'
    BY <1>3 DEF RegistrationRefused, Closes, accountVars, challengeVars, sessionVars
  <1>4. ASSUME NEW r \in Requests, NEW a \in Accounts, LoadOwnedContact(r, a) PROVE TypeOK'
    BY <1>4 DEF LoadOwnedContact, Opens, LiveChallenges, accountVars, challengeVars, sessionVars
  <1>5. ASSUME NEW r \in Requests, NEW c \in Challenges, StartContactVerification(r, c) PROVE TypeOK'
    BY <1>5 DEF StartContactVerification, Closes, RequestsOK, accountVars, sessionVars
  <1>6. ASSUME NEW r \in Requests, Abandon(r) PROVE TypeOK'
    BY <1>6 DEF Abandon, Closes, accountVars, challengeVars, sessionVars
  <1>7. ASSUME NEW r \in Requests, NEW s \in Sessions, AuthenticateBearerSession(r, s) PROVE TypeOK'
    BY <1>7 DEF AuthenticateBearerSession, Opens, accountVars, challengeVars, sessionVars
  <1>8. ASSUME NEW r \in Requests, RevokeSession(r) PROVE TypeOK'
    BY <1>8 DEF RevokeSession, Closes, accountVars, challengeVars
  <1>9. ASSUME NEW r \in Requests, Serve(r) PROVE TypeOK'
    BY <1>9 DEF Serve, Closes, accountVars, challengeVars, sessionVars
  <1>10. ASSUME NEW c \in Challenges, SendVerificationCode(c) PROVE TypeOK'
    BY <1>10 DEF SendVerificationCode, accountVars, sessionVars, requestVars
  <1>11. ASSUME NEW c \in Challenges, ConfirmExpired(c) PROVE TypeOK'
    BY <1>11 DEF ConfirmExpired, accountVars, sessionVars, requestVars
  <1>12. ASSUME NEW c \in Challenges, ConfirmWrongCode(c) PROVE TypeOK'
    BY <1>12 DEF ConfirmWrongCode, accountVars, sessionVars, requestVars
  <1>13. ASSUME NEW c \in Challenges, NEW s \in Sessions, ConfirmContactVerification(c, s) PROVE TypeOK'
    <2> USE <1>13 DEF ConfirmContactVerification, CreateVerifiedContactSession, requestVars
    <2>1. attempts' \in [Challenges -> 0 .. MaxAttempts] /\ challenge' \in [Challenges -> ChallengeStatuses \cup {"NONE"}]
      OBVIOUS
    <2>2. account' \in [Accounts -> AccountStatuses \cup {"NONE"}]
      OBVIOUS
    <2>3. session' \in [Sessions -> {"NONE", "ACTIVE", "REVOKED"}] /\ opener' \in [Sessions -> Challenges \cup {None}]
      OBVIOUS
    <2> QED BY <2>1, <2>2, <2>3
  <1>14. ASSUME NEW c \in Challenges, ChallengeCools(c) PROVE TypeOK'
    BY <1>14 DEF ChallengeCools, accountVars, sessionVars, requestVars
  <1>15. ASSUME NEW c \in Challenges, ChallengeLapses(c) PROVE TypeOK'
    BY <1>15 DEF ChallengeLapses, accountVars, sessionVars, requestVars
  <1>16. ASSUME NEW s \in Sessions, SessionLapses(s) PROVE TypeOK'
    BY <1>16 DEF SessionLapses, accountVars, challengeVars, requestVars
  <1>17. ASSUME NEW a \in Accounts, ChangeAccountStatus(a) PROVE TypeOK'
    <2>1. PICK to \in AccountStatuses \ {"PENDING"} : account' = [account EXCEPT ![a] = to]
      BY <1>17, ChangedStatus
    <2> QED BY <1>17, <2>1 DEF ChangeAccountStatus, challengeVars, sessionVars, requestVars
  <1>18. CASE UNCHANGED vars
    BY <1>18 DEF vars, accountVars, challengeVars, sessionVars, requestVars
  <1> QED
    BY <1>1, <1>2, <1>3, <1>4, <1>5, <1>6, <1>7, <1>8, <1>9, <1>10, <1>11, <1>12, <1>13,
       <1>14, <1>15, <1>16, <1>17, <1>18 DEF Next

LEMMA RowsOKStep == IInv /\ [Next]_vars => RowsOK'
  <1> SUFFICES ASSUME IInv, [Next]_vars PROVE RowsOK'
    OBVIOUS
  <1> USE NoneIsFresh, AttemptsPositive
      DEF IInv, TypeOK, RowsOK, accountVars, challengeVars, sessionVars, requestVars
  <1>1. ASSUME NEW r \in Requests, NEW k \in Keys, StartAccountRegistration(r, k) PROVE RowsOK'
    BY <1>1 DEF StartAccountRegistration, Opens
  <1>2. ASSUME NEW r \in Requests, NEW a \in Accounts, CreateIdentityRecords(r, a) PROVE RowsOK'
    BY <1>2 DEF CreateIdentityRecords, Closes
  <1>3. ASSUME NEW r \in Requests, RegistrationRefused(r) PROVE RowsOK'
    BY <1>3 DEF RegistrationRefused, Closes
  <1>4. ASSUME NEW r \in Requests, NEW a \in Accounts, LoadOwnedContact(r, a) PROVE RowsOK'
    BY <1>4 DEF LoadOwnedContact, Opens
  <1>5. ASSUME NEW r \in Requests, NEW c \in Challenges, StartContactVerification(r, c) PROVE RowsOK'
    <2> USE <1>5 DEF StartContactVerification, Closes
    <2>1. target[r] \in Accounts /\ account[target[r]] # "NONE"
      BY DEF RequestsOK
    <2>2. \A d \in Challenges : challenge'[d] = "NONE" <=> owner'[d] = None
      BY <2>1
    <2>3. \A d \in Challenges : challenge'[d] # "NONE" => account'[owner'[d]] # "NONE"
      BY <2>1
    <2>4. \A d \in Challenges : challenge'[d] = "NONE" => attempts'[d] = 0 /\ d \notin late'
      OBVIOUS
    <2> QED BY <2>2, <2>3, <2>4
  <1>6. ASSUME NEW r \in Requests, Abandon(r) PROVE RowsOK'
    BY <1>6 DEF Abandon, Closes
  <1>7. ASSUME NEW r \in Requests, NEW s \in Sessions, AuthenticateBearerSession(r, s) PROVE RowsOK'
    BY <1>7 DEF AuthenticateBearerSession, Opens, IsSessionAuthoritative
  <1>8. ASSUME NEW r \in Requests, RevokeSession(r) PROVE RowsOK'
    BY <1>8 DEF RevokeSession, Closes
  <1>9. ASSUME NEW r \in Requests, Serve(r) PROVE RowsOK'
    BY <1>9 DEF Serve, Closes
  <1>10. ASSUME NEW c \in Challenges, SendVerificationCode(c) PROVE RowsOK'
    BY <1>10 DEF SendVerificationCode
  <1>11. ASSUME NEW c \in Challenges, ConfirmExpired(c) PROVE RowsOK'
    BY <1>11 DEF ConfirmExpired
  <1>12. ASSUME NEW c \in Challenges, ConfirmWrongCode(c) PROVE RowsOK'
    BY <1>12 DEF ConfirmWrongCode
  <1>13. ASSUME NEW c \in Challenges, NEW s \in Sessions, ConfirmContactVerification(c, s) PROVE RowsOK'
    <2> USE <1>13 DEF ConfirmContactVerification, CreateVerifiedContactSession
    <2>1. \A d \in Challenges : challenge'[d] = "NONE" <=> owner'[d] = None
      OBVIOUS
    <2>2. \A d \in Challenges : challenge'[d] # "NONE" => account'[owner'[d]] # "NONE"
      OBVIOUS
    <2>3. \A d \in Challenges : challenge'[d] = "NONE" => attempts'[d] = 0 /\ d \notin late'
      OBVIOUS
    <2>4. \A t \in Sessions : session'[t] = "NONE" <=> opener'[t] = None
      OBVIOUS
    <2>5. \A t \in Sessions : opener[t] # c
      BY DEF SessionProvesContact
    <2>6. \A t, u \in Sessions : opener'[t] = opener'[u] /\ opener'[t] # None => t = u
      BY <2>5
    <2>7. \A t \in Sessions : session'[t] = "NONE" => t \notin lapsed'
      OBVIOUS
    <2> QED BY <2>1, <2>2, <2>3, <2>4, <2>6, <2>7
  <1>14. ASSUME NEW c \in Challenges, ChallengeCools(c) PROVE RowsOK'
    BY <1>14 DEF ChallengeCools
  <1>15. ASSUME NEW c \in Challenges, ChallengeLapses(c) PROVE RowsOK'
    BY <1>15 DEF ChallengeLapses
  <1>16. ASSUME NEW s \in Sessions, SessionLapses(s) PROVE RowsOK'
    BY <1>16 DEF SessionLapses
  <1>17. ASSUME NEW a \in Accounts, ChangeAccountStatus(a) PROVE RowsOK'
    <2>1. PICK to \in AccountStatuses \ {"PENDING"} : account' = [account EXCEPT ![a] = to]
      BY <1>17, ChangedStatus
    <2> QED BY <1>17, <2>1 DEF ChangeAccountStatus, AccountStatuses
  <1>18. CASE UNCHANGED vars
    BY <1>18 DEF vars
  <1> QED
    BY <1>1, <1>2, <1>3, <1>4, <1>5, <1>6, <1>7, <1>8, <1>9, <1>10, <1>11, <1>12, <1>13, <1>14, <1>15, <1>16, <1>17, <1>18 DEF Next

LEMMA RequestsOKStep == IInv /\ [Next]_vars => RequestsOK'
  <1> SUFFICES ASSUME IInv, [Next]_vars PROVE RequestsOK'
    OBVIOUS
  <1> USE NoneIsFresh, AttemptsPositive
      DEF IInv, TypeOK, RequestsOK, LiveChallenges, accountVars, challengeVars, sessionVars, requestVars
  <1>1. ASSUME NEW r \in Requests, NEW k \in Keys, StartAccountRegistration(r, k) PROVE RequestsOK'
    BY <1>1 DEF StartAccountRegistration, Opens
  <1>2. ASSUME NEW r \in Requests, NEW a \in Accounts, CreateIdentityRecords(r, a) PROVE RequestsOK'
    BY <1>2 DEF CreateIdentityRecords, Closes
  <1>3. ASSUME NEW r \in Requests, RegistrationRefused(r) PROVE RequestsOK'
    BY <1>3 DEF RegistrationRefused, Closes
  <1>4. ASSUME NEW r \in Requests, NEW a \in Accounts, LoadOwnedContact(r, a) PROVE RequestsOK'
    BY <1>4 DEF LoadOwnedContact, Opens
  <1>5. ASSUME NEW r \in Requests, NEW c \in Challenges, StartContactVerification(r, c) PROVE RequestsOK'
    <2> USE <1>5 DEF StartContactVerification, Closes
    <2>1. owner[c] = None
      BY DEF RowsOK
    <2>2. \A q \in Requests : pc'[q] # "idle" => q # r /\ pc[q] = pc'[q] /\ target'[q] = target[q] /\ seen'[q] = seen[q]
      OBVIOUS
    <2>3. ASSUME NEW q \in Requests, pc'[q] = "starting"
          PROVE  /\ LiveChallenges(target[q])' \subseteq seen[q]
                 /\ \A d \in seen[q] : owner'[d] = target[q]
      <3>1. q # r /\ pc[q] = "starting" /\ target[q] \in Accounts /\ target[q] # target[r]
        BY <2>2, <2>3
      <3>2. LiveChallenges(target[q])' \subseteq LiveChallenges(target[q])
        BY <3>1
      <3>3. c \notin seen[q]
        BY <2>1, <3>1
      <3> QED BY <3>1, <3>2, <3>3
    <2>4. \A q \in Requests : pc'[q] = "starting" => LiveChallenges(target[q])' \subseteq seen'[q]
      BY <2>2, <2>3
    <2>5. \A q \in Requests : pc'[q] = "starting" => \A d \in seen'[q] : owner'[d] = target'[q]
      BY <2>2, <2>3
    <2> QED BY <2>2, <2>4, <2>5
  <1>6. ASSUME NEW r \in Requests, Abandon(r) PROVE RequestsOK'
    BY <1>6 DEF Abandon, Closes
  <1>7. ASSUME NEW r \in Requests, NEW s \in Sessions, AuthenticateBearerSession(r, s) PROVE RequestsOK'
    BY <1>7 DEF AuthenticateBearerSession, Opens, IsSessionAuthoritative
  <1>8. ASSUME NEW r \in Requests, RevokeSession(r) PROVE RequestsOK'
    BY <1>8 DEF RevokeSession, Closes
  <1>9. ASSUME NEW r \in Requests, Serve(r) PROVE RequestsOK'
    BY <1>9 DEF Serve, Closes
  <1>10. ASSUME NEW c \in Challenges, SendVerificationCode(c) PROVE RequestsOK'
    BY <1>10 DEF SendVerificationCode
  <1>11. ASSUME NEW c \in Challenges, ConfirmExpired(c) PROVE RequestsOK'
    BY <1>11 DEF ConfirmExpired
  <1>12. ASSUME NEW c \in Challenges, ConfirmWrongCode(c) PROVE RequestsOK'
    BY <1>12 DEF ConfirmWrongCode
  <1>13. ASSUME NEW c \in Challenges, NEW s \in Sessions, ConfirmContactVerification(c, s) PROVE RequestsOK'
    BY <1>13 DEF ConfirmContactVerification, CreateVerifiedContactSession
  <1>14. ASSUME NEW c \in Challenges, ChallengeCools(c) PROVE RequestsOK'
    BY <1>14 DEF ChallengeCools
  <1>15. ASSUME NEW c \in Challenges, ChallengeLapses(c) PROVE RequestsOK'
    BY <1>15 DEF ChallengeLapses
  <1>16. ASSUME NEW s \in Sessions, SessionLapses(s) PROVE RequestsOK'
    BY <1>16 DEF SessionLapses
  <1>17. ASSUME NEW a \in Accounts, ChangeAccountStatus(a) PROVE RequestsOK'
    <2>1. PICK to \in AccountStatuses \ {"PENDING"} : account' = [account EXCEPT ![a] = to]
      BY <1>17, ChangedStatus
    <2> QED BY <1>17, <2>1 DEF ChangeAccountStatus, AccountStatuses
  <1>18. CASE UNCHANGED vars
    BY <1>18 DEF vars
  <1> QED
    BY <1>1, <1>2, <1>3, <1>4, <1>5, <1>6, <1>7, <1>8, <1>9, <1>10, <1>11, <1>12, <1>13, <1>14, <1>15, <1>16, <1>17, <1>18 DEF Next

LEMMA KeysOKStep == IInv /\ [Next]_vars => KeysOK'
  <1> SUFFICES ASSUME IInv, [Next]_vars PROVE KeysOK'
    OBVIOUS
  <1> USE NoneIsFresh, AttemptsPositive
      DEF IInv, TypeOK, KeysOK, accountVars, challengeVars, sessionVars, requestVars
  <1>1. ASSUME NEW r \in Requests, NEW k \in Keys, StartAccountRegistration(r, k) PROVE KeysOK'
    BY <1>1 DEF StartAccountRegistration, Opens
  <1>2. ASSUME NEW r \in Requests, NEW a \in Accounts, CreateIdentityRecords(r, a) PROVE KeysOK'
    <2> USE <1>2 DEF CreateIdentityRecords, Closes
    <2>1. target[r] \in Keys
      BY DEF RequestsOK
    <2>2. \A k \in Keys : dedup'[k] # None => account'[dedup'[k]] # "NONE"
      BY <2>1
    <2>3. \A k, l \in Keys : dedup'[k] = dedup'[l] /\ dedup'[k] # None => k = l
      BY <2>1
    <2>4. ASSUME NEW b \in Accounts, account'[b] # "NONE" PROVE \E k \in Keys : dedup'[k] = b
      <3>1. CASE b = a
        BY <2>1, <3>1
      <3>2. CASE b # a
        <4>1. PICK k \in Keys : dedup[k] = b
          BY <2>4, <3>2
        <4>2. k # target[r]
          BY <4>1
        <4> QED BY <4>1, <4>2
      <3> QED BY <3>1, <3>2
    <2> QED BY <2>2, <2>3, <2>4
  <1>3. ASSUME NEW r \in Requests, RegistrationRefused(r) PROVE KeysOK'
    BY <1>3 DEF RegistrationRefused, Closes
  <1>4. ASSUME NEW r \in Requests, NEW a \in Accounts, LoadOwnedContact(r, a) PROVE KeysOK'
    BY <1>4 DEF LoadOwnedContact, Opens
  <1>5. ASSUME NEW r \in Requests, NEW c \in Challenges, StartContactVerification(r, c) PROVE KeysOK'
    BY <1>5 DEF StartContactVerification, Closes
  <1>6. ASSUME NEW r \in Requests, Abandon(r) PROVE KeysOK'
    BY <1>6 DEF Abandon, Closes
  <1>7. ASSUME NEW r \in Requests, NEW s \in Sessions, AuthenticateBearerSession(r, s) PROVE KeysOK'
    BY <1>7 DEF AuthenticateBearerSession, Opens, IsSessionAuthoritative
  <1>8. ASSUME NEW r \in Requests, RevokeSession(r) PROVE KeysOK'
    BY <1>8 DEF RevokeSession, Closes
  <1>9. ASSUME NEW r \in Requests, Serve(r) PROVE KeysOK'
    BY <1>9 DEF Serve, Closes
  <1>10. ASSUME NEW c \in Challenges, SendVerificationCode(c) PROVE KeysOK'
    BY <1>10 DEF SendVerificationCode
  <1>11. ASSUME NEW c \in Challenges, ConfirmExpired(c) PROVE KeysOK'
    BY <1>11 DEF ConfirmExpired
  <1>12. ASSUME NEW c \in Challenges, ConfirmWrongCode(c) PROVE KeysOK'
    BY <1>12 DEF ConfirmWrongCode
  <1>13. ASSUME NEW c \in Challenges, NEW s \in Sessions, ConfirmContactVerification(c, s) PROVE KeysOK'
    BY <1>13 DEF ConfirmContactVerification, CreateVerifiedContactSession
  <1>14. ASSUME NEW c \in Challenges, ChallengeCools(c) PROVE KeysOK'
    BY <1>14 DEF ChallengeCools
  <1>15. ASSUME NEW c \in Challenges, ChallengeLapses(c) PROVE KeysOK'
    BY <1>15 DEF ChallengeLapses
  <1>16. ASSUME NEW s \in Sessions, SessionLapses(s) PROVE KeysOK'
    BY <1>16 DEF SessionLapses
  <1>17. ASSUME NEW a \in Accounts, ChangeAccountStatus(a) PROVE KeysOK'
    <2>1. PICK to \in AccountStatuses \ {"PENDING"} : account' = [account EXCEPT ![a] = to]
      BY <1>17, ChangedStatus
    <2> QED BY <1>17, <2>1 DEF ChangeAccountStatus, AccountStatuses
  <1>18. CASE UNCHANGED vars
    BY <1>18 DEF vars
  <1> QED
    BY <1>1, <1>2, <1>3, <1>4, <1>5, <1>6, <1>7, <1>8, <1>9, <1>10, <1>11, <1>12, <1>13, <1>14, <1>15, <1>16, <1>17, <1>18 DEF Next

LEMMA OneLiveChallengeStep == IInv /\ [Next]_vars => OneLiveChallenge'
  <1> SUFFICES ASSUME IInv, [Next]_vars PROVE OneLiveChallenge'
    OBVIOUS
  <1> USE NoneIsFresh, AttemptsPositive
      DEF IInv, TypeOK, OneLiveChallenge, RowsOK, RequestsOK, LiveChallenges, accountVars, challengeVars, sessionVars, requestVars
  <1>1. ASSUME NEW r \in Requests, NEW k \in Keys, StartAccountRegistration(r, k) PROVE OneLiveChallenge'
    BY <1>1 DEF StartAccountRegistration, Opens
  <1>2. ASSUME NEW r \in Requests, NEW a \in Accounts, CreateIdentityRecords(r, a) PROVE OneLiveChallenge'
    BY <1>2 DEF CreateIdentityRecords, Closes
  <1>3. ASSUME NEW r \in Requests, RegistrationRefused(r) PROVE OneLiveChallenge'
    BY <1>3 DEF RegistrationRefused, Closes
  <1>4. ASSUME NEW r \in Requests, NEW a \in Accounts, LoadOwnedContact(r, a) PROVE OneLiveChallenge'
    BY <1>4 DEF LoadOwnedContact, Opens
  <1>5. ASSUME NEW r \in Requests, NEW c \in Challenges, StartContactVerification(r, c) PROVE OneLiveChallenge'
    BY <1>5 DEF StartContactVerification, Closes
  <1>6. ASSUME NEW r \in Requests, Abandon(r) PROVE OneLiveChallenge'
    BY <1>6 DEF Abandon, Closes
  <1>7. ASSUME NEW r \in Requests, NEW s \in Sessions, AuthenticateBearerSession(r, s) PROVE OneLiveChallenge'
    BY <1>7 DEF AuthenticateBearerSession, Opens, IsSessionAuthoritative
  <1>8. ASSUME NEW r \in Requests, RevokeSession(r) PROVE OneLiveChallenge'
    BY <1>8 DEF RevokeSession, Closes
  <1>9. ASSUME NEW r \in Requests, Serve(r) PROVE OneLiveChallenge'
    BY <1>9 DEF Serve, Closes
  <1>10. ASSUME NEW c \in Challenges, SendVerificationCode(c) PROVE OneLiveChallenge'
    BY <1>10 DEF SendVerificationCode
  <1>11. ASSUME NEW c \in Challenges, ConfirmExpired(c) PROVE OneLiveChallenge'
    BY <1>11 DEF ConfirmExpired
  <1>12. ASSUME NEW c \in Challenges, ConfirmWrongCode(c) PROVE OneLiveChallenge'
    BY <1>12 DEF ConfirmWrongCode
  <1>13. ASSUME NEW c \in Challenges, NEW s \in Sessions, ConfirmContactVerification(c, s) PROVE OneLiveChallenge'
    BY <1>13 DEF ConfirmContactVerification, CreateVerifiedContactSession
  <1>14. ASSUME NEW c \in Challenges, ChallengeCools(c) PROVE OneLiveChallenge'
    BY <1>14 DEF ChallengeCools
  <1>15. ASSUME NEW c \in Challenges, ChallengeLapses(c) PROVE OneLiveChallenge'
    BY <1>15 DEF ChallengeLapses
  <1>16. ASSUME NEW s \in Sessions, SessionLapses(s) PROVE OneLiveChallenge'
    BY <1>16 DEF SessionLapses
  <1>17. ASSUME NEW a \in Accounts, ChangeAccountStatus(a) PROVE OneLiveChallenge'
    BY <1>17 DEF ChangeAccountStatus, AccountTransitions
  <1>18. CASE UNCHANGED vars
    BY <1>18 DEF vars
  <1> QED
    BY <1>1, <1>2, <1>3, <1>4, <1>5, <1>6, <1>7, <1>8, <1>9, <1>10, <1>11, <1>12, <1>13, <1>14, <1>15, <1>16, <1>17, <1>18 DEF Next

LEMMA LiveChallengeHasAttemptLeftStep == IInv /\ [Next]_vars => LiveChallengeHasAttemptLeft'
  <1> SUFFICES ASSUME IInv, [Next]_vars PROVE LiveChallengeHasAttemptLeft'
    OBVIOUS
  <1> USE NoneIsFresh, AttemptsPositive
      DEF IInv, TypeOK, LiveChallengeHasAttemptLeft, RowsOK, accountVars, challengeVars, sessionVars, requestVars
  <1>1. ASSUME NEW r \in Requests, NEW k \in Keys, StartAccountRegistration(r, k) PROVE LiveChallengeHasAttemptLeft'
    BY <1>1 DEF StartAccountRegistration, Opens
  <1>2. ASSUME NEW r \in Requests, NEW a \in Accounts, CreateIdentityRecords(r, a) PROVE LiveChallengeHasAttemptLeft'
    BY <1>2 DEF CreateIdentityRecords, Closes
  <1>3. ASSUME NEW r \in Requests, RegistrationRefused(r) PROVE LiveChallengeHasAttemptLeft'
    BY <1>3 DEF RegistrationRefused, Closes
  <1>4. ASSUME NEW r \in Requests, NEW a \in Accounts, LoadOwnedContact(r, a) PROVE LiveChallengeHasAttemptLeft'
    BY <1>4 DEF LoadOwnedContact, Opens
  <1>5. ASSUME NEW r \in Requests, NEW c \in Challenges, StartContactVerification(r, c) PROVE LiveChallengeHasAttemptLeft'
    BY <1>5 DEF StartContactVerification, Closes
  <1>6. ASSUME NEW r \in Requests, Abandon(r) PROVE LiveChallengeHasAttemptLeft'
    BY <1>6 DEF Abandon, Closes
  <1>7. ASSUME NEW r \in Requests, NEW s \in Sessions, AuthenticateBearerSession(r, s) PROVE LiveChallengeHasAttemptLeft'
    BY <1>7 DEF AuthenticateBearerSession, Opens, IsSessionAuthoritative
  <1>8. ASSUME NEW r \in Requests, RevokeSession(r) PROVE LiveChallengeHasAttemptLeft'
    BY <1>8 DEF RevokeSession, Closes
  <1>9. ASSUME NEW r \in Requests, Serve(r) PROVE LiveChallengeHasAttemptLeft'
    BY <1>9 DEF Serve, Closes
  <1>10. ASSUME NEW c \in Challenges, SendVerificationCode(c) PROVE LiveChallengeHasAttemptLeft'
    BY <1>10 DEF SendVerificationCode
  <1>11. ASSUME NEW c \in Challenges, ConfirmExpired(c) PROVE LiveChallengeHasAttemptLeft'
    BY <1>11 DEF ConfirmExpired
  <1>12. ASSUME NEW c \in Challenges, ConfirmWrongCode(c) PROVE LiveChallengeHasAttemptLeft'
    BY <1>12 DEF ConfirmWrongCode
  <1>13. ASSUME NEW c \in Challenges, NEW s \in Sessions, ConfirmContactVerification(c, s) PROVE LiveChallengeHasAttemptLeft'
    BY <1>13 DEF ConfirmContactVerification, CreateVerifiedContactSession
  <1>14. ASSUME NEW c \in Challenges, ChallengeCools(c) PROVE LiveChallengeHasAttemptLeft'
    BY <1>14 DEF ChallengeCools
  <1>15. ASSUME NEW c \in Challenges, ChallengeLapses(c) PROVE LiveChallengeHasAttemptLeft'
    BY <1>15 DEF ChallengeLapses
  <1>16. ASSUME NEW s \in Sessions, SessionLapses(s) PROVE LiveChallengeHasAttemptLeft'
    BY <1>16 DEF SessionLapses
  <1>17. ASSUME NEW a \in Accounts, ChangeAccountStatus(a) PROVE LiveChallengeHasAttemptLeft'
    BY <1>17 DEF ChangeAccountStatus, AccountTransitions
  <1>18. CASE UNCHANGED vars
    BY <1>18 DEF vars
  <1> QED
    BY <1>1, <1>2, <1>3, <1>4, <1>5, <1>6, <1>7, <1>8, <1>9, <1>10, <1>11, <1>12, <1>13, <1>14, <1>15, <1>16, <1>17, <1>18 DEF Next

LEMMA SessionProvesContactStep == IInv /\ [Next]_vars => SessionProvesContact'
  <1> SUFFICES ASSUME IInv, [Next]_vars PROVE SessionProvesContact'
    OBVIOUS
  <1> USE NoneIsFresh, AttemptsPositive
      DEF IInv, TypeOK, SessionProvesContact, RowsOK, accountVars, challengeVars, sessionVars, requestVars
  <1>1. ASSUME NEW r \in Requests, NEW k \in Keys, StartAccountRegistration(r, k) PROVE SessionProvesContact'
    BY <1>1 DEF StartAccountRegistration, Opens
  <1>2. ASSUME NEW r \in Requests, NEW a \in Accounts, CreateIdentityRecords(r, a) PROVE SessionProvesContact'
    BY <1>2 DEF CreateIdentityRecords, Closes
  <1>3. ASSUME NEW r \in Requests, RegistrationRefused(r) PROVE SessionProvesContact'
    BY <1>3 DEF RegistrationRefused, Closes
  <1>4. ASSUME NEW r \in Requests, NEW a \in Accounts, LoadOwnedContact(r, a) PROVE SessionProvesContact'
    BY <1>4 DEF LoadOwnedContact, Opens
  <1>5. ASSUME NEW r \in Requests, NEW c \in Challenges, StartContactVerification(r, c) PROVE SessionProvesContact'
    BY <1>5 DEF StartContactVerification, Closes
  <1>6. ASSUME NEW r \in Requests, Abandon(r) PROVE SessionProvesContact'
    BY <1>6 DEF Abandon, Closes
  <1>7. ASSUME NEW r \in Requests, NEW s \in Sessions, AuthenticateBearerSession(r, s) PROVE SessionProvesContact'
    BY <1>7 DEF AuthenticateBearerSession, Opens, IsSessionAuthoritative
  <1>8. ASSUME NEW r \in Requests, RevokeSession(r) PROVE SessionProvesContact'
    BY <1>8 DEF RevokeSession, Closes
  <1>9. ASSUME NEW r \in Requests, Serve(r) PROVE SessionProvesContact'
    BY <1>9 DEF Serve, Closes
  <1>10. ASSUME NEW c \in Challenges, SendVerificationCode(c) PROVE SessionProvesContact'
    BY <1>10 DEF SendVerificationCode
  <1>11. ASSUME NEW c \in Challenges, ConfirmExpired(c) PROVE SessionProvesContact'
    BY <1>11 DEF ConfirmExpired
  <1>12. ASSUME NEW c \in Challenges, ConfirmWrongCode(c) PROVE SessionProvesContact'
    BY <1>12 DEF ConfirmWrongCode
  <1>13. ASSUME NEW c \in Challenges, NEW s \in Sessions, ConfirmContactVerification(c, s) PROVE SessionProvesContact'
    BY <1>13 DEF ConfirmContactVerification, CreateVerifiedContactSession
  <1>14. ASSUME NEW c \in Challenges, ChallengeCools(c) PROVE SessionProvesContact'
    BY <1>14 DEF ChallengeCools
  <1>15. ASSUME NEW c \in Challenges, ChallengeLapses(c) PROVE SessionProvesContact'
    BY <1>15 DEF ChallengeLapses
  <1>16. ASSUME NEW s \in Sessions, SessionLapses(s) PROVE SessionProvesContact'
    BY <1>16 DEF SessionLapses
  <1>17. ASSUME NEW a \in Accounts, ChangeAccountStatus(a) PROVE SessionProvesContact'
    <2>1. PICK to \in AccountStatuses \ {"PENDING"} : account' = [account EXCEPT ![a] = to]
      BY <1>17, ChangedStatus
    <2> QED BY <1>17, <2>1 DEF ChangeAccountStatus, AccountStatuses
  <1>18. CASE UNCHANGED vars
    BY <1>18 DEF vars
  <1> QED
    BY <1>1, <1>2, <1>3, <1>4, <1>5, <1>6, <1>7, <1>8, <1>9, <1>10, <1>11, <1>12, <1>13, <1>14, <1>15, <1>16, <1>17, <1>18 DEF Next

LEMMA IInvStep == IInv /\ [Next]_vars => IInv'
  BY TypeStep, RowsOKStep, RequestsOKStep, KeysOKStep, OneLiveChallengeStep,
     LiveChallengeHasAttemptLeftStep, SessionProvesContactStep DEF IInv

(* The invariant holds in every behaviour of Identity. *)
LEMMA IdentityInvariant == Spec => []IInv
  BY InitIInv, IInvStep, PTL DEF Spec

(* Type correctness of the rows and of the requests in flight. *)
THEOREM IdentityTypeOK == Spec => []TypeOK
  <1>1. IInv => TypeOK
    BY DEF IInv
  <1> QED BY <1>1, IdentityInvariant, PTL

(* No contact ever has two challenges that accept a code. *)
THEOREM IdentityOneLiveChallenge == Spec => []OneLiveChallenge
  <1>1. IInv => OneLiveChallenge
    BY DEF IInv
  <1> QED BY <1>1, IdentityInvariant, PTL

(* A challenge that accepts a code has an attempt left. *)
THEOREM IdentityAttemptLeft == Spec => []LiveChallengeHasAttemptLeft
  <1>1. IInv => LiveChallengeHasAttemptLeft
    BY DEF IInv
  <1> QED BY <1>1, IdentityInvariant, PTL

(* Accounts and stored registration answers correspond one to one. *)
THEOREM IdentityAccountHasItsKey == Spec => []AccountHasItsKey
  <1>1. IInv => AccountHasItsKey
    <2> SUFFICES ASSUME KeysOK, NEW a \in Accounts, account[a] # "NONE"
                 PROVE  Cardinality({k \in Keys : dedup[k] = a}) = 1
      BY DEF IInv, AccountHasItsKey
    <2>1. PICK k \in Keys : dedup[k] = a
      BY DEF KeysOK
    <2>2. {l \in Keys : dedup[l] = a} = {k}
      BY <2>1, NoneIsFresh DEF KeysOK
    <2> QED BY <2>2, FS_Singleton
  <1> QED BY <1>1, IdentityInvariant, PTL

(* A session goes back to a verified contact of an account past PENDING. *)
THEOREM IdentitySessionProvesContact == Spec => []SessionProvesContact
  <1>1. IInv => SessionProvesContact
    BY DEF IInv
  <1> QED BY <1>1, IdentityInvariant, PTL

(***************************************************************************)
(* The refinement                                                          *)
(***************************************************************************)

(* A step that leaves these rows alone is a stutter of the promise. *)
LEMMA SameRows ==
  ASSUME UNCHANGED <<challenge, owner, late, sessionVars>>
  PROVE  UNCHANGED Promise!vars
  <1>1. CodePhase' = CodePhase
    BY DEF CodePhase
  <1>2. CodeSession' = CodeSession
    BY DEF CodeSession, SessionsOf, IsSessionAuthoritative, sessionVars
  <1> QED BY <1>1, <1>2 DEF Promise!vars

LEMMA SameSessions ==
  ASSUME UNCHANGED sessionVars
  PROVE  UNCHANGED CodeSession
  BY DEF CodeSession, SessionsOf, IsSessionAuthoritative, sessionVars

LEMMA IssueStep ==
  ASSUME IInv, NEW r \in Requests, NEW c \in Challenges, StartContactVerification(r, c)
  PROVE  Promise!Issue(c, target[r]) /\ target[r] \in Accounts
  <1> USE DEF StartContactVerification
  <1>1. target[r] \in Accounts
    BY DEF IInv, RequestsOK
  <1>2. CodePhase[c] = "unissued"
    BY DEF CodePhase
  <1>3. owner' = [owner EXCEPT ![c] = target[r]]
    OBVIOUS
  <1>4. ASSUME NEW d \in Challenges
        PROVE  CodePhase'[d] = IF d = c THEN "open"
                               ELSE IF CodePhase[d] = "open" /\ owner[d] = target[r] THEN "dead"
                               ELSE CodePhase[d]
    <2>1. c \notin late
      BY DEF IInv, RowsOK
    <2>2. d \in LiveChallenges(target[r]) => d \in seen[r]
      BY DEF IInv, RequestsOK
    <2>3. d \in seen[r] => owner[d] = target[r]
      BY DEF IInv, RequestsOK
    <2>4. CodePhase'[d] = CASE challenge'[d] = "NONE" -> "unissued"
                            [] challenge'[d] = "VERIFIED" -> "spent"
                            [] challenge'[d] = "PENDING" /\ d \notin late' -> "open"
                            [] OTHER -> "dead"
      BY DEF CodePhase
    <2>5. challenge'[d] = IF d = c THEN "PENDING"
                          ELSE IF d \in seen[r] /\ challenge[d] = "PENDING" THEN "EXPIRED"
                          ELSE challenge[d]
      BY DEF IInv, TypeOK
    <2>6. late' = late
      OBVIOUS
    <2> QED BY <2>1, <2>2, <2>3, <2>4, <2>5, <2>6 DEF CodePhase, LiveChallenges
  <1>5. CodePhase' = [d \in Challenges |->
                        IF d = c THEN "open"
                        ELSE IF CodePhase[d] = "open" /\ owner[d] = target[r] THEN "dead"
                        ELSE CodePhase[d]]
    BY <1>4 DEF CodePhase
  <1> QED BY <1>1, <1>2, <1>3, <1>5, SameSessions DEF Promise!Issue

(* A challenge that stops accepting codes dies, unless its time had passed. *)
LEMMA DieStep ==
  ASSUME TypeOK, NEW c \in Challenges, challenge[c] = "PENDING",
         UNCHANGED <<owner, sessionVars>>,
         \/ /\ challenge' = [challenge EXCEPT ![c] = "EXPIRED"] \/ challenge' = [challenge EXCEPT ![c] = "FAILED"]
            /\ late' = late
         \/ challenge' = challenge /\ late' = late \cup {c}
  PROVE  Promise!Die(c) \/ UNCHANGED Promise!vars
  <1>1. ASSUME NEW d \in Challenges, d # c PROVE CodePhase'[d] = CodePhase[d]
    BY <1>1 DEF CodePhase, TypeOK
  <1>2. CodePhase'[c] = "dead"
    BY DEF CodePhase, TypeOK
  <1>3. CodePhase[c] = IF c \in late THEN "dead" ELSE "open"
    BY DEF CodePhase
  <1>4. CASE c \in late
    <2>1. CodePhase' = CodePhase
      BY <1>1, <1>2, <1>3, <1>4 DEF CodePhase
    <2> QED BY <2>1, SameSessions DEF Promise!vars
  <1>5. CASE c \notin late
    <2>1. CodePhase' = [CodePhase EXCEPT ![c] = "dead"]
      BY <1>1, <1>2 DEF CodePhase
    <2> QED BY <1>3, <1>5, <2>1, SameSessions DEF Promise!Die
  <1> QED BY <1>4, <1>5

LEMMA SpendStep ==
  ASSUME IInv, NEW c \in Challenges, NEW s \in Sessions, ConfirmContactVerification(c, s)
  PROVE  Promise!Spend(c)
  <1> USE DEF ConfirmContactVerification, CreateVerifiedContactSession, IInv, TypeOK
  <1>1. CodePhase[c] = "open"
    BY DEF CodePhase
  <1>2. CodePhase' = [CodePhase EXCEPT ![c] = "spent"]
    <2>1. ASSUME NEW d \in Challenges, d # c PROVE CodePhase'[d] = CodePhase[d]
      BY <2>1 DEF CodePhase
    <2>2. CodePhase'[c] = "spent"
      BY DEF CodePhase
    <2> QED BY <2>1, <2>2 DEF CodePhase
  <1>3. SessionsOf(c) = {}
    BY NoneIsFresh DEF SessionProvesContact, RowsOK, SessionsOf
  <1>4. opener[s] = None /\ s \notin lapsed
    BY DEF RowsOK
  <1>5. ASSUME NEW d \in Challenges
        PROVE  CodeSession'[d] = IF d = c THEN "open" ELSE CodeSession[d]
    <2>1. CASE d = c
      <3>1. s \in SessionsOf(c)' /\ IsSessionAuthoritative(s)'
        BY <1>4 DEF SessionsOf, IsSessionAuthoritative
      <3> QED BY <2>1, <3>1 DEF CodeSession
    <2>2. CASE d # c
      <3>1. SessionsOf(d)' = SessionsOf(d)
        BY <1>4, <2>2, NoneIsFresh DEF SessionsOf
      <3>2. \A t \in SessionsOf(d) : IsSessionAuthoritative(t)' <=> IsSessionAuthoritative(t)
        BY <1>4, NoneIsFresh DEF SessionsOf, IsSessionAuthoritative
      <3> QED BY <2>2, <3>1, <3>2 DEF CodeSession
    <2> QED BY <2>1, <2>2
  <1>6. CodeSession' = [CodeSession EXCEPT ![c] = "open"]
    BY <1>5 DEF CodeSession
  <1>7. CodeSession[c] = "none"
    BY <1>3 DEF CodeSession
  <1> QED BY <1>1, <1>2, <1>6, <1>7 DEF Promise!Spend

(* A session that is revoked, or whose time is over, ends for its code. *)
LEMMA EndStep ==
  ASSUME IInv, NEW s \in Sessions, session[s] # "NONE",
         UNCHANGED <<challenge, owner, late, opener>>,
         \/ session' = [session EXCEPT ![s] = IF @ = "ACTIVE" THEN "REVOKED" ELSE @] /\ lapsed' = lapsed
         \/ session' = session /\ lapsed' = lapsed \cup {s}
  PROVE  (Promise!End(opener[s]) /\ opener[s] \in Challenges) \/ UNCHANGED Promise!vars
  <1> DEFINE c == opener[s]
  <1>0. c \in Challenges
    BY DEF IInv, SessionProvesContact
  <1>1. SessionsOf(c) = {s}
    BY <1>0, NoneIsFresh DEF IInv, RowsOK, SessionsOf
  <1>2. \A d \in Challenges : SessionsOf(d)' = SessionsOf(d)
    BY DEF SessionsOf
  <1>3. ~IsSessionAuthoritative(s)'
    BY DEF IsSessionAuthoritative, IInv, TypeOK
  <1>4. \A t \in Sessions : t # s => (IsSessionAuthoritative(t)' <=> IsSessionAuthoritative(t))
    BY DEF IsSessionAuthoritative, IInv, TypeOK
  <1>5. ASSUME NEW d \in Challenges, d # c PROVE CodeSession'[d] = CodeSession[d]
    <2>1. s \notin SessionsOf(d)
      BY <1>5 DEF SessionsOf
    <2>2. SessionsOf(d) \subseteq Sessions
      BY DEF SessionsOf
    <2> QED BY <1>2, <1>4, <2>1, <2>2 DEF CodeSession
  <1>6. CodeSession'[c] = "ended"
    BY <1>0, <1>1, <1>2, <1>3 DEF CodeSession
  <1>7. CodeSession[c] = IF IsSessionAuthoritative(s) THEN "open" ELSE "ended"
    BY <1>0, <1>1 DEF CodeSession
  <1>8. CodePhase' = CodePhase
    BY DEF CodePhase
  <1>9. CASE IsSessionAuthoritative(s)
    <2>1. CodeSession' = [CodeSession EXCEPT ![c] = "ended"]
      BY <1>0, <1>5, <1>6 DEF CodeSession
    <2> QED BY <1>0, <1>7, <1>8, <1>9, <2>1 DEF Promise!End
  <1>10. CASE ~IsSessionAuthoritative(s)
    <2>1. CodeSession' = CodeSession
      BY <1>0, <1>5, <1>6, <1>7, <1>10 DEF CodeSession
    <2> QED BY <1>8, <2>1 DEF Promise!vars
  <1> QED BY <1>9, <1>10

LEMMA InitPromise == Init => Promise!Init
  <1> SUFFICES ASSUME Init PROVE Promise!Init
    OBVIOUS
  <1>1. CodePhase = [c \in Challenges |-> "unissued"]
    BY DEF Init, CodePhase
  <1>2. CodeSession = [c \in Challenges |-> "none"]
    BY NoneIsFresh DEF Init, CodeSession, SessionsOf
  <1> QED BY <1>1, <1>2 DEF Init, Promise!Init

LEMMA StepPromise == IInv /\ [Next]_vars => [Promise!Next]_(Promise!vars)
  <1> SUFFICES ASSUME IInv, [Next]_vars PROVE Promise!Next \/ UNCHANGED Promise!vars
    OBVIOUS
  <1>1. ASSUME NEW r \in Requests, NEW c \in Challenges, StartContactVerification(r, c)
        PROVE  Promise!Next
    BY <1>1, IssueStep DEF Promise!Next
  <1>2. ASSUME NEW r \in Requests, RevokeSession(r) PROVE Promise!Next \/ UNCHANGED Promise!vars
    <2>1. target[r] \in Sessions /\ session[target[r]] # "NONE"
      BY <1>2 DEF RevokeSession, IInv, RequestsOK
    <2> QED BY <1>2, <2>1, EndStep DEF RevokeSession, challengeVars, Promise!Next
  <1>3. ASSUME NEW c \in Challenges, ConfirmExpired(c) PROVE Promise!Next \/ UNCHANGED Promise!vars
    BY <1>3, DieStep DEF ConfirmExpired, IInv, Promise!Next
  <1>4. ASSUME NEW c \in Challenges, ConfirmWrongCode(c) PROVE Promise!Next \/ UNCHANGED Promise!vars
    <2>1. CASE attempts[c] + 1 >= MaxAttempts
      BY <1>4, <2>1, DieStep DEF ConfirmWrongCode, IInv, Promise!Next
    <2>2. CASE ~(attempts[c] + 1 >= MaxAttempts)
      <3>1. challenge' = challenge
        BY <1>4, <2>2 DEF ConfirmWrongCode, IInv, TypeOK
      <3> QED BY <1>4, <3>1, SameRows DEF ConfirmWrongCode
    <2> QED BY <2>1, <2>2
  <1>5. ASSUME NEW c \in Challenges, NEW s \in Sessions, ConfirmContactVerification(c, s)
        PROVE  Promise!Next
    BY <1>5, SpendStep DEF Promise!Next
  <1>6. ASSUME NEW c \in Challenges, ChallengeLapses(c) PROVE Promise!Next \/ UNCHANGED Promise!vars
    BY <1>6, DieStep DEF ChallengeLapses, IInv, Promise!Next
  <1>7. ASSUME NEW s \in Sessions, SessionLapses(s) PROVE Promise!Next \/ UNCHANGED Promise!vars
    <2>1. session[s] # "NONE"
      BY <1>7 DEF SessionLapses
    <2> QED BY <1>7, <2>1, EndStep DEF SessionLapses, challengeVars, Promise!Next
  <1>8. CASE \E r \in Requests :
               \/ \E k \in Keys : StartAccountRegistration(r, k)
               \/ \E a \in Accounts : CreateIdentityRecords(r, a)
               \/ RegistrationRefused(r)
               \/ \E a \in Accounts : LoadOwnedContact(r, a)
               \/ Abandon(r)
               \/ \E s \in Sessions : AuthenticateBearerSession(r, s)
               \/ Serve(r)
    BY <1>8, SameRows DEF StartAccountRegistration, CreateIdentityRecords, RegistrationRefused,
       LoadOwnedContact, Abandon, AuthenticateBearerSession, Serve, challengeVars, sessionVars
  <1>9. CASE \E c \in Challenges : SendVerificationCode(c) \/ ChallengeCools(c)
    BY <1>9, SameRows DEF SendVerificationCode, ChallengeCools
  <1>10. CASE \E a \in Accounts : ChangeAccountStatus(a)
    BY <1>10, SameRows DEF ChangeAccountStatus, challengeVars
  <1>11. CASE UNCHANGED vars
    BY <1>11, SameRows DEF vars, challengeVars
  <1> QED BY <1>1, <1>2, <1>3, <1>4, <1>5, <1>6, <1>7, <1>8, <1>9, <1>10, <1>11 DEF Next

(* Identity implements OneTimeCode: one open code per account, one session  *)
(* per spent code, and what has ended stays ended.                          *)
THEOREM IdentityImplementsOneTimeCode == Spec => RefinesOneTimeCode
  BY IdentityInvariant, InitPromise, StepPromise, PTL DEF Spec, RefinesOneTimeCode, Promise!Spec

==============================================================================
