------------------------------- MODULE Identity -------------------------------
(***************************************************************************)
(* Registration, contact verification and sessions                         *)
(* (services/api/src/modules/identity).                                    *)
(*                                                                         *)
(* Each request runs one transaction. Two commands are two actions each:   *)
(* startAccountRegistration looks for its key before it inserts and only   *)
(* the unique index of command_deduplication decides between two of them;  *)
(* startContactVerification reads the live challenge and inserts later,    *)
(* holding the lock of the contact point. confirmContactVerification locks *)
(* challenge and account and is one action. A registered account has one   *)
(* contact point, so the contact is named by its account. Codes travel     *)
(* outside the database: "delivered" holds those that arrived, in any      *)
(* order, late or never.                                                   *)
(***************************************************************************)
EXTENDS Naturals, FiniteSets

CONSTANTS
    Accounts, Challenges, Sessions, Keys, Requests, None,
    MaxAttempts   \* contactVerificationMaxAttempts

ASSUME NoneIsFresh ==
    None \notin Accounts \cup Challenges \cup Sessions \cup Keys
ASSUME AttemptsPositive == MaxAttempts \in Nat \ {0}

VARIABLES
    account,    \* account[a]: status of identity.user_account, "NONE" before registration
    dedup,      \* dedup[k]: the account that StartAccountRegistration answered for key k
    challenge,  \* challenge[c]: status of identity.verification_record, "NONE" before
    owner,      \* owner[c]: the account of its contact point
    attempts,   \* attempts[c]: attempt_count
    late,       \* challenges whose expires_at has passed
    cooled,     \* challenges sent at least resendSeconds ago
    delivered,  \* challenges whose code reached the person
    session,    \* session[s]: status of identity.session, "NONE" before
    opener,     \* opener[s]: the challenge whose confirmation created the session
    lapsed,     \* sessions whose expires_at has passed
    pc,         \* pc[r]: what request r is in the middle of
    target,     \* target[r]: the key, account or session it works on
    seen        \* seen[r]: the live challenges in the snapshot of a start

accountVars == <<account, dedup>>
challengeVars == <<challenge, owner, attempts, late, cooled, delivered>>
sessionVars == <<session, opener, lapsed>>
requestVars == <<pc, target, seen>>
vars == <<accountVars, challengeVars, sessionVars, requestVars>>

AccountStatuses == {"PENDING", "ACTIVE", "LIMITED", "SUSPENDED", "CLOSED"}
ChallengeStatuses == {"PENDING", "VERIFIED", "FAILED", "EXPIRED"}

AccountTransitions ==
    [PENDING   |-> {"ACTIVE", "LIMITED", "SUSPENDED", "CLOSED"},
     ACTIVE    |-> {"LIMITED", "SUSPENDED", "CLOSED"},
     LIMITED   |-> {"ACTIVE", "SUSPENDED", "CLOSED"},
     SUSPENDED |-> {"ACTIVE", "LIMITED", "CLOSED"},
     CLOSED    |-> {}]

IsSessionAuthoritative(s) == session[s] = "ACTIVE" /\ s \notin lapsed

LiveChallenges(a) == {c \in Challenges : owner[c] = a /\ challenge[c] = "PENDING"}

TypeOK ==
    /\ account \in [Accounts -> AccountStatuses \cup {"NONE"}]
    /\ dedup \in [Keys -> Accounts \cup {None}]
    /\ challenge \in [Challenges -> ChallengeStatuses \cup {"NONE"}]
    /\ owner \in [Challenges -> Accounts \cup {None}]
    /\ attempts \in [Challenges -> 0 .. MaxAttempts]
    /\ late \subseteq Challenges
    /\ cooled \subseteq Challenges
    /\ delivered \subseteq Challenges
    /\ session \in [Sessions -> {"NONE", "ACTIVE", "REVOKED"}]
    /\ opener \in [Sessions -> Challenges \cup {None}]
    /\ lapsed \subseteq Sessions
    /\ pc \in [Requests -> {"idle", "registering", "starting", "serving"}]
    /\ target \in [Requests -> Accounts \cup Keys \cup Sessions \cup {None}]
    /\ seen \in [Requests -> SUBSET Challenges]

Init ==
    /\ account = [a \in Accounts |-> "NONE"]
    /\ dedup = [k \in Keys |-> None]
    /\ challenge = [c \in Challenges |-> "NONE"]
    /\ owner = [c \in Challenges |-> None]
    /\ attempts = [c \in Challenges |-> 0]
    /\ late = {}
    /\ cooled = {}
    /\ delivered = {}
    /\ session = [s \in Sessions |-> "NONE"]
    /\ opener = [s \in Sessions |-> None]
    /\ lapsed = {}
    /\ pc = [r \in Requests |-> "idle"]
    /\ target = [r \in Requests |-> None]
    /\ seen = [r \in Requests |-> {}]

Opens(r, step, what, snapshot) ==
    /\ pc[r] = "idle"
    /\ pc' = [pc EXCEPT ![r] = step]
    /\ target' = [target EXCEPT ![r] = what]
    /\ seen' = [seen EXCEPT ![r] = snapshot]

Closes(r) ==
    /\ pc' = [pc EXCEPT ![r] = "idle"]
    /\ target' = [target EXCEPT ![r] = None]
    /\ seen' = [seen EXCEPT ![r] = {}]

(***************************************************************************)
(* Registration                                                            *)
(***************************************************************************)

(* findDeduplicatedResult finds nothing; a key that is found is answered    *)
(* from the stored response and changes nothing.                            *)
StartAccountRegistration(r, k) ==
    /\ dedup[k] = None
    /\ Opens(r, "registering", k, {})
    /\ UNCHANGED <<accountVars, challengeVars, sessionVars>>

CreateIdentityRecords(r, a) ==
    /\ pc[r] = "registering"
    /\ dedup[target[r]] = None
    /\ account[a] = "NONE"
    /\ account' = [account EXCEPT ![a] = "PENDING"]
    /\ dedup' = [dedup EXCEPT ![target[r]] = a]
    /\ Closes(r)
    /\ UNCHANGED <<challengeVars, sessionVars>>

(* The other transaction recorded the key first: the insert is refused and *)
(* everything is rolled back.                                               *)
RegistrationRefused(r) ==
    /\ pc[r] = "registering"
    /\ dedup[target[r]] # None
    /\ Closes(r)
    /\ UNCHANGED <<accountVars, challengeVars, sessionVars>>

(***************************************************************************)
(* Contact verification                                                    *)
(***************************************************************************)

(* loadOwnedContact, the cooldown of the live challenge, and the scan of    *)
(* the UPDATE that expires it. The contact point stays locked until the new *)
(* challenge is inserted.                                                   *)
LoadOwnedContact(r, a) ==
    /\ \A q \in Requests : ~(pc[q] = "starting" /\ target[q] = a)
    /\ account[a] \in {"PENDING", "ACTIVE", "LIMITED"}
    /\ LiveChallenges(a) \subseteq cooled
    /\ Opens(r, "starting", a, LiveChallenges(a))
    /\ UNCHANGED <<accountVars, challengeVars, sessionVars>>

(* A challenge of the scan that was confirmed meanwhile is left alone. *)
StartContactVerification(r, c) ==
    /\ pc[r] = "starting"
    /\ challenge[c] = "NONE"
    /\ challenge' = [d \in Challenges |->
                        IF d = c THEN "PENDING"
                        ELSE IF d \in seen[r] /\ challenge[d] = "PENDING" THEN "EXPIRED"
                        ELSE challenge[d]]
    /\ owner' = [owner EXCEPT ![c] = target[r]]
    /\ Closes(r)
    /\ UNCHANGED <<accountVars, attempts, late, cooled, delivered, sessionVars>>

(* A transaction ends without effect: an error, a lost process. *)
Abandon(r) ==
    /\ pc[r] \in {"registering", "starting"}
    /\ Closes(r)
    /\ UNCHANGED <<accountVars, challengeVars, sessionVars>>

(* The provider delivers after the commit; its answer is never written back. *)
SendVerificationCode(c) ==
    /\ challenge[c] # "NONE"
    /\ delivered' = delivered \cup {c}
    /\ UNCHANGED <<accountVars, challenge, owner, attempts, late, cooled, sessionVars, requestVars>>

ConfirmExpired(c) ==
    /\ challenge[c] = "PENDING"
    /\ c \in late
    /\ challenge' = [challenge EXCEPT ![c] = "EXPIRED"]
    /\ UNCHANGED <<accountVars, owner, attempts, late, cooled, delivered, sessionVars, requestVars>>

ConfirmWrongCode(c) ==
    /\ challenge[c] = "PENDING"
    /\ c \notin late
    /\ attempts[c] < MaxAttempts
    /\ attempts' = [attempts EXCEPT ![c] = @ + 1]
    /\ challenge' = [challenge EXCEPT ![c] = IF attempts[c] + 1 >= MaxAttempts THEN "FAILED" ELSE @]
    /\ UNCHANGED <<accountVars, owner, late, cooled, delivered, sessionVars, requestVars>>

(* createVerifiedContactSession, in the transaction of the confirmation. *)
CreateVerifiedContactSession(s, c) ==
    /\ session[s] = "NONE"
    /\ session' = [session EXCEPT ![s] = "ACTIVE"]
    /\ opener' = [opener EXCEPT ![s] = c]
    /\ UNCHANGED lapsed

(* Faulty variant: a challenge that was consumed is accepted again. *)
ConfirmContactVerification_Replay(c, s) ==
    /\ challenge[c] \in {"PENDING", "VERIFIED"}
    /\ c \notin late
    /\ attempts[c] < MaxAttempts
    /\ c \in delivered
    /\ account[owner[c]] \in {"PENDING", "ACTIVE", "LIMITED"}
    /\ attempts' = [attempts EXCEPT ![c] = @ + 1]
    /\ challenge' = [challenge EXCEPT ![c] = "VERIFIED"]
    /\ account' = [account EXCEPT ![owner[c]] = IF @ = "PENDING" THEN "ACTIVE" ELSE @]
    /\ CreateVerifiedContactSession(s, c)
    /\ UNCHANGED <<dedup, owner, late, cooled, delivered, requestVars>>

(* Faulty variant: only the session is created, the account stays PENDING. *)
ConfirmContactVerification_NoActivation(c, s) ==
    /\ challenge[c] = "PENDING"
    /\ c \notin late
    /\ attempts[c] < MaxAttempts
    /\ c \in delivered
    /\ account[owner[c]] \in {"PENDING", "ACTIVE", "LIMITED"}
    /\ attempts' = [attempts EXCEPT ![c] = @ + 1]
    /\ challenge' = [challenge EXCEPT ![c] = "VERIFIED"]
    /\ CreateVerifiedContactSession(s, c)
    /\ UNCHANGED <<accountVars, owner, late, cooled, delivered, requestVars>>

(* The right code. For a SUSPENDED or CLOSED account the whole transaction  *)
(* is rolled back, the attempt included.                                    *)
ConfirmContactVerification(c, s) ==
    /\ challenge[c] = "PENDING"
    /\ c \notin late
    /\ attempts[c] < MaxAttempts
    /\ c \in delivered
    /\ account[owner[c]] \in {"PENDING", "ACTIVE", "LIMITED"}
    /\ attempts' = [attempts EXCEPT ![c] = @ + 1]
    /\ challenge' = [challenge EXCEPT ![c] = "VERIFIED"]
    /\ account' = [account EXCEPT ![owner[c]] = IF @ = "PENDING" THEN "ACTIVE" ELSE @]
    /\ CreateVerifiedContactSession(s, c)
    /\ UNCHANGED <<dedup, owner, late, cooled, delivered, requestVars>>

(***************************************************************************)
(* Sessions                                                                *)
(***************************************************************************)

(* requirePrincipal: the row is read here, and acted upon later. *)
AuthenticateBearerSession(r, s) ==
    /\ IsSessionAuthoritative(s)
    /\ Opens(r, "serving", s, {})
    /\ UNCHANGED <<accountVars, challengeVars, sessionVars>>

RevokeSession(r) ==
    /\ pc[r] = "serving"
    /\ session' = [session EXCEPT ![target[r]] = IF @ = "ACTIVE" THEN "REVOKED" ELSE @]
    /\ Closes(r)
    /\ UNCHANGED <<accountVars, challengeVars, opener, lapsed>>

(* Any other command of the principal. authenticateBearerSession writes     *)
(* last_seen_at by its own UPDATE, after the read.                          *)
Serve(r) ==
    /\ pc[r] = "serving"
    /\ Closes(r)
    /\ UNCHANGED <<accountVars, challengeVars, sessionVars>>

(***************************************************************************)
(* The clock, and the operators of accounts, who are not in the repository. *)
(***************************************************************************)
ChallengeCools(c) ==
    /\ challenge[c] = "PENDING"
    /\ cooled' = cooled \cup {c}
    /\ UNCHANGED <<accountVars, challenge, owner, attempts, late, delivered, sessionVars, requestVars>>

ChallengeLapses(c) ==
    /\ challenge[c] = "PENDING"
    /\ late' = late \cup {c}
    /\ UNCHANGED <<accountVars, challenge, owner, attempts, cooled, delivered, sessionVars, requestVars>>

SessionLapses(s) ==
    /\ session[s] = "ACTIVE"
    /\ lapsed' = lapsed \cup {s}
    /\ UNCHANGED <<accountVars, challengeVars, session, opener, requestVars>>

ChangeAccountStatus(a) ==
    /\ account[a] # "NONE"
    /\ \E to \in AccountTransitions[account[a]] : account' = [account EXCEPT ![a] = to]
    /\ UNCHANGED <<dedup, challengeVars, sessionVars, requestVars>>

Next ==
    \/ \E r \in Requests :
        \/ \E k \in Keys : StartAccountRegistration(r, k)
        \/ \E a \in Accounts : CreateIdentityRecords(r, a)
        \/ RegistrationRefused(r)
        \/ \E a \in Accounts : LoadOwnedContact(r, a)
        \/ \E c \in Challenges : StartContactVerification(r, c)
        \/ Abandon(r)
        \/ \E s \in Sessions : AuthenticateBearerSession(r, s)
        \/ RevokeSession(r)
        \/ Serve(r)
    \/ \E c \in Challenges :
        \/ SendVerificationCode(c)
        \/ ConfirmExpired(c)
        \/ ConfirmWrongCode(c)
        \/ \E s \in Sessions : ConfirmContactVerification(c, s)
        \/ ChallengeCools(c)
        \/ ChallengeLapses(c)
    \/ \E s \in Sessions : SessionLapses(s)
    \/ \E a \in Accounts : ChangeAccountStatus(a)

Spec == Init /\ [][Next]_vars

(***************************************************************************)
(* Properties                                                              *)
(***************************************************************************)

(* A contact never has two challenges that accept a code, although the      *)
(* cooldown is read before the new challenge is inserted and nothing but    *)
(* the lock of the contact point keeps a second request out in between.     *)
OneLiveChallenge ==
    \A c, d \in Challenges :
        challenge[c] = "PENDING" /\ challenge[d] = "PENDING" /\ owner[c] = owner[d] => c = d

(* A challenge that still accepts codes has an attempt left, so that the    *)
(* separate check of attempt_count in confirmContactVerification is never   *)
(* what stops a guess, and no interleaving of resends adds attempts.        *)
LiveChallengeHasAttemptLeft ==
    \A c \in Challenges : challenge[c] = "PENDING" => attempts[c] < MaxAttempts

(* Every registered account is the stored answer of one key: two requests   *)
(* with one key that overlap leave one account, and no account is created   *)
(* that the client could not be told of again.                              *)
AccountHasItsKey ==
    \A a \in Accounts : account[a] # "NONE" => Cardinality({k \in Keys : dedup[k] = a}) = 1

(* A session was opened by a VERIFIED challenge of an account that has left *)
(* PENDING; it stays so whatever is done to the account afterwards.         *)
SessionProvesContact ==
    \A s \in Sessions :
        session[s] # "NONE" =>
            /\ opener[s] \in Challenges
            /\ challenge[opener[s]] = "VERIFIED"
            /\ account[owner[opener[s]]] \notin {"NONE", "PENDING"}

(* What the requests and rows amount to: a challenge past its expiry is     *)
(* dead before anyone writes EXPIRED, and a session ends when it is revoked *)
(* or its time is over.                                                     *)
CodePhase ==
    [c \in Challenges |->
        CASE challenge[c] = "NONE" -> "unissued"
          [] challenge[c] = "VERIFIED" -> "spent"
          [] challenge[c] = "PENDING" /\ c \notin late -> "open"
          [] OTHER -> "dead"]

SessionsOf(c) == {s \in Sessions : opener[s] = c}

CodeSession ==
    [c \in Challenges |->
        IF SessionsOf(c) = {} THEN "none"
        ELSE IF \E s \in SessionsOf(c) : IsSessionAuthoritative(s) THEN "open"
        ELSE "ended"]

Promise == INSTANCE OneTimeCode
               WITH Codes <- Challenges, holder <- owner, phase <- CodePhase, session <- CodeSession

(* Identity implements the promise of OneTimeCode: one open code per        *)
(* account, each spent at most once, in time, for one session that never    *)
(* comes back, under resends, late deliveries, replays and sign-outs.       *)
RefinesOneTimeCode == Promise!Spec

==============================================================================
