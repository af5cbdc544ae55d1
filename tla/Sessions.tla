------------------------------- MODULE Sessions -------------------------------
(***************************************************************************)
(* Accounts, sessions and their tokens: register, login, refresh, logout,  *)
(* password reset, e-mail verification, deactivation and erasure           *)
(* (apps/identity-service/src/auth, tokens, users, erasure), the Redis     *)
(* revocation keys (libs/platform-redis/src/revocation.ts) and the guard   *)
(* that reads them (apps/api-gateway/src/auth/auth.guard.ts).              *)
(*                                                                         *)
(* A request is several transactions and Redis calls; one step here is one *)
(* transaction or one call, so that requests interleave between them and   *)
(* a process can die there.  A refresh token is its session and the number *)
(* of rotations before it was minted: hash gen is refresh_token_hash, gen-1*)
(* is prev_token_hash, an older one is in no row.  Every session is a      *)
(* family of its own, since issueSession mints a family id each time.  A   *)
(* request that is refused changes nothing and is not a step.              *)
(***************************************************************************)
EXTENDS Integers, FiniteSets, Sequences

CONSTANTS
    Users, Sids, MailTokens, Workers,
    Reqs,           \* requests in flight at once
    AccessTtl,      \* of an access token and of a revocation key (10 minutes)
    RefreshTtl,     \* of a refresh token (30 days)
    MailTtl,        \* of an e-mail token
    Grace,          \* from deactivation to erasure (30 days)
    RequestTime,    \* what statement and HTTP timeouts leave a request
    MaxNow, MaxRequests, MaxRotations, MaxUpdates, MaxFaults   \* bounds

ASSUME SessionsAssumption ==
    /\ {AccessTtl, RefreshTtl, MailTtl, Grace, RequestTime, MaxNow,
        MaxRequests, MaxRotations, MaxUpdates, MaxFaults} \subseteq Nat
    /\ RequestTime < AccessTtl /\ AccessTtl < Grace

VARIABLES
    now,
    users,          \* identity.users with the password of identity.credentials
    sessions,       \* identity.sessions
    mail,           \* identity.email_tokens
    keyUntil,       \* when the Redis key of a session id expires
    access,         \* access tokens signed and not expired
    outbox,         \* the user's events in identity.outbox, in commit order
    due,            \* accounts the erasure worker read and has not tried yet
    req,            \* the requests in flight
    begun, faults,  \* bounds
    granted,        \* history: pairs handed out for each refresh token
    told,           \* history: when a key was written that was not evicted
    unseen          \* history: sessions not committed yet when a reset of their
                    \* account read its sessions

vars == <<now, users, sessions, mail, keyUntil, access, outbox, due, req,
          begun, faults, granted, told, unseen>>

Null == 0       \* SQL NULL of a timestamp; the clock starts at 1
Idle == [at |-> "idle"]
NoRow == [user |-> "none"]
Purposes == {"verify_email", "reset_password"}

UserRows == [ status : {"none", "active", "deactivated", "erased"},
              eraseAfter : Nat, verified : BOOLEAN, passwordAt : Nat ]
SessionRows == [ user : Users, gen : Nat, createdAt : Nat, expires : Nat,
                 revokedAt : Nat ]
MailRows == [ user : Users, purpose : Purposes, expires : Nat, used : BOOLEAN ]
Stages == {"issue", "open", "sign", "verify", "reset", "revoke all", "keys", "commit"}

\* txn is the now() of the transaction that a login or a reset has open.
Requests == [ at : Stages, user : Users, sids : SUBSET Sids, since : Nat,
              txn : Nat ]

TypeOK ==
    /\ now \in Nat /\ begun \in Nat /\ faults \in Nat
    /\ users \in [Users -> UserRows]
    /\ sessions \in [Sids -> SessionRows \union {NoRow}]
    /\ mail \in [MailTokens -> MailRows \union {NoRow}]
    /\ keyUntil \in [Sids -> Nat] /\ told \in [Sids -> Nat]
    /\ access \subseteq [sid : Sids, iat : Nat]
    /\ outbox \in [Users -> Seq({"created", "updated", "deactivated", "erased"})]
    /\ due \in [Workers -> SUBSET Users]
    /\ req \in [Reqs -> Requests \union {Idle}]
    /\ granted \in [Sids \X (0 .. MaxRotations) -> Nat]
    /\ unseen \subseteq Sids

Init ==
    /\ now = 1 /\ begun = 0 /\ faults = 0
    /\ users = [u \in Users |-> [ status |-> "none", eraseAfter |-> Null,
                                  verified |-> FALSE, passwordAt |-> Null ]]
    /\ sessions = [s \in Sids |-> NoRow]
    /\ mail = [m \in MailTokens |-> NoRow]
    /\ keyUntil = [s \in Sids |-> Null] /\ told = [s \in Sids |-> Null]
    /\ access = {}
    /\ outbox = [u \in Users |-> <<>>]
    /\ due = [w \in Workers |-> {}]
    /\ req = [r \in Reqs |-> Idle]
    /\ granted = [t \in Sids \X (0 .. MaxRotations) |-> 0]
    /\ unseen = {}

-----------------------------------------------------------------------------
(* Rows and locks.                                                         *)

Issued(s) == sessions[s] # NoRow
Live(s) == Issued(s) /\ sessions[s].revokedAt = Null
LiveOf(u) == {s \in Sids : Live(s) /\ sessions[s].user = u}

\* A password reset holds the rows it updated until it commits.
Locked(s) == \E r \in Reqs : req[r] # Idle /\ req[r].txn # Null /\ s \in req[r].sids

\* The sessions of the logins that have not committed.
Pending == UNION {req[r].sids : r \in {q \in Reqs : req[q].at = "open"}}
FreshSid == CHOOSE s \in Sids : ~Issued(s) /\ s \notin Pending
CanIssue == \E s \in Sids : ~Issued(s) /\ s \notin Pending

\* A token that can no longer be used makes room for a new one.
FreshMail(m) == mail[m] # NoRow => mail[m].used \/ mail[m].expires <= now

\* created_at defaults to now(), which is when the transaction began.
NewSession(u, began) == [ user |-> u, gen |-> 0, createdAt |-> began,
                          expires |-> began + RefreshTtl, revokedAt |-> Null ]
Revoked(ss) == [s \in Sids |-> IF s \in ss THEN [sessions[s] EXCEPT !.revokedAt = now]
                                           ELSE sessions[s]]

Token(s) == [sid |-> s, iat |-> now]

\* jwtVerify: identity's own guard asks no more than this.
Verifies(a) == now < a.iat + AccessTtl
KeyLives(s) == now < keyUntil[s]

\* AuthGuard.canActivate in the gateway, when Redis answers ...
Admitted(a) == Verifies(a) /\ ~KeyLives(a.sid)

\* ... and when it does not: isRevoked fails open.
Unanswered(a) == Verifies(a) /\ KeyLives(a.sid) /\ faults < MaxFaults

Passes(a) == \/ Admitted(a) /\ UNCHANGED faults
             \/ Unanswered(a) /\ faults' = faults + 1

Begin(r, next, u, ss) ==
    /\ req[r] = Idle /\ begun < MaxRequests
    /\ begun' = begun + 1
    /\ req' = [req EXCEPT ![r] = [ at |-> next, user |-> u, sids |-> ss,
                                   since |-> now, txn |-> Null ]]
Go(r, next) == req' = [req EXCEPT ![r].at = next]
End(r) == req' = [req EXCEPT ![r] = Idle]

Emit(u, type) == outbox' = [outbox EXCEPT ![u] = Append(@, type)]

-----------------------------------------------------------------------------
(* AuthService: register, login, refresh.                                  *)

\* One transaction: user, credentials, verification token, session, event;
\* the access token is signed inside it.
Register(u, m) ==
    /\ users[u].status = "none" /\ CanIssue /\ FreshMail(m)
    /\ begun < MaxRequests /\ begun' = begun + 1
    /\ users' = [users EXCEPT ![u].status = "active", ![u].passwordAt = now]
    /\ mail' = [mail EXCEPT ![m] = [ user |-> u, purpose |-> "verify_email",
                                     expires |-> now + MailTtl, used |-> FALSE ]]
    /\ sessions' = [sessions EXCEPT ![FreshSid] = NewSession(u, now)]
    /\ access' = access \union {Token(FreshSid)}
    /\ Emit(u, "created")
    /\ UNCHANGED <<now, keyUntil, due, req, faults, granted, told, unseen>>

\* The row and the password are read and compared outside any transaction.
Login(r, u) ==
    /\ users[u].status = "active"
    /\ Begin(r, "issue", u, {})
    /\ UNCHANGED <<now, users, sessions, mail, keyUntil, access, outbox, due,
                   faults, granted, told, unseen>>

\* issueSession without a client has a transaction of its own: BEGIN and INSERT ...
OpenSession(r) ==
    /\ req[r].at = "issue" /\ CanIssue
    /\ req' = [req EXCEPT ![r].at = "open", ![r].sids = {FreshSid}, ![r].txn = now]
    /\ unseen' = unseen \ {FreshSid}
    /\ UNCHANGED <<now, users, sessions, mail, keyUntil, access, outbox, due,
                   begun, faults, granted, told>>

\* ... and COMMIT; until then no other transaction sees the row.
CommitSession(r) ==
    /\ req[r].at = "open"
    /\ sessions' = [s \in Sids |-> IF s \in req[r].sids
                                   THEN NewSession(req[r].user, req[r].txn)
                                   ELSE sessions[s]]
    /\ req' = [req EXCEPT ![r].at = "sign", ![r].txn = Null]
    /\ UNCHANGED <<now, users, mail, keyUntil, access, outbox, due, begun,
                   faults, granted, told, unseen>>

\* The row is found by its current or its previous hash, and locked.
Found(s, gen) == Issued(s) /\ gen \in {sessions[s].gen, sessions[s].gen - 1}

\* Mutant: either hash rotates.
RotatesEither(s, gen) == Live(s) /\ Found(s, gen) /\ now < sessions[s].expires

\* Mutant: revoked_at is not looked at.
RotatesRevoked(s, gen) == gen = sessions[s].gen /\ now < sessions[s].expires

Rotates(s, gen) == /\ Live(s) /\ gen = sessions[s].gen
                   /\ now < sessions[s].expires
Replays(s, gen) == Live(s) /\ gen = sessions[s].gen - 1

Refresh(r, s, gen) ==
    /\ Found(s, gen) /\ ~Locked(s) /\ Rotates(s, gen) /\ gen < MaxRotations
    /\ Begin(r, "sign", sessions[s].user, {s})
    /\ sessions' = [sessions EXCEPT ![s].gen = @ + 1,
                                    ![s].expires = now + RefreshTtl]
    /\ granted' = [granted EXCEPT ![<<s, gen>>] = @ + 1]
    /\ UNCHANGED <<now, users, mail, keyUntil, access, outbox, due, faults,
                   told, unseen>>

\* The replaced token again: the family is revoked and the answer is 401.
RefreshReplayed(r, s, gen) ==
    /\ Found(s, gen) /\ ~Locked(s) /\ Replays(s, gen)
    /\ Begin(r, "keys", sessions[s].user, {s})
    /\ sessions' = Revoked({s})
    /\ UNCHANGED <<now, users, mail, keyUntil, access, outbox, due, faults,
                   granted, told, unseen>>

\* After the commit: loadEmailVerified, then the access token.
Sign(r) ==
    /\ req[r].at = "sign"
    /\ access' = access \union {Token(s) : s \in req[r].sids}
    /\ End(r)
    /\ UNCHANGED <<now, users, sessions, mail, keyUntil, outbox, due, begun,
                   faults, granted, told, unseen>>

-----------------------------------------------------------------------------
(* Revocation: first the rows, then a Redis key for each row this call      *)
(* revoked.                                                                *)

\* revokeByRefreshToken; RevokeMany is its second half.  A row revoked before
\* is not returned: then no key is written and nothing changes.
Logout(r, s, gen) ==
    /\ Found(s, gen) /\ ~Locked(s) /\ Live(s)
    /\ Begin(r, "keys", sessions[s].user, {s})
    /\ sessions' = Revoked({s})
    /\ UNCHANGED <<now, users, mail, keyUntil, access, outbox, due, faults,
                   granted, told, unseen>>

LogoutAll(r, a) ==
    /\ a \in access /\ Passes(a)
    /\ Begin(r, "revoke all", sessions[a.sid].user, {})
    /\ UNCHANGED <<now, users, sessions, mail, keyUntil, access, outbox, due,
                   granted, told, unseen>>

\* revokeAllForUser without a client: its own statement.
RevokeAll(r) ==
    LET ss == LiveOf(req[r].user)
    IN  /\ req[r].at = "revoke all" /\ \A s \in ss : ~Locked(s)
        /\ sessions' = Revoked(ss)
        /\ req' = [req EXCEPT ![r].at = "keys", ![r].sids = ss]
        /\ UNCHANGED <<now, users, mail, keyUntil, access, outbox, due, begun,
                       faults, granted, told, unseen>>

\* A reset still has to commit; for every other request it was the last call.
AfterKeys(r) == IF req[r].txn # Null THEN Go(r, "commit") ELSE End(r)

\* Mutant: the key expires before the tokens signed with it do.
UntilShort == now + AccessTtl - 1

Until == now + AccessTtl

RevokeMany(r) ==
    /\ req[r].at = "keys"
    /\ keyUntil' = [s \in Sids |-> IF s \in req[r].sids THEN Until ELSE keyUntil[s]]
    /\ told' = [s \in Sids |-> IF s \in req[r].sids THEN now ELSE told[s]]
    /\ AfterKeys(r)
    /\ UNCHANGED <<now, users, sessions, mail, access, outbox, due, begun,
                   faults, granted, unseen>>

\* Redis is away: exec() reports an error per command and does not throw, so
\* the request goes on as if the keys were there.
RevokeManyFails(r) ==
    /\ req[r].at = "keys" /\ faults < MaxFaults /\ faults' = faults + 1
    /\ AfterKeys(r)
    /\ UNCHANGED <<now, users, sessions, mail, keyUntil, access, outbox, due,
                   begun, granted, told, unseen>>

\* Redis runs with allkeys-lru: a key may go before its time.
Evict(s) ==
    /\ KeyLives(s) /\ faults < MaxFaults /\ faults' = faults + 1
    /\ keyUntil' = [keyUntil EXCEPT ![s] = Null]
    /\ told' = [told EXCEPT ![s] = Null]
    /\ UNCHANGED <<now, users, sessions, mail, access, outbox, due, req, begun,
                   granted, unseen>>

-----------------------------------------------------------------------------
(* E-mail tokens.                                                          *)

\* forgotPassword
ForgotPassword(u, m) ==
    /\ users[u].status = "active" /\ FreshMail(m)
    /\ mail' = [mail EXCEPT ![m] = [ user |-> u, purpose |-> "reset_password",
                                     expires |-> now + MailTtl, used |-> FALSE ]]
    /\ UNCHANGED <<now, users, sessions, keyUntil, access, outbox, due, req,
                   begun, faults, granted, told, unseen>>

\* consume, a transaction of its own before the one that does the work.
Consume(r, m) ==
    /\ mail[m] # NoRow /\ ~mail[m].used /\ now < mail[m].expires
    /\ mail' = [mail EXCEPT ![m].used = TRUE]
    /\ Begin(r, IF mail[m].purpose = "verify_email" THEN "verify" ELSE "reset",
             mail[m].user, {})
    /\ UNCHANGED <<now, users, sessions, keyUntil, access, outbox, due, faults,
                   granted, told, unseen>>

VerifyEmail(r) ==
    /\ req[r].at = "verify"
    /\ users' = [users EXCEPT ![req[r].user].verified = TRUE]
    /\ End(r)
    /\ UNCHANGED <<now, sessions, mail, keyUntil, access, outbox, due, begun,
                   faults, granted, told, unseen>>

\* The reset transaction: the password and the sessions are updated, their
\* keys written from inside it, and only then does it commit.
\* password_updated_at is the now() of the transaction.
ResetPassword(r) ==
    LET ss == LiveOf(req[r].user)
    IN  /\ req[r].at = "reset" /\ \A s \in ss : ~Locked(s)
        /\ req' = [req EXCEPT ![r].at = "keys", ![r].sids = ss, ![r].txn = now]
        /\ unseen' = unseen \union
               UNION {req[q].sids : q \in {o \in Reqs : /\ req[o].at = "open"
                                                       /\ req[o].user = req[r].user}}
        /\ UNCHANGED <<now, users, sessions, mail, keyUntil, access, outbox,
                       due, begun, faults, granted, told>>

\* Mutant: the sessions of before the reset are only kept out of the gateway.
ResetKeepsSessions(r) ==
    /\ req[r].at = "commit"
    /\ users' = [users EXCEPT ![req[r].user].passwordAt = req[r].txn]
    /\ End(r)
    /\ UNCHANGED <<now, sessions, mail, keyUntil, access, outbox, due, begun,
                   faults, granted, told, unseen>>

ResetCommits(r) ==
    /\ req[r].at = "commit"
    /\ sessions' = Revoked(req[r].sids)
    /\ users' = [users EXCEPT ![req[r].user].passwordAt = req[r].txn]
    /\ End(r)
    /\ UNCHANGED <<now, mail, keyUntil, access, outbox, due, begun, faults,
                   granted, told, unseen>>

-----------------------------------------------------------------------------
(* Profile, deactivation, erasure.                                         *)

UpdateProfile(a) ==
    LET u == sessions[a.sid].user
    IN  /\ a \in access /\ Passes(a)
        /\ users[u].status # "erased"
        /\ Cardinality({i \in DOMAIN outbox[u] : outbox[u][i] = "updated"}) < MaxUpdates
        /\ Emit(u, "updated")
        /\ UNCHANGED <<now, users, sessions, mail, keyUntil, access, due, req,
                       begun, granted, told, unseen>>

\* The account in one transaction; its sessions afterwards (RevokeAll).
Deactivate(r, a) ==
    LET u == sessions[a.sid].user
    IN  /\ a \in access /\ Passes(a)
        /\ users[u].status = "active" /\ now + Grace < MaxNow
        /\ users' = [users EXCEPT ![u].status = "deactivated",
                                  ![u].eraseAfter = now + Grace]
        /\ Emit(u, "deactivated")
        /\ Begin(r, "revoke all", u, {})
        /\ UNCHANGED <<now, sessions, mail, keyUntil, access, due, granted,
                       told, unseen>>

Due(u) == users[u].status = "deactivated" /\ users[u].eraseAfter <= now

\* Mutant: erase_after is compared for the day, not for being past.
FindDueToday(w) ==
    LET today == {u \in Users : Due(u) /\ users[u].eraseAfter = now}
    IN  /\ due[w] = {} /\ today # {}
        /\ due' = [due EXCEPT ![w] = today]
        /\ UNCHANGED <<now, users, sessions, mail, keyUntil, access, outbox, req,
                       begun, faults, granted, told, unseen>>

FindDue(w) ==
    /\ due[w] = {} /\ \E u \in Users : Due(u)
    /\ due' = [due EXCEPT ![w] = {u \in Users : Due(u)}]
    /\ UNCHANGED <<now, users, sessions, mail, keyUntil, access, outbox, req,
                   begun, faults, granted, told, unseen>>

\* Mutant: the row is not looked at again.
EraseUnchecked(w, u) ==
    /\ u \in due[w] /\ due' = [due EXCEPT ![w] = @ \ {u}]
    /\ \A s \in LiveOf(u) : ~Locked(s)
    /\ users' = [users EXCEPT ![u].status = "erased",
                              ![u].verified = FALSE, ![u].passwordAt = Null]
    /\ sessions' = Revoked(LiveOf(u))
    /\ mail' = [m \in MailTokens |-> IF mail[m] # NoRow /\ mail[m].user = u
                                     THEN NoRow ELSE mail[m]]
    /\ Emit(u, "erased")
    /\ UNCHANGED <<now, keyUntil, access, req, begun, faults, granted, told, unseen>>

\* eraseOne, with the row locked and looked at again.  The revocation keys
\* are not written.
EraseOne(w, u) ==
    /\ u \in due[w] /\ due' = [due EXCEPT ![w] = @ \ {u}]
    /\ \A s \in LiveOf(u) : ~Locked(s)
    /\ IF Due(u)
       THEN /\ users' = [users EXCEPT ![u].status = "erased",
                                      ![u].verified = FALSE, ![u].passwordAt = Null]
            /\ sessions' = Revoked(LiveOf(u))
            /\ mail' = [m \in MailTokens |-> IF mail[m] # NoRow /\ mail[m].user = u
                                             THEN NoRow ELSE mail[m]]
            /\ Emit(u, "erased")
       ELSE UNCHANGED <<users, sessions, mail, outbox>>
    /\ UNCHANGED <<now, keyUntil, access, req, begun, faults, granted, told, unseen>>

-----------------------------------------------------------------------------
(* Faults and time.                                                        *)

\* The process or its database connection dies: a transaction rolls back,
\* what was committed stays.
RequestDies(r) ==
    /\ req[r] # Idle /\ faults < MaxFaults /\ faults' = faults + 1
    /\ End(r)
    /\ UNCHANGED <<now, users, sessions, mail, keyUntil, access, outbox, due,
                   begun, granted, told, unseen>>

\* runOnce catches what eraseOne throws; the account is due again.
EraseFails(w, u) ==
    /\ u \in due[w] /\ faults < MaxFaults /\ faults' = faults + 1
    /\ due' = [due EXCEPT ![w] = @ \ {u}]
    /\ UNCHANGED <<now, users, sessions, mail, keyUntil, access, outbox, req,
                   begun, granted, told, unseen>>

\* No request is older than RequestTime.  An expired token is dropped.
Tick ==
    /\ now < MaxNow
    /\ \A r \in Reqs : req[r] # Idle => now < req[r].since + RequestTime
    /\ now' = now + 1
    /\ access' = {a \in access : now' < a.iat + AccessTtl}
    /\ UNCHANGED <<users, sessions, mail, keyUntil, outbox, due, req, begun,
                   faults, granted, told, unseen>>

Proceed(r) == \/ OpenSession(r) \/ CommitSession(r) \/ Sign(r) \/ RevokeAll(r) \/ RevokeMany(r)
              \/ VerifyEmail(r) \/ ResetPassword(r) \/ ResetCommits(r)

Next ==
    \/ \E u \in Users, m \in MailTokens : Register(u, m) \/ ForgotPassword(u, m)
    \/ \E r \in Reqs, u \in Users : Login(r, u)
    \/ \E r \in Reqs, s \in Sids, g \in 0 .. MaxRotations :
          Refresh(r, s, g) \/ RefreshReplayed(r, s, g) \/ Logout(r, s, g)
    \/ \E r \in Reqs, a \in access : LogoutAll(r, a) \/ Deactivate(r, a)
    \/ \E a \in access : UpdateProfile(a)
    \/ \E r \in Reqs, m \in MailTokens : Consume(r, m)
    \/ \E r \in Reqs : Proceed(r) \/ RevokeManyFails(r) \/ RequestDies(r)
    \/ \E s \in Sids : Evict(s)
    \/ \E w \in Workers : FindDue(w)
    \/ \E w \in Workers, u \in Users : EraseOne(w, u) \/ EraseFails(w, u)
    \/ Tick

Spec == Init /\ [][Next]_vars

\* A request that can go on does, or dies; the clock runs; the erasure worker
\* polls and goes through what it read.
FairSpec ==
    /\ Spec /\ WF_vars(Tick)
    /\ \A r \in Reqs : WF_vars(Proceed(r))
    /\ \A w \in Workers : WF_vars(FindDue(w))
    /\ \A w \in Workers, u \in Users : WF_vars(EraseOne(w, u))

-----------------------------------------------------------------------------
(* Properties.                                                             *)

\* A refresh token is exchanged at most once: of two requests that present
\* it, whatever else happens to the session, one gets a new pair at most
\* (the order of the tests in SessionService.refresh).
RotatesOnce == \A t \in DOMAIN granted : granted[t] <= 1

\* "A revoked session stays valid for at most the access-token lifetime"
\* (docs/02-components/identity-service.md:329), with or without Redis: no
\* token is signed later than a request's time after its session was revoked.
AccessEnds ==
    \A a \in access : sessions[a.sid].revokedAt # Null
                        => a.iat <= sessions[a.sid].revokedAt + RequestTime

\* Once the keys of a logout, a logout-all, a deactivation, a reset or a
\* replay are written, and as long as Redis does not evict them, the gateway
\* refuses every access token signed until then at every check that Redis
\* answers, for as long as such a token lives, although the key expires.
LogoutShutsOut ==
    \A a \in access : a.iat <= told[a.sid] => ~Admitted(a)

\* A password reset leaves no session of before but one that was not committed
\* when it read them: any other live session is not older than the password
\* (AuthService.resetPassword with rows locked by refreshes, logouts and an
\* erasure in between).
SessionsPostdatePassword ==
    \A s \in Sids : Live(s) =>
        \/ sessions[s].createdAt >= users[sessions[s].user].passwordAt
        \/ s \in unseen

\* An erased account keeps no session and no e-mail token, and its
\* user.erased is the last event and the only one of its kind, whatever two
\* workers read, profile updates that race them, and logins that raced the
\* deactivation.
ErasedIsOut ==
    \A u \in Users : users[u].status = "erased" =>
        /\ LiveOf(u) = {}
        /\ \A m \in MailTokens : mail[m] = NoRow \/ mail[m].user # u
        /\ \A i \in DOMAIN outbox[u] : outbox[u][i] = "erased" <=> i = Len(outbox[u])

\* A deactivated account is erased in the end, although erasures fail.
DeactivatedIsErased ==
    \A u \in Users : users[u].status = "deactivated" ~> users[u].status = "erased"
===============================================================================
