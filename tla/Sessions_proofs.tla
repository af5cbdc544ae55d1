--------------------------- MODULE Sessions_proofs ---------------------------
(***************************************************************************)
(* Proofs about Sessions, for any number of accounts, sessions, requests   *)
(* and erasure workers and for any lifetimes that satisfy                  *)
(* SessionsAssumption.                                                     *)
(*                                                                         *)
(* What a request was told when it began is old when it acts; the          *)
(* invariant says how old: InTime bounds its age by RequestTime, and       *)
(* Signing, Issuing, Resetting and Opened say what is still true of the    *)
(* rows that it looked at.                                                 *)
(***************************************************************************)
EXTENDS Sessions, TLAPS

\* Access tokens and requests name sessions that exist.
Named ==
    /\ \A a \in access : Issued(a.sid)
    /\ \A r \in Reqs : req[r] # Idle /\ req[r].at # "open" =>
          \A s \in req[r].sids : Issued(s)

\* A session that is not committed is not there, and is of one request.
Apartness ==
    \A r \in Reqs : req[r].at = "open" =>
        /\ \A s \in req[r].sids : ~Issued(s)
        /\ \A q \in Reqs : q # r /\ req[q].at = "open" =>
              req[q].sids \intersect req[r].sids = {}

\* Nothing is dated after now, and nothing before the clock started.
Clock ==
    /\ 1 <= now
    /\ \A u \in Users : users[u].passwordAt <= now
    /\ \A a \in access : 1 <= a.iat /\ a.iat <= now

\* No request is older than RequestTime, and only a login and a reset have a
\* transaction open.
InTime ==
    \A r \in Reqs : req[r] # Idle =>
        /\ req[r].since <= now /\ now <= req[r].since + RequestTime
        /\ req[r].txn <= now
        /\ req[r].at \notin {"open", "keys", "commit"} => req[r].txn = Null

\* What is about to be signed was not revoked when the request began.
Signing ==
    \A r \in Reqs : req[r].at = "sign" =>
        \A s \in req[r].sids :
            sessions[s].revokedAt = Null \/ req[r].since <= sessions[s].revokedAt

\* A login whose account was deactivated meanwhile is too young to see it
\* erased.
Issuing ==
    \A r \in Reqs : req[r].at \in {"issue", "open"} =>
        \/ users[req[r].user].status = "active"
        \/ /\ users[req[r].user].status = "deactivated"
           /\ req[r].since + Grace <= users[req[r].user].eraseAfter

\* A reset that has read the sessions of its account and not committed.
IsResetting(q) == req[q].at \in {"keys", "commit"} /\ req[q].txn # Null

\* The live sessions that a reset does not hold are younger than it, or it could
\* not see them ...
Resetting ==
    \A r \in Reqs : IsResetting(r) =>
        \A s \in Sids : Live(s) /\ sessions[s].user = req[r].user /\ s \notin req[r].sids
                            => sessions[s].createdAt >= req[r].txn \/ s \in unseen

\* ... and so is a session that is about to be committed.
Opened ==
    \A r \in Reqs : req[r].at = "open" =>
        \A s \in req[r].sids :
            \/ s \in unseen
            \/ /\ req[r].txn >= users[req[r].user].passwordAt
               /\ \A q \in Reqs : IsResetting(q) /\ req[q].user = req[r].user
                                    => req[r].txn >= req[q].txn

\* An account that was never registered has no session.
Unborn ==
    \A s \in Sids : Issued(s) => users[sessions[s].user].status # "none"

\* The keys that were written last as long as what was signed until then.
KeysMatch ==
    \A s \in Sids : told[s] # Null => keyUntil[s] = told[s] + AccessTtl

\* A pair was handed out for older generations only.
GrantedPast ==
    \A s \in Sids, g \in 0 .. MaxRotations :
        \/ granted[<<s, g>>] = 0
        \/ granted[<<s, g>>] = 1 /\ Issued(s) /\ g < sessions[s].gen

\* user.erased is written by the transaction that erases.
NotYetErased ==
    \A u \in Users : users[u].status # "erased" =>
        \A i \in DOMAIN outbox[u] : outbox[u][i] # "erased"

Typed == TypeOK /\ Named /\ Apartness
Requested == InTime /\ Signing /\ Issuing /\ Resetting /\ Opened
IInv == /\ Typed /\ Clock /\ Requested /\ Unborn /\ KeysMatch /\ GrantedPast
        /\ NotYetErased /\ AccessEnds /\ SessionsPostdatePassword /\ ErasedIsOut

-----------------------------------------------------------------------------
(* Rows and requests.                                                      *)

\* A row is not the absence of one, and a request in flight is not idle.
LEMMA Apart ==
    /\ \A row \in SessionRows : row # NoRow
    /\ \A row \in MailRows : row # NoRow
    /\ \A x \in Requests : x # Idle
    /\ Idle.at = "idle"
<1>1. ASSUME NEW row \in SessionRows PROVE row # NoRow
  <2>1. "gen" \in DOMAIN row /\ "gen" \notin DOMAIN NoRow
    BY DEF SessionRows, NoRow
  <2> QED
    BY <2>1
<1>2. ASSUME NEW row \in MailRows PROVE row # NoRow
  <2>1. "used" \in DOMAIN row /\ "used" \notin DOMAIN NoRow
    BY DEF MailRows, NoRow
  <2> QED
    BY <2>1
<1>3. Idle.at = "idle"
  BY DEF Idle
<1>4. ASSUME NEW x \in Requests PROVE x # Idle
  <2>1. x.at \in Stages
    BY DEF Requests
  <2> QED
    BY <2>1, <1>3 DEF Stages
<1> QED
  BY <1>1, <1>2, <1>3, <1>4

\* The type of a session that is there, and of a request that is in flight.
LEMMA RowTypes ==
    ASSUME TypeOK
    PROVE  /\ \A s \in Sids : Issued(s) => sessions[s] \in SessionRows
           /\ \A r \in Reqs : req[r] # Idle => req[r] \in Requests
           /\ \A r \in Reqs : req[r].at \in Stages => req[r] # Idle
BY Apart DEF TypeOK, Issued, Stages

\* A session that can be issued is one that is not there.
LEMMA Fresh ==
    ASSUME CanIssue
    PROVE  FreshSid \in Sids /\ ~Issued(FreshSid) /\ FreshSid \notin Pending
BY DEF CanIssue, FreshSid

\* A session that is issued is typed and live.
LEMMA NewSessionType ==
    ASSUME NEW u \in Users, NEW d \in Nat
    PROVE  /\ NewSession(u, d) \in SessionRows
           /\ NewSession(u, d).user = u /\ NewSession(u, d).createdAt = d
           /\ NewSession(u, d).gen = 0 /\ NewSession(u, d).revokedAt = Null
BY SessionsAssumption DEF NewSession, SessionRows, Null

\* A rotated row is a row.
LEMMA RotatedRow ==
    ASSUME NEW row \in SessionRows, NEW e \in Nat
    PROVE  /\ [row EXCEPT !.gen = @ + 1, !.expires = e] \in SessionRows
           /\ [row EXCEPT !.gen = @ + 1, !.expires = e].expires = e
<1>1. row.gen + 1 \in Nat
  BY DEF SessionRows
<1> QED
  BY <1>1 DEF SessionRows

\* Revoking writes revoked_at of the given rows, and no more.
LEMMA RevokedRows ==
    ASSUME TypeOK, NEW ss, \A s \in ss : s \in Sids => Issued(s)
    PROVE  /\ Revoked(ss) \in [Sids -> SessionRows \union {NoRow}]
           /\ \A s \in Sids : s \notin ss => Revoked(ss)[s] = sessions[s]
           /\ \A s \in Sids : s \in ss =>
                /\ Revoked(ss)[s] \in SessionRows
                /\ Revoked(ss)[s].user = sessions[s].user
                /\ Revoked(ss)[s].gen = sessions[s].gen
                /\ Revoked(ss)[s].createdAt = sessions[s].createdAt
                /\ Revoked(ss)[s].expires = sessions[s].expires
                /\ Revoked(ss)[s].revokedAt = now
<1>1. \A s \in Sids : s \in ss => sessions[s] \in SessionRows
  BY RowTypes
<1>2. \A s \in Sids : s \in ss =>
        /\ Revoked(ss)[s] \in SessionRows
        /\ Revoked(ss)[s].user = sessions[s].user
        /\ Revoked(ss)[s].gen = sessions[s].gen
        /\ Revoked(ss)[s].createdAt = sessions[s].createdAt
        /\ Revoked(ss)[s].expires = sessions[s].expires
        /\ Revoked(ss)[s].revokedAt = now
  BY <1>1 DEF Revoked, SessionRows, TypeOK
<1>3. \A s \in Sids : s \notin ss => Revoked(ss)[s] = sessions[s]
  BY DEF Revoked
<1>4. Revoked(ss) \in [Sids -> SessionRows \union {NoRow}]
  BY <1>2, <1>3 DEF Revoked, TypeOK
<1> QED
  BY <1>2, <1>3, <1>4

\* A request that begins is typed and of now.
LEMMA Begun ==
    ASSUME TypeOK, NEW r \in Reqs, NEW next \in Stages, NEW u \in Users,
           NEW ss \in SUBSET Sids, Begin(r, next, u, ss)
    PROVE  /\ req' \in [Reqs -> Requests \union {Idle}] /\ begun' \in Nat
           /\ req[r] = Idle /\ req'[r] \in Requests
           /\ \A q \in Reqs : q # r => req'[q] = req[q]
           /\ req'[r].at = next /\ req'[r].user = u /\ req'[r].sids = ss
           /\ req'[r].since = now /\ req'[r].txn = Null
<1>1. [ at |-> next, user |-> u, sids |-> ss, since |-> now, txn |-> Null ] \in Requests
  BY DEF TypeOK, Requests, Null
<1> QED
  BY <1>1 DEF Begin, TypeOK

\* A request that goes on keeps what it was told.
LEMMA GoesOn ==
    ASSUME TypeOK, NEW r \in Reqs, req[r] # Idle, NEW next \in Stages, Go(r, next)
    PROVE  /\ req' \in [Reqs -> Requests \union {Idle}]
           /\ \A q \in Reqs : q # r => req'[q] = req[q]
           /\ req'[r] \in Requests /\ req'[r].at = next
           /\ req'[r].user = req[r].user /\ req'[r].sids = req[r].sids
           /\ req'[r].since = req[r].since /\ req'[r].txn = req[r].txn
<1>1. req[r] \in Requests
  BY RowTypes
<1> QED
  BY <1>1 DEF TypeOK, Go, Requests

\* A request that ends leaves the others alone.
LEMMA Ended ==
    ASSUME TypeOK, NEW r \in Reqs, End(r)
    PROVE  /\ req' \in [Reqs -> Requests \union {Idle}] /\ req'[r] = Idle
           /\ \A q \in Reqs : q # r => req'[q] = req[q]
BY DEF TypeOK, End

-----------------------------------------------------------------------------
(* What a step can do to the rows and to the requests.                     *)

\* The steps that write a variable; every other leaves it alone.
LEMMA Writers ==
    ASSUME [Next]_vars
    PROVE  /\ now' = now \/ Tick
           /\ UNCHANGED begun \/ begun' = begun + 1
           /\ UNCHANGED faults \/ faults' = faults + 1
           /\ \/ UNCHANGED <<keyUntil, told>>
              \/ \E r \in Reqs : RevokeMany(r)
              \/ \E s \in Sids : Evict(s)
           /\ UNCHANGED unseen \/ \E r \in Reqs : OpenSession(r) \/ ResetPassword(r)
           /\ \/ UNCHANGED due
              \/ \E w \in Workers : FindDue(w)
              \/ \E w \in Workers, u \in Users : EraseOne(w, u) \/ EraseFails(w, u)
           /\ \/ UNCHANGED granted
              \/ \E r \in Reqs, s \in Sids, g \in 0 .. MaxRotations : Refresh(r, s, g)
           /\ \/ UNCHANGED mail
              \/ \E u \in Users, m \in MailTokens : Register(u, m) \/ ForgotPassword(u, m)
              \/ \E r \in Reqs, m \in MailTokens : Consume(r, m)
              \/ \E w \in Workers, u \in Users : EraseOne(w, u)
           /\ \/ UNCHANGED access
              \/ \E u \in Users, m \in MailTokens : Register(u, m)
              \/ \E r \in Reqs : Sign(r)
              \/ Tick
           /\ \/ UNCHANGED sessions
              \/ \E u \in Users, m \in MailTokens : Register(u, m)
              \/ \E r \in Reqs : CommitSession(r) \/ RevokeAll(r) \/ ResetCommits(r)
              \/ \E r \in Reqs, s \in Sids, g \in 0 .. MaxRotations :
                    Refresh(r, s, g) \/ RefreshReplayed(r, s, g) \/ Logout(r, s, g)
              \/ \E w \in Workers, u \in Users : EraseOne(w, u)
           /\ \/ UNCHANGED users
              \/ \E u \in Users, m \in MailTokens : Register(u, m)
              \/ \E r \in Reqs : VerifyEmail(r) \/ ResetCommits(r)
              \/ \E r \in Reqs, a \in access : Deactivate(r, a)
              \/ \E w \in Workers, u \in Users : EraseOne(w, u)
           /\ \/ UNCHANGED outbox
              \/ \E u \in Users, m \in MailTokens : Register(u, m)
              \/ \E r \in Reqs, a \in access : Deactivate(r, a)
              \/ \E a \in access : UpdateProfile(a)
              \/ \E w \in Workers, u \in Users : EraseOne(w, u)
<1>1. ASSUME NEW u \in Users, NEW m \in MailTokens, Register(u, m)
      PROVE  UNCHANGED <<now, keyUntil, due, req, faults, granted, told, unseen>> /\ begun' = begun + 1
  BY <1>1 DEF Register
<1>2. ASSUME NEW u \in Users, NEW m \in MailTokens, ForgotPassword(u, m)
      PROVE  UNCHANGED <<now, users, sessions, keyUntil, access, outbox, due, req, begun,
                         faults, granted, told, unseen>>
  BY <1>2 DEF ForgotPassword
<1>3. ASSUME NEW r \in Reqs, NEW u \in Users, Login(r, u)
      PROVE  /\ UNCHANGED <<now, users, sessions, mail, keyUntil, access, outbox, due, faults,
                            granted, told, unseen>>
             /\ begun' = begun + 1
  BY <1>3 DEF Login, Begin
<1>4. ASSUME NEW r \in Reqs, NEW s \in Sids, NEW g \in 0 .. MaxRotations, Refresh(r, s, g)
      PROVE  /\ UNCHANGED <<now, users, mail, keyUntil, access, outbox, due, faults, told, unseen>>
             /\ begun' = begun + 1
  BY <1>4 DEF Refresh, Begin
<1>5. ASSUME NEW r \in Reqs, NEW s \in Sids, NEW g \in 0 .. MaxRotations,
             RefreshReplayed(r, s, g) \/ Logout(r, s, g)
      PROVE  /\ UNCHANGED <<now, users, mail, keyUntil, access, outbox, due, faults, granted,
                            told, unseen>>
             /\ begun' = begun + 1
  BY <1>5 DEF RefreshReplayed, Logout, Begin
<1>6. ASSUME NEW r \in Reqs, NEW a \in access, LogoutAll(r, a)
      PROVE  /\ UNCHANGED <<now, users, sessions, mail, keyUntil, access, outbox, due,
                            granted, told, unseen>>
             /\ begun' = begun + 1 /\ faults' \in {faults, faults + 1}
  BY <1>6 DEF LogoutAll, Passes, Begin
<1>7. ASSUME NEW r \in Reqs, NEW a \in access, Deactivate(r, a)
      PROVE  /\ UNCHANGED <<now, sessions, mail, keyUntil, access, due, granted, told, unseen>>
             /\ begun' = begun + 1 /\ faults' \in {faults, faults + 1}
  BY <1>7 DEF Deactivate, Passes, Begin
<1>8. ASSUME NEW a \in access, UpdateProfile(a)
      PROVE  /\ UNCHANGED <<now, users, sessions, mail, keyUntil, access, due, req, begun,
                            granted, told, unseen>>
             /\ faults' \in {faults, faults + 1}
  BY <1>8 DEF UpdateProfile, Passes
<1>9. ASSUME NEW r \in Reqs, NEW m \in MailTokens, Consume(r, m)
      PROVE  /\ UNCHANGED <<now, users, sessions, keyUntil, access, outbox, due, faults,
                            granted, told, unseen>>
             /\ begun' = begun + 1
  BY <1>9 DEF Consume, Begin
<1>10. ASSUME NEW r \in Reqs, CommitSession(r) \/ RevokeAll(r)
       PROVE  UNCHANGED <<now, users, mail, keyUntil, access, outbox, due, begun, faults,
                          granted, told, unseen>>
  BY <1>10 DEF CommitSession, RevokeAll
<1>11. ASSUME NEW r \in Reqs, Sign(r)
       PROVE  UNCHANGED <<now, users, sessions, mail, keyUntil, outbox, due, begun, faults,
                          granted, told, unseen>>
  BY <1>11 DEF Sign
<1>12. ASSUME NEW r \in Reqs, RevokeMany(r)
       PROVE  UNCHANGED <<now, users, sessions, mail, access, outbox, due, begun, faults,
                          granted, unseen>>
  BY <1>12 DEF RevokeMany
<1>13. ASSUME NEW r \in Reqs, VerifyEmail(r)
       PROVE  UNCHANGED <<now, sessions, mail, keyUntil, access, outbox, due, begun, faults,
                          granted, told, unseen>>
  BY <1>13 DEF VerifyEmail
<1>14. ASSUME NEW r \in Reqs, ResetPassword(r)
       PROVE  UNCHANGED <<now, users, sessions, mail, keyUntil, access, outbox, due, begun,
                          faults, granted, told>>
  BY <1>14 DEF ResetPassword
<1>21. ASSUME NEW r \in Reqs, OpenSession(r)
       PROVE  UNCHANGED <<now, users, sessions, mail, keyUntil, access, outbox, due, begun,
                          faults, granted, told>>
  BY <1>21 DEF OpenSession
<1>22. ASSUME NEW s \in Sids, Evict(s)
       PROVE  /\ UNCHANGED <<now, users, sessions, mail, access, outbox, due, req, begun,
                             granted, unseen>>
              /\ faults' = faults + 1
  BY <1>22 DEF Evict
<1>15. ASSUME NEW r \in Reqs, ResetCommits(r)
       PROVE  UNCHANGED <<now, mail, keyUntil, access, outbox, due, begun, faults, granted,
                          told, unseen>>
  BY <1>15 DEF ResetCommits
<1>16. ASSUME NEW r \in Reqs, RevokeManyFails(r) \/ RequestDies(r)
       PROVE  /\ UNCHANGED <<now, users, sessions, mail, keyUntil, access, outbox, due, begun,
                             granted, told, unseen>>
              /\ faults' = faults + 1
  BY <1>16 DEF RevokeManyFails, RequestDies
<1>17. ASSUME NEW w \in Workers, FindDue(w)
       PROVE  UNCHANGED <<now, users, sessions, mail, keyUntil, access, outbox, req, begun,
                          faults, granted, told, unseen>>
  BY <1>17 DEF FindDue
<1>18. ASSUME NEW w \in Workers, NEW u \in Users, EraseOne(w, u)
       PROVE  UNCHANGED <<now, keyUntil, access, req, begun, faults, granted, told, unseen>>
  BY <1>18 DEF EraseOne
<1>19. ASSUME NEW w \in Workers, NEW u \in Users, EraseFails(w, u)
       PROVE  /\ UNCHANGED <<now, users, sessions, mail, keyUntil, access, outbox, req, begun,
                             granted, told, unseen>>
              /\ faults' = faults + 1
  BY <1>19 DEF EraseFails
<1>20. ASSUME Tick
       PROVE  UNCHANGED <<users, sessions, mail, keyUntil, outbox, due, req, begun, faults,
                          granted, told, unseen>>
  BY <1>20 DEF Tick
<1> QED
  BY <1>1, <1>2, <1>3, <1>4, <1>5, <1>6, <1>7, <1>8, <1>9, <1>10, <1>11, <1>12, <1>13, <1>14,
     <1>15, <1>16, <1>17, <1>18, <1>19, <1>20, <1>21, <1>22 DEF Next, Proceed, vars

\* A row is untouched, issued, rotated while live, or revoked.
RowChange(old, new) ==
    \/ new = old
    \/ old = NoRow /\ \E u \in Users, d \in Nat : new = NewSession(u, d)
    \/ /\ old # NoRow /\ old.revokedAt = Null /\ new \in SessionRows
       /\ new = [old EXCEPT !.gen = @ + 1, !.expires = new.expires]
    \/ old # NoRow /\ new \in SessionRows /\ new = [old EXCEPT !.revokedAt = now]

\* Revoking changes rows in the last way.
LEMMA RevokeChanges ==
    ASSUME TypeOK, NEW ss, \A s \in ss : s \in Sids => Issued(s), sessions' = Revoked(ss)
    PROVE  /\ sessions' \in [Sids -> SessionRows \union {NoRow}]
           /\ \A s \in Sids : RowChange(sessions[s], sessions'[s])
<1>1. \A s \in Sids : s \in ss => sessions'[s] = [sessions[s] EXCEPT !.revokedAt = now]
  BY DEF Revoked
<1>2. ASSUME NEW s \in Sids PROVE RowChange(sessions[s], sessions'[s])
  <2>1. CASE s \in ss
    BY <2>1, <1>1, RevokedRows DEF RowChange, Issued
  <2>2. CASE s \notin ss
    BY <2>2, RevokedRows DEF RowChange
  <2> QED
    BY <2>1, <2>2
<1> QED
  BY <1>2, RevokedRows

\* Issuing sessions changes rows that are not there, in the second way.
LEMMA IssueChanges ==
    ASSUME TypeOK, NEW u \in Users, NEW d \in Nat, NEW ss, \A s \in ss : ~Issued(s),
           sessions' = [s \in Sids |-> IF s \in ss THEN NewSession(u, d) ELSE sessions[s]]
    PROVE  /\ sessions' \in [Sids -> SessionRows \union {NoRow}]
           /\ \A s \in Sids : RowChange(sessions[s], sessions'[s])
BY NewSessionType DEF TypeOK, RowChange, Issued

\* Every step changes a session in one of the four ways.
LEMMA SessionsStep ==
    ASSUME Typed, [Next]_vars
    PROVE  /\ sessions' \in [Sids -> SessionRows \union {NoRow}]
           /\ \A s \in Sids : RowChange(sessions[s], sessions'[s])
<1> DEFINE Fine == /\ sessions' \in [Sids -> SessionRows \union {NoRow}]
                   /\ \A s \in Sids : RowChange(sessions[s], sessions'[s])
<1> USE DEF Typed
<1>1. ASSUME NEW u \in Users, NEW m \in MailTokens, Register(u, m) PROVE Fine
  <2>1. PICK f \in Sids : f = FreshSid /\ ~Issued(f)
    BY <1>1, Fresh DEF Register
  <2>2. sessions' = [s \in Sids |-> IF s \in {f} THEN NewSession(u, now) ELSE sessions[s]]
    BY <1>1, <2>1 DEF Register, TypeOK
  <2>3. now \in Nat /\ \A s \in {f} : ~Issued(s)
    BY <2>1 DEF TypeOK
  <2> QED
    BY <2>2, <2>3, IssueChanges
<1>2. ASSUME NEW r \in Reqs, CommitSession(r) PROVE Fine
  <2>1. req[r].user \in Users /\ req[r].txn \in Nat /\ \A s \in req[r].sids : ~Issued(s)
    BY <1>2, RowTypes DEF CommitSession, Requests, Stages, Apartness
  <2> QED
    BY <1>2, <2>1, IssueChanges DEF CommitSession
<1>3. ASSUME NEW r \in Reqs, NEW s \in Sids, NEW g \in 0 .. MaxRotations, Refresh(r, s, g)
      PROVE  Fine
  <2>1. sessions[s] \in SessionRows /\ Live(s)
    BY <1>3, RowTypes DEF Refresh, Found, Rotates
  <2>2. sessions' = [sessions EXCEPT ![s] = [sessions[s] EXCEPT !.gen = @ + 1,
                                                               !.expires = now + RefreshTtl]]
    BY <1>3, <2>1 DEF Refresh, TypeOK, SessionRows
  <2>3. [sessions[s] EXCEPT !.gen = @ + 1, !.expires = now + RefreshTtl] \in SessionRows
    <3>1. now \in Nat
      BY DEF TypeOK
    <3>2. RefreshTtl \in Nat
      BY SessionsAssumption
    <3>3. now + RefreshTtl \in Nat
      BY <3>1, <3>2
    <3> QED
      BY <2>1, <3>3, RotatedRow
  <2>4. sessions'[s].expires = now + RefreshTtl
    BY <2>1, <2>2 DEF TypeOK, SessionRows
  <2> QED
    BY <2>1, <2>2, <2>3, <2>4 DEF TypeOK, RowChange, Live, Issued
<1>4. ASSUME NEW r \in Reqs, NEW s \in Sids, NEW g \in 0 .. MaxRotations,
             RefreshReplayed(r, s, g) \/ Logout(r, s, g)
      PROVE  Fine
  BY <1>4, RevokeChanges DEF RefreshReplayed, Logout, Found
<1>5. ASSUME NEW r \in Reqs, RevokeAll(r) PROVE Fine
  <2>1. \A s \in LiveOf(req[r].user) : Issued(s)
    BY DEF LiveOf, Live
  <2> QED
    BY <1>5, <2>1, RevokeChanges DEF RevokeAll
<1>6. ASSUME NEW r \in Reqs, ResetCommits(r) PROVE Fine
  <2>1. req[r] # Idle
    BY <1>6, RowTypes DEF ResetCommits, Stages
  <2> QED
    BY <1>6, <2>1, RevokeChanges DEF ResetCommits, Named
<1>7. ASSUME NEW w \in Workers, NEW u \in Users, EraseOne(w, u) PROVE Fine
  <2>1. \A s \in LiveOf(u) : Issued(s)
    BY DEF LiveOf, Live
  <2>2. CASE Due(u)
    BY <1>7, <2>1, <2>2, RevokeChanges DEF EraseOne
  <2>3. CASE ~Due(u)
    BY <1>7, <2>3 DEF EraseOne, TypeOK, RowChange
  <2> QED
    BY <2>2, <2>3
<1>8. CASE UNCHANGED sessions
  BY <1>8 DEF TypeOK, RowChange
<1> QED
  BY <1>1, <1>2, <1>3, <1>4, <1>5, <1>6, <1>7, <1>8, Writers

\* The columns of a row that changes.
LEMMA ColumnsKept ==
    ASSUME NEW old \in SessionRows, NEW new, RowChange(old, new), now \in Nat
    PROVE  /\ new \in SessionRows /\ new.user = old.user /\ new.createdAt = old.createdAt
           /\ new.gen \in Nat /\ new.gen >= old.gen
           /\ new.revokedAt \in {old.revokedAt, now}
<1>1. CASE new = old
  BY <1>1 DEF SessionRows
<1>2. CASE /\ new \in SessionRows
           /\ new = [old EXCEPT !.gen = @ + 1, !.expires = new.expires]
  <2>1. new.user = old.user /\ new.createdAt = old.createdAt /\ new.revokedAt = old.revokedAt
    BY <1>2 DEF SessionRows
  <2>2. new.gen = old.gen + 1 /\ old.gen \in Nat
    BY <1>2 DEF SessionRows
  <2> QED
    BY <1>2, <2>1, <2>2
<1>3. CASE new \in SessionRows /\ new = [old EXCEPT !.revokedAt = now]
  BY <1>3 DEF SessionRows
<1> QED
  BY <1>1, <1>2, <1>3, Apart DEF RowChange

\* What a step does to a session that is there, in terms of its columns.
LEMMA RowStep ==
    ASSUME Typed, Clock, [Next]_vars, NEW s \in Sids
    PROVE  /\ Issued(s) =>
                /\ Issued(s)' /\ sessions'[s].user = sessions[s].user
                /\ sessions'[s].createdAt = sessions[s].createdAt
                /\ sessions'[s].gen \in Nat /\ sessions'[s].gen >= sessions[s].gen
                /\ \/ sessions'[s].revokedAt = sessions[s].revokedAt
                   \/ sessions'[s].revokedAt = now
           /\ Live(s)' => Live(s) \/ ~Issued(s)
<1>1. RowChange(sessions[s], sessions'[s])
  BY SessionsStep
<1>2. CASE Issued(s)
  <2>1. sessions[s] \in SessionRows
    BY <1>2, RowTypes DEF Typed
  <2>2. /\ sessions'[s] \in SessionRows /\ sessions'[s].user = sessions[s].user
        /\ sessions'[s].createdAt = sessions[s].createdAt
        /\ sessions'[s].gen \in Nat /\ sessions'[s].gen >= sessions[s].gen
        /\ sessions'[s].revokedAt \in {sessions[s].revokedAt, now}
    BY <1>1, <2>1, ColumnsKept DEF Typed, TypeOK
  <2> QED
    BY <1>2, <2>1, <2>2, Apart DEF Issued, Live, Clock, Null, Typed, TypeOK
<1>3. CASE ~Issued(s)
  <2>1. sessions'[s] = NoRow \/ \E u \in Users, d \in Nat : sessions'[s] = NewSession(u, d)
    BY <1>1, <1>3 DEF RowChange, Issued
  <2> QED
    BY <1>3, <2>1, NewSessionType DEF Issued, Live, Typed
<1> QED
  BY <1>2, <1>3

\* A session that appears is live and not rotated.
LEMMA RowAppears ==
    ASSUME Typed, [Next]_vars, NEW s \in Sids, ~Issued(s), Issued(s)'
    PROVE  /\ sessions'[s].revokedAt = Null
           /\ sessions'[s].gen = 0
<1>1. RowChange(NoRow, sessions'[s]) /\ sessions'[s] # NoRow
  BY SessionsStep DEF Issued
<1>2. PICK u \in Users, d \in Nat : sessions'[s] = NewSession(u, d)
  BY <1>1 DEF RowChange
<1> QED
  BY <1>2, NewSessionType

\* A session appears when an account registers or when a login commits.
LEMMA Appears ==
    ASSUME Typed, [Next]_vars, NEW s \in Sids, ~Issued(s), Issued(s)'
    PROVE  \/ \E u \in Users, m \in MailTokens :
                Register(u, m) /\ s = FreshSid /\ sessions'[s] = NewSession(u, now)
           \/ \E r \in Reqs :
                /\ CommitSession(r) /\ s \in req[r].sids
                /\ req[r].user \in Users /\ req[r].txn \in Nat
                /\ sessions'[s] = NewSession(req[r].user, req[r].txn)
<1>1. ASSUME NEW u \in Users, NEW m \in MailTokens, Register(u, m)
      PROVE  s = FreshSid /\ sessions'[s] = NewSession(u, now)
  <2>1. sessions' = [sessions EXCEPT ![FreshSid] = NewSession(u, now)]
    BY <1>1 DEF Register
  <2> QED
    BY <2>1 DEF Issued, Typed, TypeOK
<1>2. ASSUME NEW r \in Reqs, CommitSession(r)
      PROVE  /\ s \in req[r].sids /\ req[r].user \in Users /\ req[r].txn \in Nat
             /\ sessions'[s] = NewSession(req[r].user, req[r].txn)
  <2>1. req[r].user \in Users /\ req[r].txn \in Nat
    BY <1>2, RowTypes DEF CommitSession, Requests, Stages, Typed
  <2> QED
    BY <1>2, <2>1 DEF CommitSession, Issued
<1>3. ASSUME NEW ss, sessions' = Revoked(ss), \A q \in ss : q \in Sids => Issued(q)
      PROVE  FALSE
  BY <1>3, RevokedRows DEF Issued, Typed
<1>4. ASSUME NEW r \in Reqs, NEW t \in Sids, NEW g \in 0 .. MaxRotations, Refresh(r, t, g)
      PROVE  FALSE
  BY <1>4 DEF Refresh, Found, Issued, Typed, TypeOK
<1>5. CASE UNCHANGED sessions
  BY <1>5 DEF Issued
<1>6. ASSUME NEW r \in Reqs, RevokeAll(r) PROVE FALSE
  <2>1. \A q \in LiveOf(req[r].user) : Issued(q)
    BY DEF LiveOf, Live
  <2> QED
    BY <1>3, <1>6, <2>1 DEF RevokeAll
<1>7. ASSUME NEW r \in Reqs, ResetCommits(r) PROVE FALSE
  BY <1>3, <1>7, RowTypes DEF ResetCommits, Stages, Typed, Named
<1>8. ASSUME NEW w \in Workers, NEW u \in Users, EraseOne(w, u) PROVE FALSE
  <2>1. \A q \in LiveOf(u) : Issued(q)
    BY DEF LiveOf, Live
  <2> QED
    BY <1>3, <1>5, <1>8, <2>1 DEF EraseOne, Issued
<1>9. ASSUME NEW r \in Reqs, NEW t \in Sids, NEW g \in 0 .. MaxRotations,
             RefreshReplayed(r, t, g) \/ Logout(r, t, g)
      PROVE  FALSE
  BY <1>3, <1>9 DEF RefreshReplayed, Logout, Found
<1> QED
  BY <1>1, <1>2, <1>4, <1>5, <1>6, <1>7, <1>8, <1>9, Writers

\* A session that a reset did not see stays so while it is there or about to be.
LEMMA UnseenStays ==
    ASSUME Typed, [Next]_vars, NEW s \in unseen, Issued(s) \/ s \in Pending
    PROVE  s \in unseen'
<1>1. ASSUME NEW r \in Reqs, OpenSession(r) PROVE s \in unseen'
  BY <1>1, Fresh DEF OpenSession
<1>2. ASSUME NEW r \in Reqs, ResetPassword(r) PROVE s \in unseen'
  BY <1>2 DEF ResetPassword
<1> QED
  BY <1>1, <1>2, Writers

\* What a step does to an account: its status goes from none to active, to
\* deactivated for Grace and, when it is due, to erased.
LEMMA UserStep ==
    ASSUME Typed, Clock, InTime, [Next]_vars
    PROVE  /\ users' \in [Users -> UserRows]
           /\ \A u \in Users :
                /\ users'[u].passwordAt <= now
                /\ \/ /\ users'[u].status = users[u].status
                      /\ users'[u].eraseAfter = users[u].eraseAfter
                   \/ users[u].status = "none" /\ users'[u].status = "active"
                   \/ /\ users[u].status = "active" /\ users'[u].status = "deactivated"
                      /\ users'[u].eraseAfter = now + Grace
                   \/ Due(u) /\ users'[u].status = "erased"
<1> DEFINE Change(u) == /\ users'[u].passwordAt <= now
                        /\ \/ /\ users'[u].status = users[u].status
                              /\ users'[u].eraseAfter = users[u].eraseAfter
                           \/ users[u].status = "none" /\ users'[u].status = "active"
                           \/ /\ users[u].status = "active" /\ users'[u].status = "deactivated"
                              /\ users'[u].eraseAfter = now + Grace
                           \/ Due(u) /\ users'[u].status = "erased"
           Fine == users' \in [Users -> UserRows] /\ \A u \in Users : Change(u)
<1>1. ASSUME NEW v \in Users, NEW row \in UserRows, users' = [users EXCEPT ![v] = row], Change(v)
      PROVE  Fine
  BY <1>1 DEF Typed, TypeOK, Clock
<1>2. \A v \in Users : users[v] \in UserRows
  BY DEF Typed, TypeOK
<1>3. ASSUME NEW v \in Users, NEW m \in MailTokens, Register(v, m) PROVE Fine
  <2>1. users' = [users EXCEPT ![v] = [users[v] EXCEPT !.status = "active", !.passwordAt = now]]
    BY <1>2, <1>3 DEF Register, UserRows, Typed, TypeOK
  <2>2. [users[v] EXCEPT !.status = "active", !.passwordAt = now] \in UserRows
    BY <1>2 DEF UserRows, Typed, TypeOK
  <2>3. Change(v)
    BY <1>2, <1>3, <2>1 DEF UserRows, Typed, TypeOK, Register
  <2> QED
    BY <1>1, <2>1, <2>2, <2>3
<1>4. ASSUME NEW r \in Reqs, VerifyEmail(r) PROVE Fine
  <2>1. req[r].user \in Users
    BY <1>4, RowTypes DEF VerifyEmail, Requests, Stages, Typed
  <2> DEFINE v == req[r].user
  <2>2. users' = [users EXCEPT ![v] = [users[v] EXCEPT !.verified = TRUE]]
    BY <1>4 DEF VerifyEmail
  <2>3. [users[v] EXCEPT !.verified = TRUE] \in UserRows
    BY <1>2, <2>1 DEF UserRows
  <2>4. Change(v)
    BY <1>2, <2>1, <2>2 DEF UserRows, Typed, TypeOK, Clock
  <2> QED
    BY <1>1, <2>1, <2>2, <2>3, <2>4
<1>5. ASSUME NEW r \in Reqs, ResetCommits(r) PROVE Fine
  <2>1. /\ req[r].user \in Users /\ req[r].txn \in Nat
        /\ req[r].txn <= now
    BY <1>5, RowTypes DEF ResetCommits, Requests, Stages, Typed, InTime
  <2> DEFINE v == req[r].user
  <2>2. users' = [users EXCEPT ![v] = [users[v] EXCEPT !.passwordAt = req[r].txn]]
    BY <1>5 DEF ResetCommits
  <2>3. [users[v] EXCEPT !.passwordAt = req[r].txn] \in UserRows
    BY <1>2, <2>1 DEF UserRows
  <2>4. Change(v)
    BY <1>2, <2>1, <2>2 DEF UserRows, Typed, TypeOK
  <2> QED
    BY <1>1, <2>1, <2>2, <2>3, <2>4
<1>6. ASSUME NEW r \in Reqs, NEW a \in access, Deactivate(r, a) PROVE Fine
  <2> DEFINE v == sessions[a.sid].user
  <2>1. v \in Users
    BY RowTypes DEF Typed, TypeOK, Named, SessionRows
  <2>2. now + Grace \in Nat
    <3>1. now \in Nat
      BY DEF Typed, TypeOK
    <3>2. Grace \in Nat
      BY SessionsAssumption
    <3> QED
      BY <3>1, <3>2
  <2>3. users' = [users EXCEPT ![v] = [users[v] EXCEPT !.status = "deactivated",
                                                       !.eraseAfter = now + Grace]]
    BY <1>2, <1>6, <2>1 DEF Deactivate, UserRows, Typed, TypeOK
  <2>4. [users[v] EXCEPT !.status = "deactivated", !.eraseAfter = now + Grace] \in UserRows
    BY <1>2, <2>1, <2>2 DEF UserRows
  <2>5. Change(v)
    <3>1. users'[v] = [users[v] EXCEPT !.status = "deactivated", !.eraseAfter = now + Grace]
      BY <2>1, <2>3 DEF Typed, TypeOK
    <3>2. users[v].status = "active"
      BY <1>6 DEF Deactivate
    <3> HIDE DEF v
    <3> QED
      BY <1>2, <2>1, <3>1, <3>2 DEF UserRows, Clock
  <2> QED
    BY <1>1, <2>1, <2>3, <2>4, <2>5
<1>7. ASSUME NEW w \in Workers, NEW v \in Users, EraseOne(w, v), Due(v) PROVE Fine
  <2>1. users' = [users EXCEPT ![v] = [users[v] EXCEPT !.status = "erased",
                                         !.verified = FALSE, !.passwordAt = Null]]
    BY <1>2, <1>7 DEF EraseOne, UserRows, Typed, TypeOK
  <2>2. [users[v] EXCEPT !.status = "erased", !.verified = FALSE, !.passwordAt = Null] \in UserRows
    BY <1>2 DEF UserRows, Null
  <2>3. Change(v)
    BY <1>2, <1>7, <2>1 DEF UserRows, Typed, TypeOK, Null
  <2> QED
    BY <1>1, <2>1, <2>2, <2>3
<1>8. CASE UNCHANGED users
  BY <1>8 DEF Typed, TypeOK, Clock
<1>9. ASSUME NEW w \in Workers, NEW v \in Users, EraseOne(w, v), ~Due(v) PROVE Fine
  BY <1>8, <1>9 DEF EraseOne
<1> QED
  BY <1>3, <1>4, <1>5, <1>6, <1>7, <1>8, <1>9, Writers

\* A request begins: what it has seen is of now.
Starts(r) ==
    /\ req[r] = Idle /\ req'[r] \in Requests /\ req'[r].at # "open"
    /\ req'[r].since = now /\ req'[r].txn = Null
    /\ \A s \in req'[r].sids : Issued(s)'
    /\ req'[r].at = "issue" => users[req'[r].user].status = "active" /\ UNCHANGED users
    /\ req'[r].at = "sign" => \A s \in req'[r].sids : sessions'[s].revokedAt = Null
    /\ now' = now

\* A request goes on: it has no transaction open, or a reset's, its own or the
\* one it had, or it opens one to insert a session of its own.
GoesOnStep(r) ==
    /\ req[r] # Idle /\ req'[r] \in Requests
    /\ req'[r].since = req[r].since /\ req'[r].user = req[r].user
    /\ req'[r].at # "issue"
    /\ req'[r].at = "sign" => \A s \in req'[r].sids : sessions'[s].revokedAt = Null
    /\ \/ /\ req'[r].txn = Null /\ req'[r].at # "open"
          /\ \A s \in req'[r].sids : Issued(s)'
       \/ /\ req'[r].at \in {"keys", "commit"} /\ UNCHANGED sessions
          /\ \A s \in req'[r].sids : Issued(s)'
          /\ \/ req'[r].txn = now /\ ResetPassword(r) /\ req'[r].sids = LiveOf(req[r].user)
             \/ /\ req'[r].txn = req[r].txn /\ req'[r].sids = req[r].sids
                /\ req[r].at \in {"keys", "commit"}
       \/ /\ req[r].at = "issue" /\ req'[r].at = "open" /\ UNCHANGED <<sessions, users>>
          /\ req'[r].txn = now /\ req'[r].sids = {FreshSid} /\ OpenSession(r)
    /\ now' = now

ReqChange == /\ req' \in [Reqs -> Requests \union {Idle}]
             /\ \A r \in Reqs : \/ req'[r] = req[r] \/ req'[r] = Idle
                                \/ Starts(r) \/ GoesOnStep(r)

\* A change of one request is such a change of all.
LEMMA OneRequest ==
    ASSUME TypeOK, NEW r \in Reqs, req' \in [Reqs -> Requests \union {Idle}],
           \A q \in Reqs : q # r => req'[q] = req[q],
           Starts(r) \/ GoesOnStep(r) \/ req'[r] = Idle
    PROVE  ReqChange
BY DEF ReqChange

\* A request that begins is such a change.
LEMMA BeginChanges ==
    ASSUME TypeOK, NEW r \in Reqs, NEW next \in Stages, NEW u \in Users,
           NEW ss \in SUBSET Sids, Begin(r, next, u, ss), now' = now,
           \A s \in ss : Issued(s)', next # "open",
           next = "issue" => users[u].status = "active" /\ UNCHANGED users,
           next = "sign" => \A s \in ss : sessions'[s].revokedAt = Null
    PROVE  ReqChange
<1>1. Starts(r)
  BY Begun DEF Starts
<1> QED
  BY <1>1, Begun, OneRequest

\* Every step changes requests in one of these ways.
LEMMA ReqStep ==
    ASSUME Typed, Clock, InTime, [Next]_vars
    PROVE  ReqChange
<1> USE DEF Typed
<1>0. \A s \in Sids : Issued(s) => Issued(s)' /\ sessions[s].user \in Users
  BY RowStep, RowTypes DEF SessionRows
<1>1. ASSUME NEW r \in Reqs, NEW u \in Users, Login(r, u) PROVE ReqChange
  <2>1. Begin(r, "issue", u, {}) /\ users[u].status = "active" /\ UNCHANGED <<now, users>>
    BY <1>1 DEF Login
  <2>2. "issue" \in Stages /\ "issue" # "sign" /\ "issue" # "open" /\ {} \in SUBSET Sids
    BY DEF Stages
  <2> QED
    BY <2>1, <2>2, BeginChanges
<1>2. ASSUME NEW r \in Reqs, NEW s \in Sids, NEW g \in 0 .. MaxRotations, Refresh(r, s, g)
      PROVE  ReqChange
  <2>1. /\ Begin(r, "sign", sessions[s].user, {s}) /\ sessions[s].user \in Users
        /\ now' = now /\ Issued(s)'
    BY <1>0, <1>2 DEF Refresh, Found
  <2>2. sessions'[s].revokedAt = Null
    <3>1. sessions[s] \in SessionRows /\ sessions[s].revokedAt = Null
      BY <1>2, RowTypes DEF Refresh, Rotates, Live
    <3> QED
      BY <1>2, <3>1 DEF Refresh, TypeOK, SessionRows
  <2>3. "sign" \in Stages /\ "issue" # "sign" /\ "sign" # "open" /\ {s} \in SUBSET Sids
    BY DEF Stages
  <2> QED
    BY <2>1, <2>2, <2>3, BeginChanges
<1>3. ASSUME NEW r \in Reqs, NEW s \in Sids, NEW g \in 0 .. MaxRotations,
             RefreshReplayed(r, s, g) \/ Logout(r, s, g)
      PROVE  ReqChange
  <2>1. /\ Begin(r, "keys", sessions[s].user, {s}) /\ sessions[s].user \in Users
        /\ now' = now /\ Issued(s)'
    BY <1>0, <1>3 DEF RefreshReplayed, Logout, Found
  <2>2. "keys" \in Stages /\ "keys" # "sign" /\ "keys" # "issue" /\ "keys" # "open"
        /\ {s} \in SUBSET Sids
    BY DEF Stages
  <2> QED
    BY <2>1, <2>2, BeginChanges
<1>4. ASSUME NEW r \in Reqs, NEW a \in access, LogoutAll(r, a) \/ Deactivate(r, a)
      PROVE  ReqChange
  <2>1. /\ Begin(r, "revoke all", sessions[a.sid].user, {}) /\ sessions[a.sid].user \in Users
        /\ now' = now
    BY <1>0, <1>4 DEF LogoutAll, Deactivate, Named, TypeOK
  <2>2. "revoke all" \in Stages /\ "revoke all" # "sign" /\ "revoke all" # "issue"
        /\ "revoke all" # "open" /\ {} \in SUBSET Sids
    BY DEF Stages
  <2> QED
    BY <2>1, <2>2, BeginChanges
<1>5. ASSUME NEW r \in Reqs, NEW m \in MailTokens, Consume(r, m) PROVE ReqChange
  <2>1. mail[m].user \in Users /\ now' = now
    BY <1>5 DEF Consume, TypeOK, MailRows
  <2>2. Begin(r, "verify", mail[m].user, {}) \/ Begin(r, "reset", mail[m].user, {})
    BY <1>5 DEF Consume
  <2>3. /\ "verify" \in Stages /\ "verify" # "sign" /\ "verify" # "issue"
        /\ "reset" \in Stages /\ "reset" # "sign" /\ "reset" # "issue"
        /\ "verify" # "open" /\ "reset" # "open" /\ {} \in SUBSET Sids
    BY DEF Stages
  <2> QED
    BY <2>1, <2>2, <2>3, BeginChanges
<1>6. ASSUME NEW r \in Reqs, OpenSession(r) PROVE ReqChange
  <2>1. /\ req[r] \in Requests /\ req[r] # Idle /\ FreshSid \in Sids /\ now \in Nat
        /\ req[r].at = "issue" /\ CanIssue /\ UNCHANGED <<now, sessions, users>>
    BY <1>6, RowTypes, Fresh DEF OpenSession, Stages, TypeOK
  <2>0. PICK f \in Sids : f = FreshSid
    BY <2>1
  <2>2. req' = [req EXCEPT ![r] = [req[r] EXCEPT !.at = "open", !.sids = {f}, !.txn = now]]
    BY <1>6, <2>0, <2>1 DEF OpenSession, TypeOK, Requests
  <2>3. /\ req'[r] \in Requests /\ req'[r].at = "open" /\ req'[r].sids = {f}
        /\ req'[r].since = req[r].since /\ req'[r].user = req[r].user
        /\ req'[r].txn = now
    BY <2>1, <2>2 DEF TypeOK, Requests, Stages
  <2>5. GoesOnStep(r)
    BY <1>6, <2>0, <2>1, <2>3 DEF GoesOnStep
  <2> QED
    BY <2>2, <2>3, <2>5, OneRequest DEF TypeOK
<1>11. ASSUME NEW r \in Reqs, CommitSession(r) PROVE ReqChange
  <2>1. /\ req[r] \in Requests /\ req[r] # Idle /\ now' = now
    BY <1>11, RowTypes DEF CommitSession, Stages
  <2>2. req' = [req EXCEPT ![r] = [req[r] EXCEPT !.at = "sign", !.txn = Null]]
    BY <1>11, <2>1 DEF CommitSession, TypeOK, Requests
  <2>3. /\ req'[r] \in Requests /\ req'[r].at = "sign" /\ req'[r].sids = req[r].sids
        /\ req'[r].since = req[r].since /\ req'[r].user = req[r].user
        /\ req'[r].txn = Null
    BY <2>1, <2>2 DEF TypeOK, Requests, Stages, Null
  <2>4. ASSUME NEW s \in req[r].sids PROVE sessions'[s].revokedAt = Null /\ Issued(s)'
    <3>1. req[r].user \in Users /\ req[r].txn \in Nat /\ s \in Sids
      BY <2>1 DEF Requests
    <3>2. sessions'[s] = NewSession(req[r].user, req[r].txn)
      BY <1>11, <3>1 DEF CommitSession
    <3> QED
      BY <3>1, <3>2, NewSessionType, Apart DEF Issued
  <2>5. GoesOnStep(r)
    BY <2>1, <2>3, <2>4 DEF GoesOnStep
  <2> QED
    BY <2>2, <2>3, <2>5, OneRequest DEF TypeOK
<1>7. ASSUME NEW r \in Reqs, RevokeAll(r) \/ ResetPassword(r) PROVE ReqChange
  <2> DEFINE ss == LiveOf(req[r].user)
  <2>1. /\ req[r] \in Requests /\ req[r] # Idle /\ now' = now
        /\ req[r].at = "revoke all" => req[r].txn = Null
    BY <1>7, RowTypes DEF RevokeAll, ResetPassword, Stages, InTime
  <2>2. ss \subseteq Sids /\ \A s \in ss : Issued(s)'
    BY <1>0 DEF LiveOf, Live
  <2>3. \/ /\ RevokeAll(r) /\ req[r].at = "revoke all"
           /\ req' = [req EXCEPT ![r] = [req[r] EXCEPT !.at = "keys", !.sids = ss]]
        \/ /\ ResetPassword(r) /\ UNCHANGED sessions
           /\ req' = [req EXCEPT ![r] = [req[r] EXCEPT !.at = "keys", !.sids = ss,
                                                       !.txn = now]]
    BY <1>7, <2>1 DEF RevokeAll, ResetPassword, TypeOK, Requests
  <2> HIDE DEF ss
  <2>4. /\ req'[r] \in Requests /\ req'[r].at = "keys" /\ req'[r].sids = ss
        /\ req'[r].since = req[r].since /\ req'[r].user = req[r].user
        /\ \A q \in Reqs : q # r => req'[q] = req[q]
        /\ \/ req'[r].txn = Null
           \/ req'[r].txn = now /\ UNCHANGED sessions /\ ResetPassword(r)
    <3>1. [req[r] EXCEPT !.at = "keys", !.sids = ss] \in Requests
      BY <2>1, <2>2 DEF Requests, Stages
    <3>2. [req[r] EXCEPT !.at = "keys", !.sids = ss, !.txn = now] \in Requests
      BY <2>1, <2>2 DEF Requests, Stages, TypeOK
    <3>3. CASE /\ RevokeAll(r) /\ req[r].at = "revoke all"
               /\ req' = [req EXCEPT ![r] = [req[r] EXCEPT !.at = "keys", !.sids = ss]]
      BY <2>1, <3>1, <3>3 DEF TypeOK, Requests
    <3>4. CASE /\ ResetPassword(r) /\ UNCHANGED sessions
               /\ req' = [req EXCEPT ![r] = [req[r] EXCEPT !.at = "keys", !.sids = ss,
                                                           !.txn = now]]
      BY <2>1, <3>2, <3>4 DEF TypeOK, Requests
    <3> QED
      BY <2>3, <3>3, <3>4
  <2>5. GoesOnStep(r)
    BY <2>1, <2>2, <2>4 DEF GoesOnStep, ss
  <2> QED
    BY <2>3, <2>4, <2>5, OneRequest DEF TypeOK
<1>8. ASSUME NEW r \in Reqs, RevokeMany(r) \/ RevokeManyFails(r) PROVE ReqChange
  <2>1. /\ req[r] \in Requests /\ req[r] # Idle /\ UNCHANGED <<now, sessions>> /\ AfterKeys(r)
    BY <1>8, RowTypes DEF RevokeMany, RevokeManyFails, Stages
  <2>4. req[r].at = "keys"
    BY <1>8 DEF RevokeMany, RevokeManyFails
  <2>2. CASE req[r].txn # Null
    <3>1. Go(r, "commit")
      BY <2>1, <2>2 DEF AfterKeys
    <3>2. \A s \in req[r].sids : Issued(s)'
      BY <2>1, <2>4 DEF Named, Issued
    <3>3. GoesOnStep(r)
      BY <2>1, <2>4, <3>1, <3>2, GoesOn DEF GoesOnStep, Stages
    <3> QED
      BY <2>1, <3>1, <3>3, GoesOn, OneRequest DEF Stages
  <2>3. CASE req[r].txn = Null
    BY <2>1, <2>3, Ended, OneRequest DEF AfterKeys
  <2> QED
    BY <2>2, <2>3
<1>9. ASSUME NEW r \in Reqs, Sign(r) \/ VerifyEmail(r) \/ ResetCommits(r) \/ RequestDies(r)
      PROVE  ReqChange
  BY <1>9, Ended, OneRequest DEF Sign, VerifyEmail, ResetCommits, RequestDies
<1>10. CASE UNCHANGED req
  BY <1>10 DEF ReqChange, TypeOK
<1> QED
  BY <1>1, <1>2, <1>3, <1>4, <1>5, <1>6, <1>7, <1>8, <1>9, <1>10, <1>11
     DEF Next, vars, Proceed, Register, ForgotPassword, UpdateProfile, Evict, FindDue,
         EraseOne, EraseFails, Tick

\* The events of an account grow one by one: an erasure's when it is due, and
\* another's while the account is not erased.
LEMMA OutboxStep ==
    ASSUME Typed, [Next]_vars
    PROVE  /\ outbox' \in [Users -> Seq({"created", "updated", "deactivated", "erased"})]
           /\ \A u \in Users :
                \/ /\ outbox'[u] = outbox[u]
                   /\ users'[u].status = "erased" <=> users[u].status = "erased"
                \/ /\ outbox'[u] = Append(outbox[u], "erased")
                   /\ Due(u) /\ users'[u].status = "erased"
                \/ \E type \in {"created", "updated", "deactivated"} :
                       /\ outbox'[u] = Append(outbox[u], type)
                       /\ users[u].status # "erased" /\ users'[u].status # "erased"
<1> DEFINE Types == {"created", "updated", "deactivated", "erased"}
           Change(u) == \/ /\ outbox'[u] = outbox[u]
                           /\ users'[u].status = "erased" <=> users[u].status = "erased"
                        \/ /\ outbox'[u] = Append(outbox[u], "erased")
                           /\ Due(u) /\ users'[u].status = "erased"
                        \/ \E type \in {"created", "updated", "deactivated"} :
                               /\ outbox'[u] = Append(outbox[u], type)
                               /\ users[u].status # "erased" /\ users'[u].status # "erased"
           Fine == outbox' \in [Users -> Seq(Types)] /\ \A u \in Users : Change(u)
<1>0. /\ outbox \in [Users -> Seq(Types)]
      /\ \A u \in Users : users[u] \in UserRows
      /\ DOMAIN users = Users
  BY DEF Typed, TypeOK
<1>1. ASSUME NEW v \in Users, NEW type \in Types, Emit(v, type), Change(v),
             \A u \in Users \ {v} : users'[u] = users[u]
      PROVE  Fine
  <2>1. Append(outbox[v], type) \in Seq(Types)
    BY <1>0
  <2>2. outbox' = [outbox EXCEPT ![v] = Append(outbox[v], type)]
    BY <1>1 DEF Emit
  <2> QED
    BY <1>0, <1>1, <2>1, <2>2
<1>2. ASSUME NEW v \in Users, NEW m \in MailTokens, Register(v, m) PROVE Fine
  <2>1. /\ users' = [users EXCEPT ![v].status = "active", ![v].passwordAt = now]
        /\ users[v].status = "none" /\ Emit(v, "created")
    BY <1>2 DEF Register
  <2>2. users'[v].status = "active" /\ \A u \in Users \ {v} : users'[u] = users[u]
    BY <1>0, <2>1 DEF UserRows
  <2>3. outbox'[v] = Append(outbox[v], "created")
    BY <1>0, <2>1 DEF Emit
  <2> QED
    BY <1>1, <2>1, <2>2, <2>3
<1>3. ASSUME NEW r \in Reqs, NEW a \in access, Deactivate(r, a) PROVE Fine
  <2>1. PICK v \in Users : v = sessions[a.sid].user
    BY RowTypes DEF Typed, TypeOK, Named, SessionRows
  <2>2. /\ users' = [users EXCEPT ![v].status = "deactivated", ![v].eraseAfter = now + Grace]
        /\ users[v].status = "active" /\ Emit(v, "deactivated")
    BY <1>3, <2>1 DEF Deactivate
  <2>3. users'[v].status = "deactivated" /\ \A u \in Users \ {v} : users'[u] = users[u]
    BY <1>0, <2>2 DEF UserRows
  <2>4. outbox'[v] = Append(outbox[v], "deactivated")
    BY <1>0, <2>2 DEF Emit
  <2> QED
    BY <1>1, <2>2, <2>3, <2>4
<1>4. ASSUME NEW a \in access, UpdateProfile(a) PROVE Fine
  <2>1. PICK v \in Users : v = sessions[a.sid].user
    BY RowTypes DEF Typed, TypeOK, Named, SessionRows
  <2>2. UNCHANGED users /\ users[v].status # "erased" /\ Emit(v, "updated")
    BY <1>4, <2>1 DEF UpdateProfile
  <2>3. outbox'[v] = Append(outbox[v], "updated")
    BY <1>0, <2>2 DEF Emit
  <2> QED
    BY <1>1, <2>2, <2>3
<1>5. ASSUME NEW w \in Workers, NEW v \in Users, EraseOne(w, v) PROVE Fine
  <2>1. CASE Due(v)
    <3>1. /\ users' = [users EXCEPT ![v].status = "erased",
                                    ![v].verified = FALSE, ![v].passwordAt = Null]
          /\ Emit(v, "erased")
      BY <1>5, <2>1 DEF EraseOne
    <3>2. users'[v].status = "erased" /\ \A u \in Users \ {v} : users'[u] = users[u]
      BY <1>0, <3>1 DEF UserRows
    <3>3. outbox'[v] = Append(outbox[v], "erased")
      BY <1>0, <3>1 DEF Emit
    <3> QED
      BY <1>1, <2>1, <3>1, <3>2, <3>3
  <2>2. CASE ~Due(v)
    BY <1>0, <1>5, <2>2 DEF EraseOne
  <2> QED
    BY <2>1, <2>2
<1>6. ASSUME NEW r \in Reqs, VerifyEmail(r) \/ ResetCommits(r) PROVE Fine
  <2>1. UNCHANGED outbox /\ \A u \in Users : users'[u].status = users[u].status
    <3>1. PICK v : \/ users' = [users EXCEPT ![v].verified = TRUE]
                   \/ users' = [users EXCEPT ![v].passwordAt = req[r].txn]
      BY <1>6 DEF VerifyEmail, ResetCommits
    <3>2. ASSUME NEW u \in Users PROVE users'[u].status = users[u].status
      <4>1. \/ users'[u] = users[u]
            \/ users'[u] = [users[u] EXCEPT !.verified = TRUE]
            \/ users'[u] = [users[u] EXCEPT !.passwordAt = req[r].txn]
        BY <1>0, <3>1
      <4> QED
        BY <1>0, <4>1 DEF UserRows
    <3> QED
      BY <1>6, <3>2 DEF VerifyEmail, ResetCommits
  <2> QED
    BY <1>0, <2>1
<1>7. CASE UNCHANGED <<users, outbox>>
  BY <1>0, <1>7
<1> QED
  BY <1>2, <1>3, <1>4, <1>5, <1>6, <1>7, Writers

\* An access token of a step is one there was, or is signed now: for a new
\* account, or for a request that is to be answered.
LEMMA AccessStep ==
    ASSUME Typed, [Next]_vars, NEW a \in access'
    PROVE  \/ a \in access
           \/ /\ a \in [sid : Sids, iat : Nat] /\ a.iat = now
              /\ \/ ~Issued(a.sid) /\ Issued(a.sid)'
                 \/ /\ UNCHANGED <<now, sessions>>
                    /\ \E r \in Reqs : req[r].at = "sign" /\ a.sid \in req[r].sids
<1> DEFINE Fine == \/ a \in access
                   \/ /\ a \in [sid : Sids, iat : Nat] /\ a.iat = now
                      /\ \/ ~Issued(a.sid) /\ Issued(a.sid)'
                         \/ /\ UNCHANGED <<now, sessions>>
                            /\ \E r \in Reqs : req[r].at = "sign" /\ a.sid \in req[r].sids
<1>1. ASSUME NEW u \in Users, NEW m \in MailTokens, Register(u, m) PROVE Fine
  <2>1. PICK f \in Sids : f = FreshSid /\ ~Issued(f)
    BY <1>1, Fresh DEF Register
  <2>2. sessions'[f] = NewSession(u, now)
    BY <1>1, <2>1 DEF Register, Typed, TypeOK
  <2>3. Issued(f)'
    <3>1. now \in Nat
      BY DEF Typed, TypeOK
    <3> QED
      BY <2>2, <3>1, NewSessionType, Apart DEF Issued
  <2>4. a \in access \/ (a = [sid |-> f, iat |-> now])
    BY <1>1, <2>1 DEF Register, Token
  <2> QED
    BY <2>1, <2>3, <2>4 DEF Typed, TypeOK
<1>2. ASSUME NEW r \in Reqs, Sign(r) PROVE Fine
  <2>1. req[r] \in Requests
    BY <1>2, RowTypes DEF Sign, Stages, Typed
  <2>2. a \in access \/ \E s \in req[r].sids : a = [sid |-> s, iat |-> now]
    BY <1>2 DEF Sign, Token
  <2>3. CASE \E s \in req[r].sids : a = [sid |-> s, iat |-> now]
    <3>1. PICK s \in req[r].sids : a = [sid |-> s, iat |-> now]
      BY <2>3
    <3>2. s \in Sids /\ now \in Nat
      BY <2>1 DEF Requests, Typed, TypeOK
    <3>3. a \in [sid : Sids, iat : Nat] /\ a.iat = now /\ a.sid = s
      BY <3>1, <3>2
    <3> QED
      BY <1>2, <3>1, <3>3 DEF Sign
  <2> QED
    BY <2>2, <2>3
<1>3. CASE Tick
  BY <1>3 DEF Tick
<1>4. CASE UNCHANGED access
  BY <1>4
<1> QED
  BY <1>1, <1>2, <1>3, <1>4, Writers

\* Two logins do not open the same session, and a registration takes neither.
LEMMA ApartnessStep ==
    ASSUME Typed, [Next]_vars, ReqChange
    PROVE  Apartness'
<1> DEFINE Same(r) == req[r].at = "open" /\ req'[r] = req[r]
           Opens(r) == /\ OpenSession(r) /\ UNCHANGED sessions
                       /\ req'[r].sids = {FreshSid} /\ FreshSid \in Sids
                       /\ ~Issued(FreshSid) /\ FreshSid \notin Pending
<1>1. ASSUME NEW r \in Reqs, req'[r].at = "open" PROVE Same(r) \/ Opens(r)
  <2>1. CASE req'[r] = req[r]
    BY <1>1, <2>1
  <2>2. CASE req'[r] = Idle
    BY <1>1, <2>2, Apart
  <2>3. CASE Starts(r)
    BY <1>1, <2>3 DEF Starts
  <2>4. CASE GoesOnStep(r)
    <3>1. OpenSession(r) /\ UNCHANGED sessions /\ req'[r].sids = {FreshSid}
      BY <1>1, <2>4 DEF GoesOnStep
    <3>2. CanIssue
      BY <3>1 DEF OpenSession
    <3> QED
      BY <3>1, <3>2, Fresh
  <2> QED
    BY <2>1, <2>2, <2>3, <2>4 DEF ReqChange
<1>2. \A r \in Reqs : Same(r) => req[r].sids \subseteq Pending
  BY DEF Pending
<1>3. ASSUME NEW r \in Reqs, req'[r].at = "open", NEW s \in req'[r].sids PROVE ~Issued(s)'
  <2>1. CASE Opens(r)
    BY <1>3, <2>1 DEF Issued
  <2>2. CASE Same(r)
    <3>1. s \in Sids /\ ~Issued(s) /\ s \in Pending
      BY <1>2, <1>3, <2>2, RowTypes DEF Typed, Apartness, Stages, Requests
    <3>2. ASSUME NEW q \in Reqs, CommitSession(q), s \in req[q].sids PROVE FALSE
      <4>1. q # r
        BY <2>2, <3>2, RowTypes DEF CommitSession, Typed, TypeOK, Stages, Requests
      <4> QED
        BY <1>3, <2>2, <3>2, <4>1 DEF CommitSession, Typed, Apartness
    <3>3. ASSUME NEW u \in Users, NEW m \in MailTokens, Register(u, m), s = FreshSid
          PROVE  FALSE
      BY <3>1, <3>3, Fresh DEF Register
    <3> QED
      BY <3>1, <3>2, <3>3, Appears
  <2> QED
    BY <1>1, <1>3, <2>1, <2>2
<1>4. ASSUME NEW r \in Reqs, NEW q \in Reqs, q # r, Opens(r) PROVE req'[q] = req[q]
  BY <1>4 DEF OpenSession, Typed, TypeOK
<1>5. ASSUME NEW r \in Reqs, NEW q \in Reqs, q # r,
             req'[r].at = "open", req'[q].at = "open"
      PROVE  req'[q].sids \intersect req'[r].sids = {}
  <2>1. CASE Same(r) /\ Same(q)
    BY <1>5, <2>1 DEF Typed, Apartness
  <2>2. CASE Opens(r)
    <3>1. Same(q)
      BY <1>4, <1>5, <2>2
    <3> QED
      BY <1>2, <2>2, <3>1
  <2>3. CASE Opens(q)
    <3>1. Same(r)
      BY <1>4, <1>5, <2>3
    <3> QED
      BY <1>2, <2>3, <3>1
  <2> QED
    BY <1>1, <1>5, <2>1, <2>2, <2>3
<1> QED
  BY <1>3, <1>5 DEF Apartness


\* Types are kept, and what is named stays.
LEMMA TypeStep == Typed /\ Clock /\ InTime /\ [Next]_vars => Typed'
<1> SUFFICES ASSUME Typed, Clock, InTime, [Next]_vars PROVE Typed'
  OBVIOUS
<1>1. sessions' \in [Sids -> SessionRows \union {NoRow}]
  BY SessionsStep
<1>2. \A s \in Sids : Issued(s) => Issued(s)'
  BY RowStep
<1>3. now' \in Nat
  <2>1. now' = now \/ now' = now + 1
    BY Writers DEF Tick
  <2> QED
    BY <2>1 DEF Typed, TypeOK
<1>4. begun' \in Nat /\ faults' \in Nat
  <2>1. (begun' = begun \/ begun' = begun + 1) /\ (faults' = faults \/ faults' = faults + 1)
    BY Writers
  <2> QED
    BY <2>1 DEF Typed, TypeOK
<1>5. keyUntil' \in [Sids -> Nat] /\ told' \in [Sids -> Nat]
  <2>1. ASSUME NEW r \in Reqs, RevokeMany(r)
        PROVE  keyUntil' \in [Sids -> Nat] /\ told' \in [Sids -> Nat]
    <3>1. now + AccessTtl \in Nat /\ now \in Nat
      BY SessionsAssumption DEF Typed, TypeOK
    <3> QED
      BY <2>1, <3>1 DEF RevokeMany, Until, Typed, TypeOK
  <2>2. ASSUME NEW s \in Sids, Evict(s)
        PROVE  keyUntil' \in [Sids -> Nat] /\ told' \in [Sids -> Nat]
    BY <2>2 DEF Evict, Null, Typed, TypeOK
  <2>3. CASE UNCHANGED <<keyUntil, told>>
    BY <2>3 DEF Typed, TypeOK
  <2> QED
    BY <2>1, <2>2, <2>3, Writers
<1>6. due' \in [Workers -> SUBSET Users]
  <2>1. ASSUME NEW w \in Workers, NEW u \in Users, EraseOne(w, u) \/ EraseFails(w, u)
        PROVE  due' \in [Workers -> SUBSET Users]
    BY <2>1 DEF EraseOne, EraseFails, Typed, TypeOK
  <2>2. \/ \E w \in Workers : FindDue(w)
        \/ \E w \in Workers, u \in Users : EraseOne(w, u) \/ EraseFails(w, u)
        \/ UNCHANGED due
    BY Writers
  <2>3. ASSUME NEW w \in Workers, FindDue(w) PROVE due' \in [Workers -> SUBSET Users]
    BY <2>3 DEF FindDue, Typed, TypeOK
  <2> QED
    BY <2>1, <2>2, <2>3 DEF Typed, TypeOK
<1>7. mail' \in [MailTokens -> MailRows \union {NoRow}]
  <2>1. ASSUME NEW u \in Users, NEW m \in MailTokens, Register(u, m) \/ ForgotPassword(u, m)
        PROVE  mail' \in [MailTokens -> MailRows \union {NoRow}]
    <3>1. PICK p \in Purposes :
            mail' = [mail EXCEPT ![m] = [ user |-> u, purpose |-> p, expires |-> now + MailTtl,
                                          used |-> FALSE ]]
      BY <2>1 DEF Register, ForgotPassword, Purposes
    <3>2. [ user |-> u, purpose |-> p, expires |-> now + MailTtl, used |-> FALSE ] \in MailRows
      BY SessionsAssumption DEF MailRows, Typed, TypeOK
    <3> QED
      BY <3>1, <3>2 DEF Typed, TypeOK
  <2>2. ASSUME NEW r \in Reqs, NEW m \in MailTokens, Consume(r, m)
        PROVE  mail' \in [MailTokens -> MailRows \union {NoRow}]
    <3>1. mail[m] \in MailRows
      BY <2>2 DEF Consume, Typed, TypeOK
    <3>2. [mail[m] EXCEPT !.used = TRUE] \in MailRows
      BY <3>1 DEF MailRows
    <3>3. mail' = [mail EXCEPT ![m] = [mail[m] EXCEPT !.used = TRUE]]
      BY <2>2 DEF Consume
    <3> QED
      BY <3>2, <3>3 DEF Typed, TypeOK
  <2>3. ASSUME NEW w \in Workers, NEW u \in Users, EraseOne(w, u)
        PROVE  mail' \in [MailTokens -> MailRows \union {NoRow}]
    BY <2>3 DEF EraseOne, Typed, TypeOK
  <2>4. CASE UNCHANGED mail
    BY <2>4 DEF Typed, TypeOK
  <2> QED
    BY <2>1, <2>2, <2>3, <2>4, Writers
<1>8. outbox' \in [Users -> Seq({"created", "updated", "deactivated", "erased"})]
  BY OutboxStep
<1>9. granted' \in [Sids \X (0 .. MaxRotations) -> Nat]
  <2>1. ASSUME NEW r \in Reqs, NEW s \in Sids, NEW g \in 0 .. MaxRotations, Refresh(r, s, g)
        PROVE  granted' \in [Sids \X (0 .. MaxRotations) -> Nat]
    BY <2>1 DEF Refresh, Typed, TypeOK
  <2>2. (\E r \in Reqs, s \in Sids, g \in 0 .. MaxRotations : Refresh(r, s, g))
            \/ UNCHANGED granted
    BY Writers
  <2> QED
    BY <2>1, <2>2 DEF Typed, TypeOK
<1>10. access' \subseteq [sid : Sids, iat : Nat] /\ \A a \in access' : Issued(a.sid)'
  <2> SUFFICES ASSUME NEW a \in access' PROVE a \in [sid : Sids, iat : Nat] /\ Issued(a.sid)'
    OBVIOUS
  <2>1. CASE a \in access
    BY <1>2, <2>1 DEF Typed, TypeOK, Named
  <2>2. CASE a \in [sid : Sids, iat : Nat] /\ ~Issued(a.sid) /\ Issued(a.sid)'
    BY <2>2
  <2>3. CASE /\ a \in [sid : Sids, iat : Nat]
             /\ \E r \in Reqs : req[r].at = "sign" /\ a.sid \in req[r].sids
    <3>1. Issued(a.sid)
      BY <2>3, RowTypes DEF Typed, Named, Stages
    <3> QED
      BY <1>2, <2>3, <3>1
  <2> QED
    BY <2>1, <2>2, <2>3, AccessStep
<1>11. ReqChange
  BY ReqStep
<1>12. \A r \in Reqs : req'[r] # Idle /\ req'[r].at # "open" =>
          \A s \in req'[r].sids : Issued(s)'
  <2>2. ASSUME NEW r \in Reqs, req'[r] = req[r], req[r] # Idle, req[r].at # "open",
               NEW s \in req[r].sids
        PROVE  Issued(s)'
    <3>1. s \in Sids /\ Issued(s)
      BY <2>2, RowTypes DEF Typed, Named, Requests
    <3> QED
      BY <3>1, <1>2
  <2>3. ASSUME NEW r \in Reqs, Starts(r) \/ GoesOnStep(r), req'[r].at # "open"
        PROVE  \A s \in req'[r].sids : Issued(s)'
    BY <2>3 DEF Starts, GoesOnStep
  <2> QED
    BY <1>11, <2>2, <2>3 DEF ReqChange
<1>13. unseen' \subseteq Sids
  <2>1. ASSUME NEW r \in Reqs, OpenSession(r) PROVE unseen' \subseteq Sids
    BY <2>1 DEF OpenSession, Typed, TypeOK
  <2>2. ASSUME NEW r \in Reqs, ResetPassword(r) PROVE unseen' \subseteq Sids
    <3>1. \A q \in Reqs : req[q].at = "open" => req[q].sids \subseteq Sids
      BY RowTypes DEF Typed, Stages, Requests
    <3> QED
      BY <2>2, <3>1 DEF ResetPassword, Typed, TypeOK
  <2>3. CASE UNCHANGED unseen
    BY <2>3 DEF Typed, TypeOK
  <2> QED
    BY <2>1, <2>2, <2>3, Writers
<1>14. Apartness'
  BY <1>11, ApartnessStep
<1>15. TypeOK'
  BY <1>1, <1>3, <1>4, <1>5, <1>6, <1>7, <1>8, <1>9, <1>10, <1>11, <1>13, UserStep
     DEF ReqChange, TypeOK
<1>16. Named'
  BY <1>10, <1>12 DEF Named
<1> QED
  BY <1>14, <1>15, <1>16 DEF Typed

-----------------------------------------------------------------------------
(* The parts of the invariant.                                             *)

LEMMA InitInv == Init => IInv
<1> SUFFICES ASSUME Init PROVE IInv
  OBVIOUS
<1>1. /\ \A s \in Sids : ~Issued(s) /\ ~Live(s)
      /\ \A r \in Reqs : req[r] = Idle /\ req[r].at = "idle"
      /\ access = {} /\ now = 1
      /\ \A u \in Users : /\ users[u].status = "none" /\ users[u].passwordAt = 0
                          /\ outbox[u] = <<>>
  BY Apart DEF Init, Issued, Live, Null
<1>2. TypeOK
  BY <1>1 DEF Init, TypeOK, UserRows, Null
<1>3. Typed /\ Clock
  BY <1>1, <1>2 DEF Typed, Named, Apartness, Clock
<1>4. Requested /\ Unborn
  BY <1>1 DEF Requested, InTime, Signing, Issuing, Resetting, IsResetting, Opened, Unborn
<1>5. KeysMatch /\ GrantedPast
  BY DEF Init, KeysMatch, GrantedPast
<1>6. NotYetErased /\ AccessEnds /\ SessionsPostdatePassword /\ ErasedIsOut
  BY <1>1 DEF NotYetErased, AccessEnds, SessionsPostdatePassword, ErasedIsOut
<1> QED
  BY <1>3, <1>4, <1>5, <1>6 DEF IInv

\* Only the clock moves time, and it waits for requests that are too old.
LEMMA TimeStep ==
    ASSUME Typed, [Next]_vars
    PROVE  \/ now' = now
           \/ /\ now' = now + 1 /\ UNCHANGED <<req, users, sessions>>
              /\ \A r \in Reqs : req[r] # Idle => now < req[r].since + RequestTime
BY Writers DEF Tick

LEMMA ClockStep == Typed /\ Clock /\ InTime /\ [Next]_vars => Clock'
<1> SUFFICES ASSUME Typed, Clock, InTime, [Next]_vars PROVE Clock'
  OBVIOUS
<1>1. now \in Nat /\ now' \in Nat /\ now <= now'
  BY TimeStep DEF Typed, TypeOK
<1>2. ASSUME NEW u \in Users PROVE users'[u].passwordAt <= now'
  BY <1>1, UserStep DEF UserRows
<1>3. ASSUME NEW a \in access' PROVE 1 <= a.iat /\ a.iat <= now'
  BY <1>1, AccessStep DEF Clock, Typed, TypeOK
<1> QED
  BY <1>1, <1>2, <1>3 DEF Clock

LEMMA InTimeStep == Typed /\ Clock /\ InTime /\ [Next]_vars => InTime'
<1> SUFFICES ASSUME Typed, Clock, InTime, [Next]_vars,
                    NEW r \in Reqs, req'[r] # Idle
             PROVE  /\ req'[r].since <= now' /\ now' <= req'[r].since + RequestTime
                    /\ req'[r].txn <= now'
                    /\ req'[r].at \notin {"open", "keys", "commit"} => req'[r].txn = Null
  BY DEF InTime
<1>1. RequestTime \in Nat /\ now \in Nat
  BY SessionsAssumption DEF Typed, TypeOK
<1>2. req[r] # Idle => req[r].since \in Nat /\ req[r].txn \in Nat
  BY RowTypes DEF Typed, Requests
<1>3. CASE req'[r] = req[r]
  BY <1>1, <1>2, <1>3, TimeStep DEF InTime
<1>4. CASE Starts(r)
  BY <1>1, <1>4 DEF Starts, Null
<1>5. CASE GoesOnStep(r)
  BY <1>1, <1>2, <1>5 DEF GoesOnStep, InTime, Null
<1> QED
  BY <1>3, <1>4, <1>5, ReqStep DEF ReqChange

LEMMA SigningStep == Typed /\ Clock /\ InTime /\ Signing /\ [Next]_vars => Signing'
<1> SUFFICES ASSUME Typed, Clock, InTime, Signing, [Next]_vars,
                    NEW r \in Reqs, req'[r].at = "sign", NEW s \in req'[r].sids
             PROVE  sessions'[s].revokedAt = Null \/ req'[r].since <= sessions'[s].revokedAt
  BY DEF Signing
<1>1. CASE req'[r] = req[r]
  <2>1. req[r] # Idle
    BY <1>1, Apart
  <2>2. s \in Sids /\ Issued(s)
    BY <1>1, <2>1, RowTypes DEF Typed, Named, Requests
  <2>3. sessions[s].revokedAt = Null \/ req[r].since <= sessions[s].revokedAt
    BY <1>1 DEF Signing
  <2>4. req[r].since <= now
    BY <2>1 DEF InTime
  <2> QED
    BY <1>1, <2>2, <2>3, <2>4, RowStep
<1>2. CASE req'[r] = Idle
  BY <1>2, Apart
<1>3. CASE Starts(r) \/ GoesOnStep(r)
  BY <1>3 DEF Starts, GoesOnStep
<1> QED
  BY <1>1, <1>2, <1>3, ReqStep DEF ReqChange

LEMMA IssuingStep == Typed /\ Clock /\ InTime /\ Issuing /\ [Next]_vars => Issuing'
<1> SUFFICES ASSUME Typed, Clock, InTime, Issuing, [Next]_vars,
                    NEW r \in Reqs, req'[r].at \in {"issue", "open"},
                    NEW u, u = req'[r].user
             PROVE  \/ users'[u].status = "active"
                    \/ /\ users'[u].status = "deactivated"
                       /\ req'[r].since + Grace <= users'[u].eraseAfter
  BY DEF Issuing
<1>1. CASE req'[r] = req[r]
  <2>1. req[r] \in Requests /\ req[r] # Idle
    BY <1>1, RowTypes DEF Typed, Stages
  <2>2. u \in Users /\ req[r].since \in Nat /\ users[u] \in UserRows
    BY <1>1, <2>1 DEF Requests, Typed, TypeOK
  <2>3. \/ users[u].status = "active"
        \/ /\ users[u].status = "deactivated"
           /\ req[r].since + Grace <= users[u].eraseAfter
    BY <1>1 DEF Issuing
  <2>4. req[r].since <= now /\ now <= req[r].since + RequestTime
    BY <2>1 DEF InTime
  <2>5. /\ Grace \in Nat /\ RequestTime \in Nat /\ AccessTtl \in Nat /\ now \in Nat
        /\ RequestTime < Grace
    BY SessionsAssumption DEF Typed, TypeOK
  <2>6. ~Due(u)
    BY <2>2, <2>3, <2>4, <2>5 DEF Due, UserRows
  <2> QED
    BY <1>1, <2>2, <2>3, <2>4, <2>5, <2>6, UserStep
<1>2. CASE req'[r] = Idle
  BY <1>2, Apart
<1>3. CASE Starts(r)
  BY <1>3 DEF Starts
<1>4. CASE GoesOnStep(r)
  BY <1>4 DEF GoesOnStep, Issuing
<1> QED
  BY <1>1, <1>2, <1>3, <1>4, ReqStep DEF ReqChange

LEMMA ResettingStep ==
    Typed /\ Clock /\ InTime /\ Resetting /\ Opened /\ [Next]_vars => Resetting'
<1> SUFFICES ASSUME Typed, Clock, InTime, Resetting, Opened, [Next]_vars,
                    NEW r \in Reqs, IsResetting(r)',
                    NEW s \in Sids, Live(s)', sessions'[s].user = req'[r].user,
                    s \notin req'[r].sids
             PROVE  sessions'[s].createdAt >= req'[r].txn \/ s \in unseen'
  BY DEF Resetting
<1>1. ASSUME Live(s), IsResetting(r), req'[r].user = req[r].user, req'[r].txn = req[r].txn,
             req'[r].sids = req[r].sids
      PROVE  sessions'[s].createdAt >= req'[r].txn \/ s \in unseen'
  <2>1. /\ Issued(s) /\ sessions'[s].user = sessions[s].user
        /\ sessions'[s].createdAt = sessions[s].createdAt
    BY <1>1, RowStep DEF Live
  <2>2. sessions[s].createdAt >= req[r].txn \/ s \in unseen
    BY <1>1, <2>1 DEF Resetting
  <2> QED
    BY <1>1, <2>1, <2>2, UnseenStays
<1>2. CASE req'[r] = req[r]
  <2>1. IsResetting(r) /\ req[r] # Idle /\ req[r].txn \in Nat /\ req[r].txn <= now
    BY <1>2, RowTypes DEF IsResetting, Stages, Typed, Requests, InTime
  <2>2. CASE ~Issued(s)
    <3>1. Issued(s)'
      BY DEF Live
    <3>2. ASSUME NEW u \in Users, sessions'[s] = NewSession(u, now)
          PROVE  sessions'[s].createdAt >= req'[r].txn
      BY <1>2, <2>1, <3>2, NewSessionType DEF Typed, TypeOK
    <3>3. ASSUME NEW q \in Reqs, CommitSession(q), s \in req[q].sids,
                 req[q].user \in Users, req[q].txn \in Nat,
                 sessions'[s] = NewSession(req[q].user, req[q].txn)
          PROVE  sessions'[s].createdAt >= req'[r].txn \/ s \in unseen'
      <4>1. req[q].user = req[r].user /\ sessions'[s].createdAt = req[q].txn
        BY <1>2, <3>3, NewSessionType
      <4>2. s \in unseen \/ req[q].txn >= req[r].txn
        BY <2>1, <3>3, <4>1 DEF Opened, CommitSession
      <4> QED
        BY <1>2, <3>3, <4>1, <4>2 DEF CommitSession
    <3> QED
      BY <2>2, <3>1, <3>2, <3>3, Appears
  <2> QED
    BY <1>1, <1>2, <2>1, <2>2, RowStep
<1>3. CASE Starts(r)
  BY <1>3 DEF Starts, IsResetting
<1>4. CASE GoesOnStep(r)
  <2>1. CASE req'[r].txn = Null \/ req'[r].at = "open"
    BY <2>1 DEF IsResetting
  <2>2. CASE /\ UNCHANGED sessions
             /\ \/ req'[r].sids = LiveOf(req[r].user)
                \/ /\ req'[r].txn = req[r].txn /\ req'[r].sids = req[r].sids
                   /\ req[r].at \in {"keys", "commit"}
    <3>1. Live(s) /\ sessions[s].user = req[r].user /\ req'[r].user = req[r].user
      BY <1>4, <2>2 DEF GoesOnStep, Live, Issued
    <3>2. s \in LiveOf(req[r].user)
      BY <3>1 DEF LiveOf
    <3>3. IsResetting(r) /\ req'[r].txn = req[r].txn /\ req'[r].sids = req[r].sids
      BY <2>2, <3>2 DEF IsResetting
    <3> QED
      BY <1>1, <3>1, <3>3
  <2> QED
    BY <1>4, <2>1, <2>2 DEF GoesOnStep
<1>5. req'[r] # Idle
  BY Apart DEF IsResetting
<1> QED
  BY <1>2, <1>3, <1>4, <1>5, ReqStep DEF ReqChange

\* The password of an account changes when it registers, is reset or erased.
LEMMA PasswordStep ==
    ASSUME Typed, [Next]_vars, NEW u \in Users
    PROVE  \/ users'[u].passwordAt = users[u].passwordAt
           \/ users[u].status = "none"
           \/ users'[u].passwordAt = Null
           \/ \E r \in Reqs : /\ ResetCommits(r) /\ req[r].user = u
                              /\ users'[u].passwordAt = req[r].txn
<1>0. users \in [Users -> UserRows] /\ users[u] \in UserRows
  BY DEF Typed, TypeOK
<1>1. ASSUME NEW v \in Users, NEW m \in MailTokens, Register(v, m)
      PROVE  users'[u] = users[u] \/ users[u].status = "none"
  BY <1>0, <1>1 DEF Register
<1>2. ASSUME NEW r \in Reqs, VerifyEmail(r) PROVE users'[u].passwordAt = users[u].passwordAt
  <2>1. users'[u] = users[u] \/ users'[u] = [users[u] EXCEPT !.verified = TRUE]
    BY <1>0, <1>2 DEF VerifyEmail
  <2> QED
    BY <1>0, <2>1 DEF UserRows
<1>3. ASSUME NEW r \in Reqs, ResetCommits(r)
      PROVE  \/ users'[u] = users[u]
             \/ req[r].user = u /\ users'[u].passwordAt = req[r].txn
  BY <1>0, <1>3 DEF ResetCommits, UserRows
<1>4. ASSUME NEW r \in Reqs, NEW a \in access, Deactivate(r, a)
      PROVE  users'[u].passwordAt = users[u].passwordAt
  <2>1. \/ users'[u] = users[u]
        \/ users'[u] = [[users[u] EXCEPT !.status = "deactivated"] EXCEPT !.eraseAfter = now + Grace]
    BY <1>0, <1>4 DEF Deactivate, UserRows
  <2> QED
    BY <1>0, <2>1 DEF UserRows
<1>5. ASSUME NEW w \in Workers, NEW v \in Users, EraseOne(w, v)
      PROVE  users'[u] = users[u] \/ users'[u].passwordAt = Null
  BY <1>0, <1>5 DEF EraseOne, UserRows
<1>6. CASE UNCHANGED users
  BY <1>6
<1> QED
  BY <1>1, <1>2, <1>3, <1>4, <1>5, <1>6, Writers

LEMMA OpenedStep ==
    ASSUME Typed, Clock, InTime, InTime', Issuing, Opened, [Next]_vars
    PROVE  Opened'
<1> SUFFICES ASSUME NEW r \in Reqs, req'[r].at = "open", NEW s \in req'[r].sids,
                    s \notin unseen', NEW u, u = req'[r].user
             PROVE  /\ req'[r].txn >= users'[u].passwordAt
                    /\ \A q \in Reqs : IsResetting(q)' /\ req'[q].user = u
                                         => req'[r].txn >= req'[q].txn
  BY DEF Opened
<1>0. req'[r] # Idle
  BY Apart
<1>1. CASE req'[r] = req[r]
  <2>1. /\ req[r] \in Requests /\ req[r] # Idle /\ req[r].at = "open"
        /\ s \in Pending /\ u = req[r].user
    BY <1>1, RowTypes DEF Typed, Stages, Pending
  <2>2. /\ u \in Users /\ req[r].txn \in Nat /\ users[u] \in UserRows
        /\ users[u].status # "none"
    BY <2>1 DEF Requests, Typed, TypeOK, Issuing
  <2>3. s \notin unseen
    BY <2>1, UnseenStays
  <2>4. /\ req[r].txn >= users[u].passwordAt
        /\ \A q \in Reqs : IsResetting(q) /\ req[q].user = u => req[r].txn >= req[q].txn
    BY <1>1, <2>1, <2>3 DEF Opened
  <2>5. req[r].txn >= users'[u].passwordAt
    <3>1. ASSUME NEW q \in Reqs, ResetCommits(q), req[q].user = u PROVE req[r].txn >= req[q].txn
      <4>1. CASE req[q].txn = Null
        BY <2>2, <4>1 DEF Null
      <4>2. CASE req[q].txn # Null
        BY <2>4, <3>1, <4>2 DEF ResetCommits, IsResetting
      <4> QED
        BY <4>1, <4>2
    <3> QED
      BY <2>2, <2>4, <3>1, PasswordStep DEF Null
  <2>6. ASSUME NEW q \in Reqs, IsResetting(q)', req'[q].user = u PROVE req[r].txn >= req'[q].txn
    <3>1. CASE req'[q] = req[q]
      BY <2>4, <2>6, <3>1 DEF IsResetting
    <3>2. CASE Starts(q)
      BY <2>6, <3>2 DEF Starts, IsResetting
    <3>3. CASE req'[q] = Idle
      BY <2>6, <3>3, Apart DEF IsResetting
    <3>4. CASE GoesOnStep(q)
      <4>1. req[q].user = u
        BY <2>6, <3>4 DEF GoesOnStep
      <4>2. CASE ResetPassword(q)
        BY <1>1, <2>1, <4>1, <4>2 DEF ResetPassword
      <4>3. CASE req'[q].txn = req[q].txn /\ req[q].at \in {"keys", "commit"}
        BY <2>4, <2>6, <4>1, <4>3 DEF IsResetting
      <4>4. CASE req'[q].txn = Null \/ req'[q].at = "open"
        BY <2>6, <4>4 DEF IsResetting
      <4> QED
        BY <3>4, <4>2, <4>3, <4>4 DEF GoesOnStep
    <3> QED
      BY <3>1, <3>2, <3>3, <3>4, ReqStep DEF ReqChange
  <2> QED
    BY <1>1, <2>5, <2>6
<1>2. CASE GoesOnStep(r)
  <2>1. /\ req'[r].txn = now /\ now' = now /\ UNCHANGED users
        /\ req[r] \in Requests /\ u = req[r].user
    BY <1>2, RowTypes DEF GoesOnStep, Typed
  <2>2. users[u].passwordAt <= now /\ u \in Users /\ users[u].passwordAt \in Nat
    BY <2>1 DEF Clock, Requests, Typed, TypeOK, UserRows
  <2>3. ASSUME NEW q \in Reqs, IsResetting(q)' PROVE req'[q].txn <= now
    <3>1. req'[q] # Idle
      BY <2>3, Apart DEF IsResetting
    <3> QED
      BY <2>1, <3>1 DEF InTime
  <2>4. \A q \in Reqs : IsResetting(q)' => req'[q].txn \in Nat
    BY ReqStep, Apart DEF ReqChange, IsResetting, Requests
  <2> QED
    BY <2>1, <2>2, <2>3, <2>4 DEF Typed, TypeOK
<1>3. CASE Starts(r)
  BY <1>3 DEF Starts
<1> QED
  BY <1>0, <1>1, <1>2, <1>3, ReqStep DEF ReqChange

\* A session appears with an account that is registered and not erased.
LEMMA Owner ==
    ASSUME Typed, Clock, InTime, Issuing, [Next]_vars,
           NEW s \in Sids, ~Issued(s), Issued(s)'
    PROVE  /\ sessions'[s].user \in Users
           /\ users'[sessions'[s].user].status \in {"active", "deactivated"}
<1>0. now \in Nat
  BY DEF Typed, TypeOK
<1>1. ASSUME NEW u \in Users, NEW m \in MailTokens, Register(u, m),
             sessions'[s] = NewSession(u, now)
      PROVE  sessions'[s].user = u /\ users'[u].status = "active"
  <2>1. users[u] \in UserRows /\ users' = [users EXCEPT ![u].status = "active", ![u].passwordAt = now]
    BY <1>1 DEF Register, Typed, TypeOK
  <2> QED
    BY <1>0, <1>1, <2>1, NewSessionType DEF Typed, TypeOK, UserRows
<1>2. ASSUME NEW r \in Reqs, CommitSession(r), req[r].user \in Users, req[r].txn \in Nat,
             sessions'[s] = NewSession(req[r].user, req[r].txn)
      PROVE  /\ sessions'[s].user = req[r].user
             /\ users'[req[r].user].status \in {"active", "deactivated"}
  <2>1. users[req[r].user].status \in {"active", "deactivated"} /\ users' = users
    BY <1>2 DEF CommitSession, Issuing
  <2> QED
    BY <1>2, <2>1, NewSessionType
<1> QED
  BY <1>1, <1>2, Appears

LEMMA UnbornStep ==
    Typed /\ Clock /\ InTime /\ Issuing /\ Unborn /\ [Next]_vars => Unborn'
<1> SUFFICES ASSUME Typed, Clock, InTime, Issuing, Unborn, [Next]_vars,
                    NEW s \in Sids, Issued(s)'
             PROVE  users'[sessions'[s].user].status # "none"
  BY DEF Unborn
<1>1. CASE Issued(s)
  <2>1. sessions[s].user \in Users /\ users[sessions[s].user].status # "none"
    BY <1>1, RowTypes DEF Unborn, Typed, SessionRows
  <2>2. sessions'[s].user = sessions[s].user
    BY <1>1, RowStep
  <2> QED
    BY <2>1, <2>2, UserStep
<1>2. CASE ~Issued(s)
  BY <1>2, Owner
<1> QED
  BY <1>1, <1>2

LEMMA KeysStep == Typed /\ KeysMatch /\ [Next]_vars => KeysMatch'
<1> SUFFICES ASSUME Typed, KeysMatch, [Next]_vars PROVE KeysMatch'
  OBVIOUS
<1>1. ASSUME NEW r \in Reqs, RevokeMany(r) PROVE KeysMatch'
  BY <1>1 DEF RevokeMany, KeysMatch, Until, Typed, TypeOK
<1>2. ASSUME NEW s \in Sids, Evict(s) PROVE KeysMatch'
  BY <1>2 DEF Evict, KeysMatch, Null, Typed, TypeOK
<1>3. CASE UNCHANGED <<keyUntil, told>>
  BY <1>3 DEF KeysMatch
<1> QED
  BY <1>1, <1>2, <1>3, Writers

LEMMA GrantedStep == Typed /\ Clock /\ GrantedPast /\ [Next]_vars => GrantedPast'
<1> SUFFICES ASSUME Typed, Clock, GrantedPast, [Next]_vars,
                    NEW s \in Sids, NEW g \in 0 .. MaxRotations
             PROVE  \/ granted'[<<s, g>>] = 0
                    \/ granted'[<<s, g>>] = 1 /\ Issued(s)' /\ g < sessions'[s].gen
  BY DEF GrantedPast
<1>0. /\ granted \in [Sids \X (0 .. MaxRotations) -> Nat]
      /\ g \in Int
      /\ Issued(s) => sessions[s].gen \in Nat
  <2>1. granted \in [Sids \X (0 .. MaxRotations) -> Nat]
    BY DEF Typed, TypeOK
  <2>2. Issued(s) => sessions[s] \in SessionRows
    BY RowTypes DEF Typed
  <2>3. Issued(s) => sessions[s].gen \in Nat
    BY <2>2 DEF SessionRows
  <2>4. g \in Int
    BY SessionsAssumption
  <2> QED
    BY <2>1, <2>3, <2>4
<1>1. CASE granted'[<<s, g>>] = granted[<<s, g>>]
  <2>1. CASE granted[<<s, g>>] = 0
    BY <1>1, <2>1
  <2>2. CASE granted[<<s, g>>] # 0
    <3>1. granted[<<s, g>>] = 1 /\ Issued(s) /\ g < sessions[s].gen
      BY <2>2 DEF GrantedPast
    <3>2. Issued(s)' /\ sessions'[s].gen \in Nat /\ sessions'[s].gen >= sessions[s].gen
      BY <3>1, RowStep
    <3>3. sessions[s].gen \in Nat
      BY <1>0, <3>1
    <3> QED
      BY <1>0, <1>1, <3>1, <3>2, <3>3
  <2> QED
    BY <2>1, <2>2
<1>2. ASSUME NEW r \in Reqs, NEW t \in Sids, NEW h \in 0 .. MaxRotations, Refresh(r, t, h),
             granted'[<<s, g>>] # granted[<<s, g>>]
      PROVE  granted'[<<s, g>>] = 1 /\ Issued(s)' /\ g < sessions'[s].gen
  <2>1. t = s /\ h = g /\ granted'[<<s, g>>] = granted[<<s, g>>] + 1
    BY <1>0, <1>2 DEF Refresh
  <2>2. Issued(s) /\ g = sessions[s].gen /\ sessions[s] \in SessionRows
    BY <1>2, <2>1, RowTypes DEF Refresh, Rotates, Live, Typed
  <2>3. granted[<<s, g>>] = 0
    BY <1>0, <2>2 DEF GrantedPast
  <2>4. sessions'[s].gen = sessions[s].gen + 1
    BY <1>2, <2>1, <2>2 DEF Refresh, Typed, TypeOK, SessionRows
  <2> QED
    BY <1>0, <2>1, <2>2, <2>3, <2>4, RowStep
<1> QED
  BY <1>1, <1>2, Writers

LEMMA NotYetErasedStep == Typed /\ NotYetErased /\ [Next]_vars => NotYetErased'
<1> SUFFICES ASSUME Typed, NotYetErased, [Next]_vars,
                    NEW u \in Users, users'[u].status # "erased",
                    NEW i \in DOMAIN outbox'[u]
             PROVE  outbox'[u][i] # "erased"
  BY DEF NotYetErased
<1>1. outbox[u] \in Seq({"created", "updated", "deactivated", "erased"})
  BY DEF Typed, TypeOK
<1>2. CASE /\ outbox'[u] = outbox[u]
           /\ users'[u].status = "erased" <=> users[u].status = "erased"
  BY <1>2 DEF NotYetErased
<1>3. CASE \E type \in {"created", "updated", "deactivated"} :
              outbox'[u] = Append(outbox[u], type) /\ users[u].status # "erased"
  <2>1. PICK type \in {"created", "updated", "deactivated"} :
               outbox'[u] = Append(outbox[u], type) /\ users[u].status # "erased"
    BY <1>3
  <2> QED
    BY <1>1, <2>1 DEF NotYetErased
<1> QED
  BY <1>2, <1>3, OutboxStep

-----------------------------------------------------------------------------
(* The properties.                                                         *)

LEMMA AccessEndsStep ==
    Typed /\ Clock /\ InTime /\ Signing /\ AccessEnds /\ [Next]_vars => AccessEnds'
<1> SUFFICES ASSUME Typed, Clock, InTime, Signing, AccessEnds, [Next]_vars,
                    NEW a \in access', sessions'[a.sid].revokedAt # Null
             PROVE  a.iat <= sessions'[a.sid].revokedAt + RequestTime
  BY DEF AccessEnds
<1>0. now \in Nat /\ RequestTime \in Nat
  BY SessionsAssumption DEF Typed, TypeOK
<1>1. CASE a \in access
  <2>1. /\ a.sid \in Sids /\ Issued(a.sid) /\ a.iat \in Nat /\ a.iat <= now
        /\ sessions[a.sid].revokedAt \in Nat
    BY <1>1, RowTypes DEF Typed, TypeOK, Named, Clock, SessionRows
  <2> QED
    BY <1>0, <1>1, <2>1, RowStep DEF AccessEnds
<1>2. CASE a.sid \in Sids /\ ~Issued(a.sid) /\ Issued(a.sid)'
  BY <1>2, RowAppears
<1>3. ASSUME a.iat = now, sessions' = sessions,
             NEW r \in Reqs, req[r].at = "sign", a.sid \in req[r].sids
      PROVE  a.iat <= sessions'[a.sid].revokedAt + RequestTime
  <2>1. req[r] # Idle /\ req[r] \in Requests
    BY <1>3, RowTypes DEF Typed, Stages
  <2>2. a.sid \in Sids /\ Issued(a.sid) /\ req[r].since \in Nat
    BY <1>3, <2>1 DEF Requests, Typed, Named
  <2>3. req[r].since <= sessions[a.sid].revokedAt /\ sessions[a.sid].revokedAt \in Nat
    BY <1>3, <2>2, RowTypes DEF Signing, Typed, SessionRows
  <2>4. now <= req[r].since + RequestTime
    BY <2>1 DEF InTime
  <2> QED
    BY <1>0, <1>3, <2>2, <2>3, <2>4
<1> QED
  BY <1>1, <1>2, <1>3, AccessStep

\* The keys outlive what was signed before them.
LEMMA KeysSuffice == Typed /\ Clock /\ KeysMatch => LogoutShutsOut
<1> SUFFICES ASSUME Typed, Clock, KeysMatch, NEW a \in access, a.iat <= told[a.sid]
             PROVE  ~Admitted(a)
  BY DEF LogoutShutsOut
<1>1. /\ a.sid \in Sids /\ a.iat \in Nat /\ 1 <= a.iat
      /\ told[a.sid] \in Nat /\ keyUntil[a.sid] \in Nat
      /\ now \in Nat /\ AccessTtl \in Nat
  BY SessionsAssumption DEF Typed, TypeOK, Clock
<1>2. keyUntil[a.sid] = told[a.sid] + AccessTtl
  BY <1>1 DEF KeysMatch, Null
<1> QED
  BY <1>1, <1>2 DEF Admitted, Verifies, KeyLives

LEMMA PasswordInvStep ==
    ASSUME Typed, Clock, InTime, Issuing, Resetting, Opened, Unborn, SessionsPostdatePassword,
           [Next]_vars
    PROVE  SessionsPostdatePassword'
<1> SUFFICES ASSUME NEW s \in Sids, Live(s)', s \notin unseen'
             PROVE  sessions'[s].createdAt >= users'[sessions'[s].user].passwordAt
  BY DEF SessionsPostdatePassword
<1>0. now \in Nat /\ \A u \in Users : users'[u].passwordAt \in Nat
  BY UserStep DEF UserRows, Typed, TypeOK
<1>1. CASE ~Issued(s)
  <2>1. Issued(s)'
    BY DEF Live
  <2>2. ASSUME NEW u \in Users, sessions'[s] = NewSession(u, now)
        PROVE  sessions'[s].createdAt >= users'[sessions'[s].user].passwordAt
    BY <1>0, <2>2, UserStep, NewSessionType
  <2>3. ASSUME NEW r \in Reqs, CommitSession(r), s \in req[r].sids,
               req[r].user \in Users, req[r].txn \in Nat,
               sessions'[s] = NewSession(req[r].user, req[r].txn)
        PROVE  sessions'[s].createdAt >= users'[sessions'[s].user].passwordAt
    <3>1. UNCHANGED <<users, unseen>> /\ req[r].at = "open"
      BY <2>3 DEF CommitSession
    <3>2. sessions'[s].user = req[r].user /\ sessions'[s].createdAt = req[r].txn
      BY <2>3, NewSessionType
    <3> QED
      BY <2>3, <3>1, <3>2 DEF Opened
  <2> QED
    BY <1>1, <2>1, <2>2, <2>3, Appears
<1>2. CASE Issued(s) /\ Live(s)
  <2>1. sessions[s] \in SessionRows /\ s \notin unseen
    BY <1>2, RowTypes, UnseenStays DEF Typed
  <2> DEFINE u == sessions[s].user
  <2>2. /\ u \in Users /\ sessions'[s].user = u /\ sessions[s].createdAt \in Nat
        /\ sessions'[s].createdAt = sessions[s].createdAt
        /\ users[u].status # "none" /\ sessions[s].createdAt >= users[u].passwordAt
    BY <1>2, <2>1, RowStep DEF SessionRows, Unborn, SessionsPostdatePassword
  <2>3. ASSUME NEW r \in Reqs, ResetCommits(r), req[r].user = u,
               users'[u].passwordAt = req[r].txn
        PROVE  sessions[s].createdAt >= req[r].txn
    <3>1. req[r] # Idle /\ req[r].txn \in Nat /\ req[r].at = "commit"
      BY <2>3, RowTypes DEF ResetCommits, Stages, Typed, Requests
    <3>2. s \notin req[r].sids
      BY <2>3 DEF ResetCommits, Revoked, Live, Issued, Clock, Null, Typed, TypeOK
    <3>3. req[r].txn # Null => IsResetting(r)
      BY <3>1 DEF IsResetting
    <3> QED
      BY <1>2, <2>1, <2>2, <2>3, <3>1, <3>2, <3>3 DEF Resetting, Null
  <2> QED
    BY <2>2, <2>3, PasswordStep DEF Null
<1> QED
  BY <1>1, <1>2, RowStep

\* Only an erasure erases.
LEMMA ErasedBy ==
    ASSUME Typed, [Next]_vars, NEW u \in Users,
           users'[u].status = "erased", users[u].status # "erased"
    PROVE  \E w \in Workers : EraseOne(w, u) /\ Due(u)
<1>0. users \in [Users -> UserRows] /\ users[u] \in UserRows
  BY DEF Typed, TypeOK
<1>1. ASSUME NEW v \in Users, NEW m \in MailTokens, Register(v, m) PROVE FALSE
  BY <1>0, <1>1 DEF Register, UserRows
<1>2. ASSUME NEW r \in Reqs, VerifyEmail(r) \/ ResetCommits(r) PROVE FALSE
  <2>1. \/ users'[u] = users[u]
        \/ users'[u] = [users[u] EXCEPT !.verified = TRUE]
        \/ users'[u] = [users[u] EXCEPT !.passwordAt = req[r].txn]
    BY <1>0, <1>2 DEF VerifyEmail, ResetCommits
  <2> QED
    BY <1>0, <2>1 DEF UserRows
<1>3. ASSUME NEW r \in Reqs, NEW a \in access, Deactivate(r, a) PROVE FALSE
  BY <1>0, <1>3 DEF Deactivate, UserRows
<1>4. ASSUME NEW w \in Workers, NEW v \in Users, EraseOne(w, v) PROVE v = u /\ Due(u)
  BY <1>0, <1>4 DEF EraseOne
<1>5. CASE UNCHANGED users
  BY <1>5
<1> QED
  BY <1>1, <1>2, <1>3, <1>4, <1>5, Writers

\* A row of an account's e-mail tokens is written before the account is
\* deactivated, and an erasure takes them all.
LEMMA MailStep ==
    ASSUME Typed, [Next]_vars, NEW u \in Users, users'[u].status = "erased",
           NEW m \in MailTokens, mail'[m] # NoRow, mail'[m].user = u
    PROVE  mail[m] # NoRow /\ mail[m].user = u /\ users[u].status = "erased"
<1>0. /\ users \in [Users -> UserRows] /\ mail \in [MailTokens -> MailRows \union {NoRow}]
      /\ \A v \in Users : users[v] \in UserRows
  BY DEF Typed, TypeOK
<1>1. ASSUME NEW v \in Users, NEW n \in MailTokens, Register(v, n) \/ ForgotPassword(v, n)
      PROVE  mail[m] # NoRow /\ mail[m].user = u
  <2>1. PICK p, e : mail' = [mail EXCEPT ![n] = [ user |-> v, purpose |-> p, expires |-> e,
                                                  used |-> FALSE ]]
    BY <1>1 DEF Register, ForgotPassword
  <2>2. users'[v].status = "active"
    BY <1>0, <1>1 DEF Register, ForgotPassword, UserRows
  <2> QED
    BY <1>0, <2>1, <2>2
<1>2. ASSUME NEW r \in Reqs, NEW n \in MailTokens, Consume(r, n)
      PROVE  mail[m] # NoRow /\ mail[m].user = u
  <2>1. mail' = [mail EXCEPT ![n] = [mail[n] EXCEPT !.used = TRUE]] /\ mail[n] \in MailRows
    BY <1>0, <1>2 DEF Consume
  <2>2. [mail[n] EXCEPT !.used = TRUE].user = mail[n].user
    BY <2>1 DEF MailRows
  <2> QED
    BY <1>0, <2>1, <2>2, Apart
<1>3. ASSUME NEW w \in Workers, NEW v \in Users, EraseOne(w, v)
      PROVE  mail[m] # NoRow /\ mail[m].user = u
  <2>1. \/ mail' = mail
        \/ mail' = [n \in MailTokens |-> IF mail[n] # NoRow /\ mail[n].user = v
                                         THEN NoRow ELSE mail[n]]
    BY <1>3 DEF EraseOne
  <2>2. mail'[m] = mail[m] \/ mail'[m] = NoRow
    BY <2>1
  <2> QED
    BY <2>2
<1>4. ASSUME UNCHANGED mail PROVE mail[m] # NoRow /\ mail[m].user = u
  BY <1>4
<1>5. mail[m] # NoRow /\ mail[m].user = u
  BY <1>1, <1>2, <1>3, <1>4, Writers
<1>6. ASSUME users[u].status # "erased" PROVE FALSE
  <2>1. PICK w \in Workers : EraseOne(w, u) /\ Due(u)
    BY <1>6, ErasedBy
  <2> QED
    BY <1>0, <1>5, <2>1 DEF EraseOne
<1> QED
  BY <1>5, <1>6

LEMMA ErasedIsOutStep ==
    ASSUME Typed, Clock, InTime, Issuing, NotYetErased, ErasedIsOut, [Next]_vars
    PROVE  ErasedIsOut'
<1> SUFFICES ASSUME NEW u \in Users, users'[u].status = "erased"
             PROVE  /\ \A s \in Sids : ~(Live(s)' /\ sessions'[s].user = u)
                    /\ \A m \in MailTokens : mail'[m] = NoRow \/ mail'[m].user # u
                    /\ \A i \in DOMAIN outbox'[u] :
                          outbox'[u][i] = "erased" <=> i = Len(outbox'[u])
  BY DEF ErasedIsOut, LiveOf
<1>1. ASSUME NEW s \in Sids, Live(s)', sessions'[s].user = u PROVE FALSE
  <2>1. CASE ~Issued(s)
    <3>1. Issued(s)'
      BY <1>1 DEF Live
    <3> QED
      BY <1>1, <2>1, <3>1, Owner
  <2>2. CASE Issued(s)
    <3>1. Live(s) /\ sessions[s].user = u
      BY <1>1, <2>2, RowStep
    <3>2. s \in LiveOf(u)
      BY <3>1 DEF LiveOf
    <3>3. users[u].status # "erased"
      BY <3>2 DEF ErasedIsOut
    <3>4. PICK w \in Workers : EraseOne(w, u) /\ Due(u)
      BY <3>3, ErasedBy
    <3>5. sessions' = Revoked(LiveOf(u))
      BY <3>4 DEF EraseOne
    <3>6. \A t \in LiveOf(u) : Issued(t)
      BY DEF LiveOf, Live
    <3>7. sessions'[s].revokedAt = now
      BY <3>2, <3>5, <3>6, RevokedRows DEF Typed
    <3> QED
      BY <1>1, <3>7 DEF Live, Clock, Null, Typed, TypeOK
  <2> QED
    BY <2>1, <2>2
<1>2. ASSUME NEW m \in MailTokens, mail'[m] # NoRow, mail'[m].user = u PROVE FALSE
  BY <1>2, MailStep DEF ErasedIsOut
<1>3. ASSUME NEW i \in DOMAIN outbox'[u]
      PROVE  outbox'[u][i] = "erased" <=> i = Len(outbox'[u])
  <2>1. outbox[u] \in Seq({"created", "updated", "deactivated", "erased"})
    BY DEF Typed, TypeOK
  <2>2. CASE outbox'[u] = outbox[u] /\ users[u].status = "erased"
    BY <1>3, <2>2 DEF ErasedIsOut
  <2>3. CASE outbox'[u] = Append(outbox[u], "erased") /\ Due(u)
    <3>1. \A j \in DOMAIN outbox[u] : outbox[u][j] # "erased"
      BY <2>3 DEF Due, NotYetErased
    <3> QED
      BY <1>3, <2>1, <2>3, <3>1
  <2> QED
    BY <2>2, <2>3, OutboxStep
<1> QED
  BY <1>1, <1>2, <1>3

\* Every step keeps the invariant.
LEMMA InvStep == IInv /\ [Next]_vars => IInv'
<1> SUFFICES ASSUME IInv, [Next]_vars PROVE IInv'
  OBVIOUS
<1> USE DEF IInv, Requested
<1>1. Typed' /\ Clock' /\ Requested'
  BY TypeStep, ClockStep, InTimeStep, SigningStep, IssuingStep, ResettingStep, OpenedStep
<1>2. Unborn' /\ KeysMatch' /\ GrantedPast' /\ NotYetErased'
  BY UnbornStep, KeysStep, GrantedStep, NotYetErasedStep
<1>3. AccessEnds' /\ SessionsPostdatePassword' /\ ErasedIsOut'
  BY AccessEndsStep, PasswordInvStep, ErasedIsOutStep
<1> QED
  BY <1>1, <1>2, <1>3

LEMMA InvCorrect == Spec => []IInv
BY InitInv, InvStep, PTL DEF Spec

\* Every column, request and token keeps its type, and what a request or a
\* token names exists.
THEOREM TypeCorrect == Spec => []TypeOK
<1>1. IInv => TypeOK
  BY DEF IInv, Typed
<1> QED
  BY <1>1, InvCorrect, PTL

\* However often and by however many requests a refresh token is presented,
\* it is exchanged once: a row that is rotated has another generation.
THEOREM RotatesOnceCorrect == Spec => []RotatesOnce
<1>1. IInv => RotatesOnce
  <2> SUFFICES ASSUME IInv, NEW t \in DOMAIN granted PROVE granted[t] <= 1
    BY DEF RotatesOnce
  <2>1. PICK s \in Sids, g \in 0 .. MaxRotations : t = <<s, g>>
    BY DEF IInv, Typed, TypeOK
  <2> QED
    BY <2>1 DEF IInv, GrantedPast
<1> QED
  BY <1>1, InvCorrect, PTL

\* No access token is signed later than a request's time after its session
\* was revoked, whatever dies or fails in between: no request is older.
THEOREM AccessEndsCorrect == Spec => []AccessEnds
<1>1. IInv => AccessEnds
  BY DEF IInv
<1> QED
  BY <1>1, InvCorrect, PTL

\* Once the keys of a revocation are written and as long as none is evicted,
\* the gateway admits no token signed until then at a check that Redis answers:
\* the keys live as long as the tokens.
THEOREM LogoutShutsOutCorrect == Spec => []LogoutShutsOut
<1>1. IInv => LogoutShutsOut
  BY KeysSuffice DEF IInv
<1> QED
  BY <1>1, InvCorrect, PTL

\* A live session is never older than the password, however resets, refreshes,
\* logins and erasures interleave, unless it was not committed yet when a reset
\* read the sessions it revokes.
THEOREM SessionsPostdatePasswordCorrect == Spec => []SessionsPostdatePassword
<1>1. IInv => SessionsPostdatePassword
  BY DEF IInv
<1> QED
  BY <1>1, InvCorrect, PTL

\* An erased account has no live session and no e-mail token, and user.erased
\* is its last event and the only one of its kind: a login that raced the
\* deactivation is over before the account is due.
THEOREM ErasedIsOutCorrect == Spec => []ErasedIsOut
<1>1. IInv => ErasedIsOut
  BY DEF IInv
<1> QED
  BY <1>1, InvCorrect, PTL
===============================================================================
