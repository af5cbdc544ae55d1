---------------------------- MODULE Graph_proofs ----------------------------
(***************************************************************************)
(* graph-service: proofs about GraphRelations and about CascadeJobs.       *)
(***************************************************************************)
EXTENDS GraphRelations, CascadeJobs, TLAPS

(***************************************************************************)
(* Proofs about GraphRelations, for any users, any number of sessions and  *)
(* any number of transactions.                                             *)
(*                                                                         *)
(* IInv is about what is announced; Orderly, relative to it, about blocks  *)
(* beside follows and requests: MadeSure says what each statement may rely *)
(* on as long as its transaction is alone on its pair.                     *)
(***************************************************************************)

\* Row locks: an open transaction inserts rows that are not there and deletes
\* rows that are, and two open transactions write different rows.
Writes(s) == tx[s].ins \union tx[s].del
Locks ==
    /\ \A s \in Sessions : Open(s) => /\ tx[s].ins \intersect rows = {}
                                      /\ tx[s].del \subseteq rows
    /\ \A s, t \in Sessions :
          (s # t /\ Open(s) /\ Open(t)) => Writes(s) \intersect Writes(t) = {}

\* What a transaction will announce is what it has written.
Announces(ins, del, emit) ==
    \A a, b \in Users :
        /\ <<"user.blocked", a, b>> \in emit <=> <<"block", a, b>> \in ins
        /\ <<"user.unblocked", a, b>> \in emit <=> <<"block", a, b>> \in del
        /\ <<"user.muted", a, b>> \in emit <=> <<"mute", a, b>> \in ins
        /\ <<"user.unmuted", a, b>> \in emit <=> <<"mute", a, b>> \in del
        /\ <<"follow", a, b>> \in ins => <<"user.followed", a, b>> \in emit
        /\ <<"user.unfollowed", a, b>> \in emit => <<"follow", a, b>> \in del

Pending == \A s \in Sessions : Open(s) => Announces(tx[s].ins, tx[s].del, tx[s].emit)

IInv == TypeOK /\ Locks /\ Pending /\ RelationLedger /\ EveryEdgeAnnounced

\* A statement adds what it writes and announces to what was so before.
LEMMA AnnouncesMore ==
    ASSUME NEW ins, NEW del, NEW emit, Announces(ins, del, emit),
           NEW moreIns, NEW moreDel, NEW moreEmit, Announces(moreIns, moreDel, moreEmit)
    PROVE  Announces(ins \union moreIns, del \union moreDel, emit \union moreEmit)
<1> SUFFICES ASSUME NEW a \in Users, NEW b \in Users
             PROVE  /\ <<"user.blocked", a, b>> \in emit \union moreEmit
                         <=> <<"block", a, b>> \in ins \union moreIns
                    /\ <<"user.unblocked", a, b>> \in emit \union moreEmit
                         <=> <<"block", a, b>> \in del \union moreDel
                    /\ <<"user.muted", a, b>> \in emit \union moreEmit
                         <=> <<"mute", a, b>> \in ins \union moreIns
                    /\ <<"user.unmuted", a, b>> \in emit \union moreEmit
                         <=> <<"mute", a, b>> \in del \union moreDel
                    /\ <<"follow", a, b>> \in ins \union moreIns
                         => <<"user.followed", a, b>> \in emit \union moreEmit
                    /\ <<"user.unfollowed", a, b>> \in emit \union moreEmit
                         => <<"follow", a, b>> \in del \union moreDel
  BY DEF Announces
<1>1. /\ <<"user.blocked", a, b>> \in emit <=> <<"block", a, b>> \in ins
      /\ <<"user.unblocked", a, b>> \in emit <=> <<"block", a, b>> \in del
      /\ <<"user.muted", a, b>> \in emit <=> <<"mute", a, b>> \in ins
      /\ <<"user.unmuted", a, b>> \in emit <=> <<"mute", a, b>> \in del
      /\ <<"follow", a, b>> \in ins => <<"user.followed", a, b>> \in emit
      /\ <<"user.unfollowed", a, b>> \in emit => <<"follow", a, b>> \in del
  BY DEF Announces
<1>2. /\ <<"user.blocked", a, b>> \in moreEmit <=> <<"block", a, b>> \in moreIns
      /\ <<"user.unblocked", a, b>> \in moreEmit <=> <<"block", a, b>> \in moreDel
      /\ <<"user.muted", a, b>> \in moreEmit <=> <<"mute", a, b>> \in moreIns
      /\ <<"user.unmuted", a, b>> \in moreEmit <=> <<"mute", a, b>> \in moreDel
      /\ <<"follow", a, b>> \in moreIns => <<"user.followed", a, b>> \in moreEmit
      /\ <<"user.unfollowed", a, b>> \in moreEmit => <<"follow", a, b>> \in moreDel
  BY DEF Announces
<1> QED
  BY <1>1, <1>2

\* The statements are among Statements.
LEMMA StatementNames ==
    /\ \A op \in DOMAIN First : First[op] \in Statements
    /\ Later \subseteq Statements
  BY DEF Statements

\* What an open transaction of a session is, and that its users are users.
LEMMA OpenTyped ==
    ASSUME TypeOK, NEW s \in Sessions, Open(s)
    PROVE  /\ tx[s] \in OpenTx
           /\ tx \in [Sessions -> OpenTx \union {NoTx}]
           /\ From(s) \in Users /\ To(s) \in Users
           /\ tx[s].ins \subseteq Rows /\ tx[s].del \subseteq Rows
           /\ tx[s].emit \subseteq Events
           /\ tx[s].private \in BOOLEAN
  BY DEF TypeOK, Open, OpenTx, From, To

\* Replacing the record of one session.
LEMMA TxReplaced ==
    ASSUME TypeOK, NEW s \in Sessions, NEW r \in OpenTx \union {NoTx},
           tx' = [tx EXCEPT ![s] = r]
    PROVE  /\ tx' \in [Sessions -> OpenTx \union {NoTx}]
           /\ tx'[s] = r
           /\ \A t \in Sessions : t # s => tx'[t] = tx[t]
  BY DEF TypeOK

-----------------------------------------------------------------------------
\* An INSERT keeps the invariant if it announces what it does.
LEMMA InsertKeeps ==
    ASSUME IInv, NEW s \in Sessions, Open(s),
           NEW row \in Rows, NEW emitted \in SUBSET Events,
           NEW stmt \in Statements,
           Insert(s, row, emitted, stmt),
           Announces({row} \ rows, {}, emitted)
    PROVE  IInv'
  <1> DEFINE I == tx[s].ins \union ({row} \ rows)
             E == tx[s].emit \union emitted
  <1>1. I \in SUBSET Rows /\ E \in SUBSET Events /\ tx[s].del \in SUBSET Rows
    BY OpenTyped DEF IInv
  <1> DEFINE r == [tx[s] EXCEPT !.ins = I, !.emit = E, !.at = stmt]
  <1>2. /\ tx' = [tx EXCEPT ![s] = r]
        /\ UNCHANGED <<rows, events, begun, erased, raced>>
    BY OpenTyped DEF Insert, IInv
  <1>r. r \in OpenTx /\ r.ins = I /\ r.del = tx[s].del /\ r.emit = E
    <2> HIDE DEF I, E
    <2> QED BY <1>1, OpenTyped DEF IInv, OpenTx
  <1>3. /\ tx' \in [Sessions -> OpenTx \union {NoTx}]
        /\ tx'[s].ins = I /\ tx'[s].del = tx[s].del /\ tx'[s].emit = E
        /\ \A t \in Sessions : t # s => tx'[t] = tx[t]
    <2> HIDE DEF r
    <2> QED BY <1>2, <1>r, TxReplaced DEF IInv
  <1>4. TypeOK'
    BY <1>2, <1>3 DEF IInv, TypeOK
  <1>5. \A t \in Sessions : t # s /\ Open(t) => row \notin Writes(t)
    BY DEF Insert, InsertWaits, Others, Writes
  <1>6. Locks'
    <2>1. \A t \in Sessions : Open(t)' => /\ tx'[t].ins \intersect rows' = {}
                                          /\ tx'[t].del \subseteq rows'
      BY <1>2, <1>3 DEF IInv, Locks, Open
    <2>2. \A t \in Sessions : (t # s /\ Open(t)') =>
              (Writes(s) \union ({row} \ rows)) \intersect Writes(t) = {}
      BY <1>3, <1>5 DEF IInv, Locks, Open
    <2>3. Writes(s)' = Writes(s) \union ({row} \ rows)
      BY <1>3 DEF Writes
    <2>4. \A t \in Sessions : t # s => Writes(t)' = Writes(t) /\ (Open(t)' <=> Open(t))
      BY <1>3 DEF Writes, Open
    <2>5. \A p, q \in Sessions :
              (p # q /\ Open(p)' /\ Open(q)') => Writes(p)' \intersect Writes(q)' = {}
      BY <2>2, <2>3, <2>4 DEF IInv, Locks
    <2> QED BY <2>1, <2>5 DEF Locks
  <1>7. Pending'
    <2>1. Announces(tx[s].ins, tx[s].del, tx[s].emit)
      BY DEF IInv, Pending
    <2>2. Announces(I, tx[s].del \union {}, E)
      BY <2>1, AnnouncesMore
    <2>3. Announces(tx'[s].ins, tx'[s].del, tx'[s].emit)
      BY <2>2, <1>3
    <2>4. \A t \in Sessions : t # s /\ Open(t)' =>
              Announces(tx'[t].ins, tx'[t].del, tx'[t].emit)
      BY <1>3 DEF IInv, Pending, Open
    <2>5. \A t \in Sessions : Open(t)' =>
              Announces(tx'[t].ins, tx'[t].del, tx'[t].emit)
      BY <2>3, <2>4
    <2> QED BY <2>5 DEF Pending, Announces
  <1>8. RelationLedger' /\ EveryEdgeAnnounced'
    BY <1>2 DEF IInv, RelationLedger, Ledger, EveryEdgeAnnounced, Present
  <1> QED BY <1>4, <1>6, <1>7, <1>8 DEF IInv

\* A DELETE keeps it likewise.
LEMMA DeleteKeeps ==
    ASSUME IInv, NEW s \in Sessions, Open(s),
           NEW R \in SUBSET Rows, NEW emitted \in SUBSET Events,
           NEW stmt \in Statements,
           Delete(s, R, emitted, stmt),
           Announces({}, R \intersect rows, emitted)
    PROVE  IInv'
  <1> DEFINE D == tx[s].del \union (R \intersect rows)
             E == tx[s].emit \union emitted
  <1>1. D \in SUBSET Rows /\ E \in SUBSET Events /\ tx[s].ins \in SUBSET Rows
    BY OpenTyped DEF IInv
  <1> DEFINE r == [tx[s] EXCEPT !.del = D, !.emit = E, !.at = stmt]
  <1>2. /\ tx' = [tx EXCEPT ![s] = r]
        /\ UNCHANGED <<rows, events, begun, erased, raced>>
    BY OpenTyped DEF Delete, IInv
  <1>r. r \in OpenTx /\ r.ins = tx[s].ins /\ r.del = D /\ r.emit = E
    <2> HIDE DEF D, E
    <2> QED BY <1>1, OpenTyped DEF IInv, OpenTx
  <1>3. /\ tx' \in [Sessions -> OpenTx \union {NoTx}]
        /\ tx'[s].ins = tx[s].ins /\ tx'[s].del = D /\ tx'[s].emit = E
        /\ \A t \in Sessions : t # s => tx'[t] = tx[t]
    <2> HIDE DEF r
    <2> QED BY <1>2, <1>r, TxReplaced DEF IInv
  <1>4. TypeOK'
    BY <1>2, <1>3 DEF IInv, TypeOK
  <1>5. \A t \in Sessions : t # s /\ Open(t) =>
            (R \intersect rows) \intersect Writes(t) = {}
    <2> SUFFICES ASSUME NEW t \in Sessions, t # s, Open(t), NEW x \in R \intersect rows
                 PROVE  x \notin Writes(t)
      OBVIOUS
    <2>1. x \notin tx[t].ins
      BY DEF IInv, Locks
    <2>2. x \notin tx[t].del
      BY DEF Delete, DeleteWaits, Others, Seen, IInv, Locks, Writes
    <2> QED BY <2>1, <2>2 DEF Writes
  <1>6. Locks'
    <2>1. \A t \in Sessions : Open(t)' => /\ tx'[t].ins \intersect rows' = {}
                                          /\ tx'[t].del \subseteq rows'
      BY <1>2, <1>3 DEF IInv, Locks, Open
    <2>2. \A t \in Sessions : (t # s /\ Open(t)') =>
              (Writes(s) \union (R \intersect rows)) \intersect Writes(t) = {}
      BY <1>3, <1>5 DEF IInv, Locks, Open
    <2>3. Writes(s)' = Writes(s) \union (R \intersect rows)
      BY <1>3 DEF Writes
    <2>4. \A t \in Sessions : t # s => Writes(t)' = Writes(t) /\ (Open(t)' <=> Open(t))
      BY <1>3 DEF Writes, Open
    <2>5. \A p, q \in Sessions :
              (p # q /\ Open(p)' /\ Open(q)') => Writes(p)' \intersect Writes(q)' = {}
      BY <2>2, <2>3, <2>4 DEF IInv, Locks
    <2> QED BY <2>1, <2>5 DEF Locks
  <1>7. Pending'
    <2>1. Announces(tx[s].ins, tx[s].del, tx[s].emit)
      BY DEF IInv, Pending
    <2>2. Announces(tx[s].ins \union {}, D, E)
      BY <2>1, AnnouncesMore
    <2>3. Announces(tx'[s].ins, tx'[s].del, tx'[s].emit)
      BY <2>2, <1>3
    <2>4. \A t \in Sessions : t # s /\ Open(t)' =>
              Announces(tx'[t].ins, tx'[t].del, tx'[t].emit)
      BY <1>3 DEF IInv, Pending, Open
    <2>5. \A t \in Sessions : Open(t)' =>
              Announces(tx'[t].ins, tx'[t].del, tx'[t].emit)
      BY <2>3, <2>4
    <2> QED BY <2>5 DEF Pending, Announces
  <1>8. RelationLedger' /\ EveryEdgeAnnounced'
    BY <1>2 DEF IInv, RelationLedger, Ledger, EveryEdgeAnnounced, Present
  <1> QED BY <1>4, <1>6, <1>7, <1>8 DEF IInv

\* A rollback and a read change nothing that is committed.
LEMMA RollbackKeeps ==
    ASSUME IInv, NEW s \in Sessions, Rollback(s)
    PROVE  IInv'
  <1>1. /\ tx' = [tx EXCEPT ![s] = NoTx]
        /\ UNCHANGED <<rows, events, begun, erased, raced>>
    BY DEF Rollback
  <1>2. /\ tx' \in [Sessions -> OpenTx \union {NoTx}]
        /\ tx'[s] = NoTx
        /\ \A t \in Sessions : t # s => tx'[t] = tx[t]
    BY <1>1, TxReplaced DEF IInv
  <1>3. TypeOK'
    BY <1>1, <1>2 DEF IInv, TypeOK
  <1>4. \A t \in Sessions : Open(t)' => Open(t) /\ tx'[t] = tx[t]
    BY <1>2 DEF Open
  <1>5. Locks'
    BY <1>1, <1>4 DEF IInv, Locks, Writes
  <1>6. Pending'
    <2>1. \A t \in Sessions : Open(t)' =>
              Announces(tx'[t].ins, tx'[t].del, tx'[t].emit)
      BY <1>4 DEF IInv, Pending
    <2> QED BY <2>1 DEF Pending
  <1>7. RelationLedger' /\ EveryEdgeAnnounced'
    BY <1>1 DEF IInv, RelationLedger, Ledger, EveryEdgeAnnounced, Present
  <1> QED BY <1>3, <1>5, <1>6, <1>7 DEF IInv

\* Going on to another statement writes nothing.
LEMMA GoKeeps ==
    ASSUME IInv, NEW s \in Sessions, Open(s), NEW stmt \in Statements, Go(s, stmt)
    PROVE  IInv'
  <1> DEFINE r == [tx[s] EXCEPT !.at = stmt]
  <1>1. /\ tx' = [tx EXCEPT ![s] = r]
        /\ UNCHANGED <<rows, events, begun, erased, raced>>
    BY OpenTyped DEF Go, IInv
  <1>2. /\ r \in OpenTx
        /\ r.ins = tx[s].ins /\ r.del = tx[s].del /\ r.emit = tx[s].emit
    BY OpenTyped DEF IInv, OpenTx
  <1>3. /\ tx' \in [Sessions -> OpenTx \union {NoTx}]
        /\ tx'[s] = r
        /\ \A t \in Sessions : t # s => tx'[t] = tx[t]
    <2> HIDE DEF r
    <2> QED BY <1>1, <1>2, TxReplaced DEF IInv
  <1>4. TypeOK'
    BY <1>1, <1>3 DEF IInv, TypeOK
  <1>5. \A t \in Sessions : /\ Open(t)' => Open(t)
                            /\ tx'[t].ins = tx[t].ins
                            /\ tx'[t].del = tx[t].del
                            /\ tx'[t].emit = tx[t].emit
    <2> HIDE DEF r
    <2> QED BY <1>2, <1>3 DEF Open
  <1>6. Locks'
    BY <1>1, <1>5 DEF IInv, Locks, Writes
  <1>7. Pending'
    <2>1. \A t \in Sessions : Open(t)' =>
              Announces(tx'[t].ins, tx'[t].del, tx'[t].emit)
      BY <1>5 DEF IInv, Pending
    <2> QED BY <2>1 DEF Pending
  <1>8. RelationLedger' /\ EveryEdgeAnnounced'
    BY <1>1 DEF IInv, RelationLedger, Ledger, EveryEdgeAnnounced, Present
  <1> QED BY <1>4, <1>6, <1>7, <1>8 DEF IInv

\* A transaction begins with nothing written.
LEMMA BeginKeeps ==
    ASSUME IInv, NEW s \in Sessions, NEW op \in DOMAIN First,
           NEW a \in Users, NEW b \in Users, Begin(s, op, a, b)
    PROVE  IInv'
  <1>1. PICK private \in BOOLEAN :
          tx' = [tx EXCEPT ![s] = [at |-> First[op], from |-> a, to |-> b,
                                   private |-> private,
                                   ins |-> {}, del |-> {}, emit |-> {}]]
    BY DEF Begin
  <1> DEFINE r == [at |-> First[op], from |-> a, to |-> b, private |-> private,
                   ins |-> {}, del |-> {}, emit |-> {}]
  <1>2. r \in OpenTx /\ r.ins = {} /\ r.del = {} /\ r.emit = {}
    BY StatementNames DEF OpenTx
  <1>3. /\ tx' \in [Sessions -> OpenTx \union {NoTx}]
        /\ tx'[s] = r
        /\ \A t \in Sessions : t # s => tx'[t] = tx[t]
    <2>1. tx' = [tx EXCEPT ![s] = r]
      BY <1>1
    <2> HIDE DEF r
    <2> QED BY <1>2, <2>1, TxReplaced DEF IInv
  <1>4. TypeOK'
    <2>1. begun' \in 0..MaxTx
      BY GraphAssumption DEF Begin, IInv, TypeOK
    <2>2. raced' \subseteq SUBSET Users
      BY DEF Begin, IInv, TypeOK
    <2> QED BY <1>3, <2>1, <2>2 DEF Begin, IInv, TypeOK
  <1>5. \A t \in Sessions : t # s => tx'[t] = tx[t] /\ (Open(t)' <=> Open(t))
    BY <1>3 DEF Open
  <1>6. UNCHANGED <<rows, events, erased>>
    BY DEF Begin
  <1>7. tx'[s].ins = {} /\ tx'[s].del = {} /\ tx'[s].emit = {}
    <2> HIDE DEF r
    <2> QED BY <1>2, <1>3
  <1>8. Locks'
    BY <1>5, <1>6, <1>7 DEF IInv, Locks, Writes
  <1>9. Pending'
    <2>1. Announces({}, {}, {})
      BY DEF Announces
    <2>2. \A t \in Sessions : Open(t)' =>
              Announces(tx'[t].ins, tx'[t].del, tx'[t].emit)
      BY <1>5, <1>7, <2>1 DEF IInv, Pending
    <2> QED BY <2>2 DEF Pending
  <1>10. RelationLedger' /\ EveryEdgeAnnounced'
    BY <1>6 DEF IInv, RelationLedger, Ledger, EveryEdgeAnnounced, Present
  <1> QED BY <1>4, <1>8, <1>9, <1>10 DEF IInv

\* A commit moves the ledgers and the rows together.
LEMMA CommitKeeps ==
    ASSUME IInv, NEW s \in Sessions, Commit(s)
    PROVE  IInv'
  <1>1. Open(s)
    BY DEF Commit, At
  <1>2. /\ tx[s].ins \subseteq Rows /\ tx[s].del \subseteq Rows
        /\ tx[s].ins \intersect rows = {} /\ tx[s].del \subseteq rows
        /\ Announces(tx[s].ins, tx[s].del, tx[s].emit)
    BY <1>1, OpenTyped DEF IInv, Locks, Pending
  <1>3. /\ rows' = (rows \ tx[s].del) \union tx[s].ins
        /\ events' = [e \in Events |->
                        IF e \in tx[s].emit THEN events[e] + 1 ELSE events[e]]
        /\ tx' = [tx EXCEPT ![s] = NoTx]
        /\ UNCHANGED <<begun, erased, raced>>
    BY DEF Commit, Seen
  <1>4. /\ tx' \in [Sessions -> OpenTx \union {NoTx}]
        /\ tx'[s] = NoTx
        /\ \A t \in Sessions : t # s => tx'[t] = tx[t]
    BY <1>3, TxReplaced DEF IInv
  <1>5. TypeOK'
    BY <1>2, <1>3, <1>4 DEF IInv, TypeOK
  <1>6. \A t \in Sessions : Open(t)' => t # s /\ Open(t) /\ tx'[t] = tx[t]
    BY <1>4 DEF Open
  <1>7. Locks'
    <2>1. \A t \in Sessions : (t # s /\ Open(t)) => Writes(s) \intersect Writes(t) = {}
      BY <1>1 DEF IInv, Locks
    <2>2. \A t \in Sessions : Open(t)' => /\ tx'[t].ins \intersect rows' = {}
                                          /\ tx'[t].del \subseteq rows'
      BY <1>3, <1>6, <2>1 DEF IInv, Locks, Writes
    <2>3. \A p, q \in Sessions :
              (p # q /\ Open(p)' /\ Open(q)') => Writes(p)' \intersect Writes(q)' = {}
      BY <1>6 DEF IInv, Locks, Writes
    <2> QED BY <2>2, <2>3 DEF Locks
  <1>8. Pending'
    <2>1. \A t \in Sessions : Open(t)' =>
              Announces(tx'[t].ins, tx'[t].del, tx'[t].emit)
      BY <1>6 DEF IInv, Pending
    <2> QED BY <2>1 DEF Pending
  <1>9. \A type \in EventTypes, a, b \in Users :
            /\ events[<<type, a, b>>] \in Nat
            /\ events'[<<type, a, b>>] =
                 IF <<type, a, b>> \in tx[s].emit THEN events[<<type, a, b>>] + 1
                                                  ELSE events[<<type, a, b>>]
    BY <1>3 DEF IInv, TypeOK, Events
  <1>10. RelationLedger'
    <2> SUFFICES ASSUME NEW a \in Users, NEW b \in Users
                 PROVE  LET exact == {a, b} \intersect erased = {} IN
                        /\ Ledger(events'[<<"user.blocked", a, b>>],
                                  events'[<<"user.unblocked", a, b>>],
                                  Present("block", a, b)', exact)
                        /\ Ledger(events'[<<"user.muted", a, b>>],
                                  events'[<<"user.unmuted", a, b>>],
                                  Present("mute", a, b)', exact)
      BY <1>3 DEF RelationLedger, Ledger, Present
    <2> DEFINE exact == {a, b} \intersect erased = {}
    <2>0. /\ Ledger(events[<<"user.blocked", a, b>>], events[<<"user.unblocked", a, b>>],
                    Present("block", a, b), exact)
          /\ Ledger(events[<<"user.muted", a, b>>], events[<<"user.unmuted", a, b>>],
                    Present("mute", a, b), exact)
      BY DEF IInv, RelationLedger
    <2>1. Ledger(events'[<<"user.blocked", a, b>>], events'[<<"user.unblocked", a, b>>],
                 Present("block", a, b)', exact)
      <3>1. /\ events[<<"user.blocked", a, b>>] \in Nat
            /\ events'[<<"user.blocked", a, b>>] =
                   IF <<"block", a, b>> \in tx[s].ins
                   THEN events[<<"user.blocked", a, b>>] + 1 ELSE events[<<"user.blocked", a, b>>]
        <4>1. <<"user.blocked", a, b>> \in tx[s].emit <=> <<"block", a, b>> \in tx[s].ins
          BY <1>2 DEF Announces
        <4>2. "user.blocked" \in EventTypes
          BY DEF EventTypes
        <4> QED BY <1>9, <4>1, <4>2
      <3>2. /\ events[<<"user.unblocked", a, b>>] \in Nat
            /\ events'[<<"user.unblocked", a, b>>] =
                   IF <<"block", a, b>> \in tx[s].del
                   THEN events[<<"user.unblocked", a, b>>] + 1 ELSE events[<<"user.unblocked", a, b>>]
        <4>1. <<"user.unblocked", a, b>> \in tx[s].emit <=> <<"block", a, b>> \in tx[s].del
          BY <1>2 DEF Announces
        <4>2. "user.unblocked" \in EventTypes
          BY DEF EventTypes
        <4> QED BY <1>9, <4>1, <4>2
      <3>3. /\ Present("block", a, b)' =
                   IF <<"block", a, b>> \in tx[s].ins THEN 1
                   ELSE IF <<"block", a, b>> \in tx[s].del THEN 0
                   ELSE Present("block", a, b)
            /\ <<"block", a, b>> \in tx[s].ins =>
                 /\ Present("block", a, b) = 0
                 /\ <<"block", a, b>> \notin tx[s].del
            /\ <<"block", a, b>> \in tx[s].del => Present("block", a, b) = 1
            /\ Present("block", a, b) \in {0, 1}
        BY <1>2, <1>3 DEF Present
      <3>4. Ledger(events[<<"user.blocked", a, b>>], events[<<"user.unblocked", a, b>>],
                   Present("block", a, b), exact)
        BY <2>0
      <3> HIDE DEF exact
      <3> QED BY <3>1, <3>2, <3>3, <3>4 DEF Ledger
    <2>2. Ledger(events'[<<"user.muted", a, b>>], events'[<<"user.unmuted", a, b>>],
                 Present("mute", a, b)', exact)
      <3>1. /\ events[<<"user.muted", a, b>>] \in Nat
            /\ events'[<<"user.muted", a, b>>] =
                   IF <<"mute", a, b>> \in tx[s].ins
                   THEN events[<<"user.muted", a, b>>] + 1 ELSE events[<<"user.muted", a, b>>]
        <4>1. <<"user.muted", a, b>> \in tx[s].emit <=> <<"mute", a, b>> \in tx[s].ins
          BY <1>2 DEF Announces
        <4>2. "user.muted" \in EventTypes
          BY DEF EventTypes
        <4> QED BY <1>9, <4>1, <4>2
      <3>2. /\ events[<<"user.unmuted", a, b>>] \in Nat
            /\ events'[<<"user.unmuted", a, b>>] =
                   IF <<"mute", a, b>> \in tx[s].del
                   THEN events[<<"user.unmuted", a, b>>] + 1 ELSE events[<<"user.unmuted", a, b>>]
        <4>1. <<"user.unmuted", a, b>> \in tx[s].emit <=> <<"mute", a, b>> \in tx[s].del
          BY <1>2 DEF Announces
        <4>2. "user.unmuted" \in EventTypes
          BY DEF EventTypes
        <4> QED BY <1>9, <4>1, <4>2
      <3>3. /\ Present("mute", a, b)' =
                   IF <<"mute", a, b>> \in tx[s].ins THEN 1
                   ELSE IF <<"mute", a, b>> \in tx[s].del THEN 0
                   ELSE Present("mute", a, b)
            /\ <<"mute", a, b>> \in tx[s].ins =>
                 /\ Present("mute", a, b) = 0
                 /\ <<"mute", a, b>> \notin tx[s].del
            /\ <<"mute", a, b>> \in tx[s].del => Present("mute", a, b) = 1
            /\ Present("mute", a, b) \in {0, 1}
        BY <1>2, <1>3 DEF Present
      <3>4. Ledger(events[<<"user.muted", a, b>>], events[<<"user.unmuted", a, b>>],
                   Present("mute", a, b), exact)
        BY <2>0
      <3> HIDE DEF exact
      <3> QED BY <3>1, <3>2, <3>3, <3>4 DEF Ledger
    <2> QED BY <2>1, <2>2
  <1>11. EveryEdgeAnnounced'
    <2> SUFFICES ASSUME NEW a \in Users, NEW b \in Users
                 PROVE  events'[<<"user.followed", a, b>>]
                          >= events'[<<"user.unfollowed", a, b>>] + Present("follow", a, b)'
      BY DEF EveryEdgeAnnounced
    <2>1. /\ events[<<"user.followed", a, b>>] \in Nat
          /\ events'[<<"user.followed", a, b>>] \in
               {events[<<"user.followed", a, b>>], events[<<"user.followed", a, b>>] + 1}
          /\ <<"follow", a, b>> \in tx[s].ins =>
               events'[<<"user.followed", a, b>>] = events[<<"user.followed", a, b>>] + 1
      <3>1. <<"follow", a, b>> \in tx[s].ins => <<"user.followed", a, b>> \in tx[s].emit
        BY <1>2 DEF Announces
      <3>2. "user.followed" \in EventTypes
        BY DEF EventTypes
      <3> QED BY <1>9, <3>1, <3>2
    <2>2. /\ events[<<"user.unfollowed", a, b>>] \in Nat
          /\ events'[<<"user.unfollowed", a, b>>] \in
               {events[<<"user.unfollowed", a, b>>], events[<<"user.unfollowed", a, b>>] + 1}
          /\ <<"follow", a, b>> \notin tx[s].del =>
               events'[<<"user.unfollowed", a, b>>] = events[<<"user.unfollowed", a, b>>]
      <3>1. <<"user.unfollowed", a, b>> \in tx[s].emit => <<"follow", a, b>> \in tx[s].del
        BY <1>2 DEF Announces
      <3>2. "user.unfollowed" \in EventTypes
        BY DEF EventTypes
      <3> QED BY <1>9, <3>1, <3>2
    <2>3. /\ Present("follow", a, b)' =
               IF <<"follow", a, b>> \in tx[s].ins THEN 1
               ELSE IF <<"follow", a, b>> \in tx[s].del THEN 0
               ELSE Present("follow", a, b)
          /\ <<"follow", a, b>> \in tx[s].ins =>
             /\ Present("follow", a, b) = 0
             /\ <<"follow", a, b>> \notin tx[s].del
          /\ <<"follow", a, b>> \in tx[s].del => Present("follow", a, b) = 1
          /\ Present("follow", a, b) \in {0, 1}
      BY <1>2, <1>3 DEF Present
    <2>4. events[<<"user.followed", a, b>>]
            >= events[<<"user.unfollowed", a, b>>] + Present("follow", a, b)
      BY DEF IInv, EveryEdgeAnnounced
    <2> QED BY <2>1, <2>2, <2>3, <2>4
  <1> QED BY <1>5, <1>7, <1>8, <1>10, <1>11 DEF IInv

\* Every statement of every operation announces exactly what it writes.
LEMMA StatementKeeps ==
    ASSUME IInv, NEW s \in Sessions, Statement(s)
    PROVE  IInv'
  <1> Open(s)
    BY DEF Statement, At, Commit, FollowChecksBlock, FollowChecksExisting,
           FollowRequests, FollowInserts, DropRequest, UnfollowDeletes,
           AcceptTakes, AcceptChecksBlock, AcceptInserts, RejectDeletes,
           BlockInserts, BlockSevers, BlockDropsRequests, UnblockDeletes,
           MuteInserts, UnmuteDeletes
  <1> From(s) \in Users /\ To(s) \in Users
    BY OpenTyped DEF IInv
  <1> USE DEF Later
  <1>1. CASE FollowChecksBlock(s)
    BY <1>1, RollbackKeeps, GoKeeps, StatementNames DEF FollowChecksBlock
  <1>2. CASE FollowChecksExisting(s)
    BY <1>2, GoKeeps, StatementNames DEF FollowChecksExisting
  <1>3. CASE AcceptChecksBlock(s)
    BY <1>3, RollbackKeeps, GoKeeps, StatementNames DEF AcceptChecksBlock
  <1>4. CASE Commit(s)
    BY <1>4, CommitKeeps
  <1>5. CASE FollowRequests(s)
    <2>1. Request(s) \in Rows /\ IfInserted(Request(s), Ev(s, "follow.requested")) \in SUBSET Events
      BY DEF Request, Ev, IfInserted, Rows, Kinds, Events, EventTypes
    <2>2. Announces({Request(s)} \ rows, {}, IfInserted(Request(s), Ev(s, "follow.requested")))
      BY DEF Request, Ev, IfInserted, Announces
    <2>3. "commit" \in Statements
      BY StatementNames
    <2>4. Insert(s, Request(s), IfInserted(Request(s), Ev(s, "follow.requested")), "commit")
      BY <1>5 DEF FollowRequests
    <2> QED BY <2>1, <2>2, <2>3, <2>4, InsertKeeps
  <1>6. CASE FollowInserts(s)
    <2>1. Follow(s) \in Rows /\ IfInserted(Follow(s), Ev(s, "user.followed")) \in SUBSET Events
      BY DEF Follow, Ev, IfInserted, Rows, Kinds, Events, EventTypes
    <2>2. Announces({Follow(s)} \ rows, {}, IfInserted(Follow(s), Ev(s, "user.followed")))
      BY DEF Follow, Ev, IfInserted, Announces
    <2>3. "drop request" \in Statements
      BY StatementNames
    <2>4. Insert(s, Follow(s), IfInserted(Follow(s), Ev(s, "user.followed")), "drop request")
      BY <1>6 DEF FollowInserts
    <2> QED BY <2>1, <2>2, <2>3, <2>4, InsertKeeps
  <1>7. CASE AcceptInserts(s)
    <2>1. Follow(s) \in Rows /\ {Ev(s, "user.followed")} \in SUBSET Events
      BY DEF Follow, Ev, Rows, Kinds, Events, EventTypes
    <2>2. Announces({Follow(s)} \ rows, {}, {Ev(s, "user.followed")})
      BY DEF Follow, Ev, Announces
    <2>3. "commit" \in Statements
      BY StatementNames
    <2>4. Insert(s, Follow(s), {Ev(s, "user.followed")}, "commit")
      BY <1>7 DEF AcceptInserts
    <2> QED BY <2>1, <2>2, <2>3, <2>4, InsertKeeps
  <1>8. CASE BlockInserts(s)
    <2>1. Block(s) \in Rows /\ IfInserted(Block(s), Ev(s, "user.blocked")) \in SUBSET Events
      BY DEF Block, Ev, IfInserted, Rows, Kinds, Events, EventTypes
    <2>2. Announces({Block(s)} \ rows, {}, IfInserted(Block(s), Ev(s, "user.blocked")))
      BY DEF Block, Ev, IfInserted, Announces
    <2>3. "block: sever" \in Statements
      BY StatementNames
    <2>4. Insert(s, Block(s), IfInserted(Block(s), Ev(s, "user.blocked")), "block: sever")
      BY <1>8 DEF BlockInserts
    <2> QED BY <2>1, <2>2, <2>3, <2>4, InsertKeeps
  <1>9. CASE MuteInserts(s)
    <2>1. Mute(s) \in Rows /\ IfInserted(Mute(s), Ev(s, "user.muted")) \in SUBSET Events
      BY DEF Mute, Ev, IfInserted, Rows, Kinds, Events, EventTypes
    <2>2. Announces({Mute(s)} \ rows, {}, IfInserted(Mute(s), Ev(s, "user.muted")))
      BY DEF Mute, Ev, IfInserted, Announces
    <2>3. "commit" \in Statements
      BY StatementNames
    <2>4. Insert(s, Mute(s), IfInserted(Mute(s), Ev(s, "user.muted")), "commit")
      BY <1>9 DEF MuteInserts
    <2> QED BY <2>1, <2>2, <2>3, <2>4, InsertKeeps
  <1>10. CASE DropRequest(s)
    <2>1. {Request(s)} \in SUBSET Rows
      BY DEF Request, Rows, Kinds
    <2>2. Announces({}, {Request(s)} \intersect rows, {})
      BY DEF Request, Announces
    <2>3. ("commit") \in Statements
      BY StatementNames
    <2>4. Delete(s, {Request(s)}, {}, "commit")
      BY <1>10 DEF DropRequest
    <2> QED BY <2>1, <2>2, <2>3, <2>4, DeleteKeeps
  <1>11. CASE UnfollowDeletes(s)
    <2>1. {Follow(s)} \in SUBSET Rows /\ IfDeleted(Follow(s), Ev(s, "user.unfollowed")) \in SUBSET Events
      BY DEF Follow, Ev, IfDeleted, Rows, Kinds, Events, EventTypes
    <2>2. Announces({}, {Follow(s)} \intersect rows, IfDeleted(Follow(s), Ev(s, "user.unfollowed")))
      BY DEF Follow, Ev, IfDeleted, Announces
    <2>3. ("drop request") \in Statements
      BY StatementNames
    <2>4. Delete(s, {Follow(s)}, IfDeleted(Follow(s), Ev(s, "user.unfollowed")), "drop request")
      BY <1>11 DEF UnfollowDeletes
    <2> QED BY <2>1, <2>2, <2>3, <2>4, DeleteKeeps
  <1>12. CASE AcceptTakes(s)
    <2>1. {Request(s)} \in SUBSET Rows
      BY DEF Request, Rows, Kinds
    <2>2. Announces({}, {Request(s)} \intersect rows, {})
      BY DEF Request, Announces
    <2>3. (IF Request(s) \in rows THEN "accept: blocked?" ELSE "commit") \in Statements
      BY StatementNames
    <2>4. Delete(s, {Request(s)}, {}, IF Request(s) \in rows THEN "accept: blocked?" ELSE "commit")
      BY <1>12 DEF AcceptTakes
    <2> QED BY <2>1, <2>2, <2>3, <2>4, DeleteKeeps
  <1>13. CASE RejectDeletes(s)
    <2>1. {Request(s)} \in SUBSET Rows
      BY DEF Request, Rows, Kinds
    <2>2. Announces({}, {Request(s)} \intersect rows, {})
      BY DEF Request, Announces
    <2>3. ("commit") \in Statements
      BY StatementNames
    <2>4. Delete(s, {Request(s)}, {}, "commit")
      BY <1>13 DEF RejectDeletes
    <2> QED BY <2>1, <2>2, <2>3, <2>4, DeleteKeeps
  <1>14. CASE BlockSevers(s)
    <2>1. BothWays(s, "follow") \in SUBSET Rows
      BY DEF BothWays, Rows, Kinds
    <2>2. Announces({}, BothWays(s, "follow") \intersect rows, {})
      BY DEF BothWays, Announces
    <2>3. ("block: drop requests") \in Statements
      BY StatementNames
    <2>4. Delete(s, BothWays(s, "follow"), {}, "block: drop requests")
      BY <1>14 DEF BlockSevers
    <2> QED BY <2>1, <2>2, <2>3, <2>4, DeleteKeeps
  <1>15. CASE BlockDropsRequests(s)
    <2>1. BothWays(s, "request") \in SUBSET Rows
      BY DEF BothWays, Rows, Kinds
    <2>2. Announces({}, BothWays(s, "request") \intersect rows, {})
      BY DEF BothWays, Announces
    <2>3. ("commit") \in Statements
      BY StatementNames
    <2>4. Delete(s, BothWays(s, "request"), {}, "commit")
      BY <1>15 DEF BlockDropsRequests
    <2> QED BY <2>1, <2>2, <2>3, <2>4, DeleteKeeps
  <1>16. CASE UnblockDeletes(s)
    <2>1. {Block(s)} \in SUBSET Rows /\ IfDeleted(Block(s), Ev(s, "user.unblocked")) \in SUBSET Events
      BY DEF Block, Ev, IfDeleted, Rows, Kinds, Events, EventTypes
    <2>2. Announces({}, {Block(s)} \intersect rows, IfDeleted(Block(s), Ev(s, "user.unblocked")))
      BY DEF Block, Ev, IfDeleted, Announces
    <2>3. ("commit") \in Statements
      BY StatementNames
    <2>4. Delete(s, {Block(s)}, IfDeleted(Block(s), Ev(s, "user.unblocked")), "commit")
      BY <1>16 DEF UnblockDeletes
    <2> QED BY <2>1, <2>2, <2>3, <2>4, DeleteKeeps
  <1>17. CASE UnmuteDeletes(s)
    <2>1. {Mute(s)} \in SUBSET Rows /\ IfDeleted(Mute(s), Ev(s, "user.unmuted")) \in SUBSET Events
      BY DEF Mute, Ev, IfDeleted, Rows, Kinds, Events, EventTypes
    <2>2. Announces({}, {Mute(s)} \intersect rows, IfDeleted(Mute(s), Ev(s, "user.unmuted")))
      BY DEF Mute, Ev, IfDeleted, Announces
    <2>3. ("commit") \in Statements
      BY StatementNames
    <2>4. Delete(s, {Mute(s)}, IfDeleted(Mute(s), Ev(s, "user.unmuted")), "commit")
      BY <1>17 DEF UnmuteDeletes
    <2> QED BY <2>1, <2>2, <2>3, <2>4, DeleteKeeps
  <1> QED
    BY <1>1, <1>2, <1>3, <1>4, <1>5, <1>6, <1>7, <1>8, <1>9, <1>10, <1>11, <1>12, <1>13, <1>14, <1>15, <1>16, <1>17 DEF Statement

\* The cascade takes committed rows of its user that no open transaction
\* deleted, and nothing else.
LEMMA CascadeTakes ==
    ASSUME NEW u \in Users, CascadeDeletes(u)
    PROVE  /\ erased' = erased \union {u}
           /\ UNCHANGED <<events, tx, raced>>
           /\ \E gone \in SUBSET rows :
                 /\ rows' = rows \ gone
                 /\ \A row \in gone : u \in {row[2], row[3]}
                 /\ \A t \in Sessions : Open(t) => gone \intersect tx[t].del = {}
  <1>1. PICK kind \in CascadeKinds : \E gone \in (SUBSET RowsOf(u, kind)) \ {{}} :
          /\ \A t \in Sessions : Open(t) => gone \intersect tx[t].del = {}
          /\ rows' = rows \ gone
    BY DEF CascadeDeletes
  <1>2. PICK gone \in SUBSET RowsOf(u, kind) :
          /\ \A t \in Sessions : Open(t) => gone \intersect tx[t].del = {}
          /\ rows' = rows \ gone
    BY <1>1
  <1>3. gone \in SUBSET rows /\ \A row \in gone : u \in {row[2], row[3]}
    BY DEF RowsOf
  <1> QED BY <1>2, <1>3 DEF CascadeDeletes

\* It leaves the ledgers of pairs without an erased user alone, and takes rows
\* without a word from the others.
LEMMA CascadeKeeps ==
    ASSUME IInv, NEW u \in Users, CascadeDeletes(u)
    PROVE  IInv'
  <1>1. PICK gone \in SUBSET rows :
          /\ rows' = rows \ gone
          /\ \A row \in gone : u \in {row[2], row[3]}
          /\ \A t \in Sessions : Open(t) => gone \intersect tx[t].del = {}
    BY CascadeTakes
  <1>2. erased' = erased \union {u} /\ UNCHANGED <<events, tx, raced>>
    BY CascadeTakes
  <1>3. TypeOK'
    <2>1. begun' \in 0..MaxTx
      BY GraphAssumption DEF CascadeDeletes, IInv, TypeOK
    <2> QED BY <1>1, <1>2, <2>1 DEF IInv, TypeOK
  <1>4. Locks'
    BY <1>1, <1>2 DEF IInv, Locks, Writes, Open
  <1>5. Pending'
    <2>1. \A t \in Sessions : Open(t)' =>
              Announces(tx'[t].ins, tx'[t].del, tx'[t].emit)
      BY <1>2 DEF IInv, Pending, Open
    <2> QED BY <2>1 DEF Pending
  <1>6. \A type \in EventTypes, a, b \in Users : events[<<type, a, b>>] \in Nat
    BY DEF IInv, TypeOK, Events
  <1>7. ASSUME NEW a \in Users, NEW b \in Users, NEW kind
        PROVE  /\ Present(kind, a, b) \in {0, 1} /\ Present(kind, a, b)' \in {0, 1}
               /\ Present(kind, a, b)' <= Present(kind, a, b)
               /\ u \notin {a, b} => Present(kind, a, b)' = Present(kind, a, b)
    <2>1. u \notin {a, b} => <<kind, a, b>> \notin gone
      BY <1>1
    <2> QED BY <1>1, <2>1 DEF Present
  <1>8. RelationLedger'
    <2> SUFFICES ASSUME NEW a \in Users, NEW b \in Users
                 PROVE  LET exact == {a, b} \intersect erased' = {} IN
                        /\ Ledger(events[<<"user.blocked", a, b>>],
                                  events[<<"user.unblocked", a, b>>],
                                  Present("block", a, b)', exact)
                        /\ Ledger(events[<<"user.muted", a, b>>],
                                  events[<<"user.unmuted", a, b>>],
                                  Present("mute", a, b)', exact)
      BY <1>2 DEF RelationLedger, Ledger, Present
    <2> DEFINE exact == {a, b} \intersect erased = {}
               still == {a, b} \intersect erased' = {}
    <2>0. still => exact /\ u \notin {a, b}
      BY <1>2
    <2>1. Ledger(events[<<"user.blocked", a, b>>], events[<<"user.unblocked", a, b>>],
                 Present("block", a, b)', still)
      <3>1. Ledger(events[<<"user.blocked", a, b>>], events[<<"user.unblocked", a, b>>],
                   Present("block", a, b), exact)
        BY DEF IInv, RelationLedger
      <3>2. /\ events[<<"user.blocked", a, b>>] \in Nat
            /\ events[<<"user.unblocked", a, b>>] \in Nat
        BY <1>6 DEF EventTypes
      <3> HIDE DEF exact, still
      <3> QED BY <1>7, <2>0, <3>1, <3>2 DEF Ledger
    <2>2. Ledger(events[<<"user.muted", a, b>>], events[<<"user.unmuted", a, b>>],
                 Present("mute", a, b)', still)
      <3>1. Ledger(events[<<"user.muted", a, b>>], events[<<"user.unmuted", a, b>>],
                   Present("mute", a, b), exact)
        BY DEF IInv, RelationLedger
      <3>2. /\ events[<<"user.muted", a, b>>] \in Nat
            /\ events[<<"user.unmuted", a, b>>] \in Nat
        BY <1>6 DEF EventTypes
      <3> HIDE DEF exact, still
      <3> QED BY <1>7, <2>0, <3>1, <3>2 DEF Ledger
    <2> QED BY <2>1, <2>2
  <1>9. EveryEdgeAnnounced'
    <2> SUFFICES ASSUME NEW a \in Users, NEW b \in Users
                 PROVE  events[<<"user.followed", a, b>>]
                          >= events[<<"user.unfollowed", a, b>>] + Present("follow", a, b)'
      BY <1>2 DEF EveryEdgeAnnounced
    <2>1. /\ events[<<"user.followed", a, b>>] \in Nat
          /\ events[<<"user.unfollowed", a, b>>] \in Nat
      BY <1>6 DEF EventTypes
    <2>2. events[<<"user.followed", a, b>>]
            >= events[<<"user.unfollowed", a, b>>] + Present("follow", a, b)
      BY DEF IInv, EveryEdgeAnnounced
    <2> QED BY <1>7, <2>1, <2>2
  <1> QED BY <1>3, <1>4, <1>5, <1>8, <1>9 DEF IInv

-----------------------------------------------------------------------------
(* Blocks and edges of the pairs no two transactions were open on at once.   *)

\* The rows a transaction on a and b may write, and those of a kind.
OfPair(row, a, b) == {row[2], row[3]} = {a, b}
Either(kind, a, b) == {<<kind, a, b>>, <<kind, b, a>>}
EdgeRows(a, b) == Either("follow", a, b) \union Either("request", a, b)

\* A pair that two open transactions share is one of those raced on.
Apart ==
    \A s, t \in Sessions :
        (s # t /\ Open(s) /\ Open(t) /\ {From(s), To(s)} = {From(t), To(t)})
            => {From(s), To(s)} \in raced

\* What a transaction that sees the rows in seen has made sure of when it is
\* about to run a statement: a follow or a request is inserted where there is
\* no block, and a block that is inserted finds its pair without edges, or
\* leaves it so.  It may rely on that while its pair is not raced on.
MadeSure(at, a, b, ins, seen) == {a, b} \notin raced =>
    /\ at \in {"follow: existing?", "follow: insert", "accept: insert"}
         => Either("block", a, b) \intersect seen = {}
    /\ at = "block: insert" => ins = {}
    /\ EdgeRows(a, b) \intersect ins # {} => Either("block", a, b) \intersect seen = {}
    /\ Either("block", a, b) \intersect ins # {} =>
          /\ at \in {"block: sever", "block: drop requests", "commit"}
          /\ at # "block: sever" => Either("follow", a, b) \intersect seen = {}
          /\ at = "commit" => Either("request", a, b) \intersect seen = {}

\* A transaction writes rows of its pair alone.
Careful(s) ==
    /\ \A row \in Writes(s) : OfPair(row, From(s), To(s))
    /\ MadeSure(tx[s].at, From(s), To(s), tx[s].ins, Seen(s))

Orderly == Apart /\ (\A s \in Sessions : Open(s) => Careful(s)) /\ BlockHolds

\* To see less is no less sure.
LEMMA LessSeen ==
    ASSUME NEW at, NEW a, NEW b, NEW ins, NEW seen, NEW less,
           MadeSure(at, a, b, ins, seen), less \subseteq seen
    PROVE  MadeSure(at, a, b, ins, less)
  BY DEF MadeSure

\* A transaction that stays on its pair and is careful keeps the pairs in order:
\* nothing is committed and no other transaction moves.
LEMMA OwnStep ==
    ASSUME IInv, Orderly, NEW s \in Sessions, Open(s), NEW r \in OpenTx,
           r.from = From(s), r.to = To(s),
           tx' = [tx EXCEPT ![s] = r], UNCHANGED <<rows, raced>>,
           \A row \in r.ins \union r.del : OfPair(row, From(s), To(s)),
           MadeSure(r.at, From(s), To(s), r.ins, (rows \ r.del) \union r.ins)
    PROVE  Orderly'
  <1>1. /\ tx'[s] = r
        /\ \A t \in Sessions : t # s => tx'[t] = tx[t]
    BY TxReplaced DEF IInv
  <1>2. \A t \in Sessions : /\ Open(t)' => Open(t)
                            /\ From(t)' = From(t) /\ To(t)' = To(t)
    BY <1>1 DEF Open, From, To
  <1>3. Apart'
    BY <1>2 DEF Orderly, Apart
  <1>4. Careful(s)'
    <2>1. /\ From(s)' = From(s) /\ To(s)' = To(s)
          /\ Writes(s)' = r.ins \union r.del
          /\ Seen(s)' = (rows \ r.del) \union r.ins
      BY <1>1, <1>2 DEF Writes, Seen
    <2>2. \A row \in Writes(s)' : OfPair(row, From(s)', To(s)')
      BY <2>1
    <2>3. MadeSure(tx'[s].at, From(s)', To(s)', tx'[s].ins, Seen(s)')
      BY <1>1, <2>1
    <2> QED BY <2>2, <2>3 DEF Careful, OfPair, MadeSure
  <1>5. ASSUME NEW t \in Sessions, t # s, Open(t)' PROVE Careful(t)'
    <2>1. Careful(t)
      BY <1>2, <1>5 DEF Orderly
    <2>2. Writes(t)' = Writes(t) /\ Seen(t)' = Seen(t) /\ tx'[t] = tx[t]
      BY <1>1, <1>5 DEF Writes, Seen
    <2>3. \A row \in Writes(t)' : OfPair(row, From(t)', To(t)')
      BY <2>1, <2>2, <1>2 DEF Careful
    <2>4. MadeSure(tx'[t].at, From(t)', To(t)', tx'[t].ins, Seen(t)')
      BY <2>1, <2>2, <1>2 DEF Careful
    <2> QED BY <2>3, <2>4 DEF Careful, OfPair, MadeSure
  <1>6. BlockHolds'
    BY DEF Orderly, BlockHolds, BlockKept
  <1> QED BY <1>3, <1>4, <1>5, <1>6 DEF Orderly

\* An INSERT of a row of the pair is careful if it makes sure of what the next
\* statement relies on.
LEMMA InsertCareful ==
    ASSUME IInv, Orderly, NEW s \in Sessions, Open(s),
           NEW row \in Rows, NEW emitted \in SUBSET Events, NEW stmt \in Statements,
           Insert(s, row, emitted, stmt),
           OfPair(row, From(s), To(s)),
           MadeSure(stmt, From(s), To(s), tx[s].ins \union ({row} \ rows),
                    Seen(s) \union {row})
    PROVE  Orderly'
  <1> DEFINE I == tx[s].ins \union ({row} \ rows)
             E == tx[s].emit \union emitted
             r == [tx[s] EXCEPT !.ins = I, !.emit = E, !.at = stmt]
  <1>1. tx' = [tx EXCEPT ![s] = r] /\ UNCHANGED <<rows, raced>>
    BY OpenTyped DEF Insert, IInv
  <1>2. /\ r \in OpenTx /\ r.ins = I /\ r.del = tx[s].del /\ r.at = stmt
        /\ r.from = From(s) /\ r.to = To(s)
    <2>1. I \in SUBSET Rows /\ E \in SUBSET Events
      BY OpenTyped DEF IInv
    <2> HIDE DEF I, E
    <2> QED BY <2>1, OpenTyped DEF IInv, OpenTx, From, To
  <1>3. \A x \in I \union tx[s].del : OfPair(x, From(s), To(s))
    BY DEF Orderly, Careful, Writes
  <1>4. (rows \ tx[s].del) \union I \subseteq Seen(s) \union {row}
    BY DEF Seen
  <1>5. MadeSure(stmt, From(s), To(s), I, (rows \ tx[s].del) \union I)
    <2> HIDE DEF I
    <2>1. MadeSure(stmt, From(s), To(s), I, Seen(s) \union {row})
      BY DEF I
    <2> QED BY <2>1, <1>4, LessSeen
  <1> HIDE DEF r, I
  <1> QED BY <1>1, <1>2, <1>3, <1>5, OwnStep

\* A DELETE of rows of the pair likewise.
LEMMA DeleteCareful ==
    ASSUME IInv, Orderly, NEW s \in Sessions, Open(s),
           NEW R \in SUBSET Rows, NEW emitted \in SUBSET Events, NEW stmt \in Statements,
           Delete(s, R, emitted, stmt),
           \A row \in R : OfPair(row, From(s), To(s)),
           MadeSure(stmt, From(s), To(s), tx[s].ins, (Seen(s) \ R) \union tx[s].ins)
    PROVE  Orderly'
  <1> DEFINE D == tx[s].del \union (R \intersect rows)
             E == tx[s].emit \union emitted
             r == [tx[s] EXCEPT !.del = D, !.emit = E, !.at = stmt]
  <1>1. tx' = [tx EXCEPT ![s] = r] /\ UNCHANGED <<rows, raced>>
    BY OpenTyped DEF Delete, IInv
  <1>2. /\ r \in OpenTx /\ r.ins = tx[s].ins /\ r.del = D /\ r.at = stmt
        /\ r.from = From(s) /\ r.to = To(s)
    <2>1. D \in SUBSET Rows /\ E \in SUBSET Events
      BY OpenTyped DEF IInv
    <2> HIDE DEF D, E
    <2> QED BY <2>1, OpenTyped DEF IInv, OpenTx, From, To
  <1>3. \A x \in tx[s].ins \union D : OfPair(x, From(s), To(s))
    BY DEF Orderly, Careful, Writes
  <1>4. (rows \ D) \union tx[s].ins \subseteq (Seen(s) \ R) \union tx[s].ins
    BY DEF Seen
  <1>5. MadeSure(stmt, From(s), To(s), tx[s].ins, (rows \ D) \union tx[s].ins)
    <2> HIDE DEF D
    <2> QED BY <1>4, LessSeen
  <1> HIDE DEF r, D
  <1> QED BY <1>1, <1>2, <1>3, <1>5, OwnStep

\* A read likewise.
LEMMA GoCareful ==
    ASSUME IInv, Orderly, NEW s \in Sessions, Open(s), NEW stmt \in Statements,
           Go(s, stmt),
           MadeSure(stmt, From(s), To(s), tx[s].ins, Seen(s))
    PROVE  Orderly'
  <1> DEFINE r == [tx[s] EXCEPT !.at = stmt]
  <1>1. tx' = [tx EXCEPT ![s] = r] /\ UNCHANGED <<rows, raced>>
    BY OpenTyped DEF Go, IInv
  <1>2. /\ r \in OpenTx /\ r.ins = tx[s].ins /\ r.del = tx[s].del /\ r.at = stmt
        /\ r.from = From(s) /\ r.to = To(s)
    BY OpenTyped DEF IInv, OpenTx, From, To
  <1>3. \A x \in tx[s].ins \union tx[s].del : OfPair(x, From(s), To(s))
    BY DEF Orderly, Careful, Writes
  <1>4. MadeSure(stmt, From(s), To(s), tx[s].ins, (rows \ tx[s].del) \union tx[s].ins)
    BY DEF Seen
  <1> HIDE DEF r
  <1> QED BY <1>1, <1>2, <1>3, <1>4, OwnStep

\* A transaction that ends leaves its pair to others; what it rolls back was
\* never there.
LEMMA RollbackCareful ==
    ASSUME IInv, Orderly, NEW s \in Sessions, Rollback(s)
    PROVE  Orderly'
  <1>1. /\ tx' = [tx EXCEPT ![s] = NoTx]
        /\ UNCHANGED <<rows, events, begun, erased, raced>>
    BY DEF Rollback
  <1>2. \A t \in Sessions : Open(t)' => Open(t) /\ tx'[t] = tx[t]
    BY <1>1, TxReplaced DEF IInv, Open
  <1>p. \A t \in Sessions : Open(t)' => From(t)' = From(t) /\ To(t)' = To(t)
    BY <1>2 DEF From, To
  <1>3. Apart'
    BY <1>1, <1>2, <1>p DEF Orderly, Apart
  <1>4. \A t \in Sessions : Open(t)' => Careful(t)'
    <2> SUFFICES ASSUME NEW t \in Sessions, Open(t)' PROVE Careful(t)'
      OBVIOUS
    <2>1. Careful(t) /\ tx'[t] = tx[t]
      BY <1>2 DEF Orderly
    <2>2. /\ Writes(t)' = Writes(t) /\ Seen(t)' = Seen(t)
          /\ From(t)' = From(t) /\ To(t)' = To(t)
      BY <2>1, <1>1 DEF Writes, Seen, From, To
    <2>3. \A row \in Writes(t)' : OfPair(row, From(t)', To(t)')
      BY <2>1, <2>2 DEF Careful
    <2>4. MadeSure(tx'[t].at, From(t)', To(t)', tx'[t].ins, Seen(t)')
      BY <2>1, <2>2 DEF Careful
    <2> QED BY <1>1, <2>3, <2>4 DEF Careful, OfPair, MadeSure
  <1>5. BlockHolds'
    BY <1>1 DEF Orderly, BlockHolds, BlockKept
  <1> QED BY <1>3, <1>4, <1>5 DEF Orderly

\* What a careful transaction commits changes its own pair only, and leaves no
\* edge there across a block.
LEMMA CommitCareful ==
    ASSUME IInv, Orderly, NEW s \in Sessions, Commit(s)
    PROVE  Orderly'
  <1>1. Open(s) /\ tx[s].at = "commit"
    BY DEF Commit, At
  <1>2. /\ rows' = Seen(s)
        /\ rows' = (rows \ tx[s].del) \union tx[s].ins
        /\ tx' = [tx EXCEPT ![s] = NoTx] /\ raced' = raced
    BY DEF Commit, Seen
  <1>3. \A t \in Sessions : Open(t)' => t # s /\ Open(t) /\ tx'[t] = tx[t]
    BY <1>2, TxReplaced DEF IInv, Open
  <1>p. \A t \in Sessions : Open(t)' => From(t)' = From(t) /\ To(t)' = To(t)
    BY <1>3 DEF From, To
  <1>4. Apart'
    BY <1>2, <1>3, <1>p DEF Orderly, Apart
  <1>5. Careful(s) /\ \A row \in Writes(s) : {row[2], row[3]} = {From(s), To(s)}
    BY <1>1 DEF Orderly, Careful, OfPair
  <1>6. ASSUME NEW a \in Users, NEW b \in Users, {a, b} # {From(s), To(s)},
               NEW kind
        PROVE  /\ <<kind, a, b>> \in rows' <=> <<kind, a, b>> \in rows
               /\ <<kind, b, a>> \in rows' <=> <<kind, b, a>> \in rows
    <2>1. <<kind, a, b>> \notin Writes(s) /\ <<kind, b, a>> \notin Writes(s)
      BY <1>5, <1>6
    <2> QED BY <1>2, <2>1 DEF Writes
  <1>7. ASSUME NEW t \in Sessions, Open(t)' PROVE Careful(t)'
    <2>1. t # s /\ Open(t) /\ tx'[t] = tx[t] /\ Careful(t)
      BY <1>3, <1>7 DEF Orderly
    <2>2. /\ From(t) \in Users /\ To(t) \in Users
          /\ {From(t), To(t)} # {From(s), To(s)} \/ {From(t), To(t)} \in raced
      BY <2>1, <1>1, OpenTyped DEF IInv, Orderly, Apart
    <2>3. From(t)' = From(t) /\ To(t)' = To(t) /\ Writes(t)' = Writes(t)
      BY <2>1 DEF From, To, Writes
    <2>4. ASSUME NEW kind, {From(t), To(t)} \notin raced
          PROVE  Either(kind, From(t), To(t)) \intersect Seen(t)'
                   = Either(kind, From(t), To(t)) \intersect Seen(t)
      <3>1. /\ <<kind, From(t), To(t)>> \in rows' <=> <<kind, From(t), To(t)>> \in rows
            /\ <<kind, To(t), From(t)>> \in rows' <=> <<kind, To(t), From(t)>> \in rows
        BY <1>6, <2>2, <2>4
      <3> QED BY <2>1, <3>1 DEF Either, Seen
    <2>5. MadeSure(tx'[t].at, From(t)', To(t)', tx'[t].ins, Seen(t)')
      <3>1. MadeSure(tx[t].at, From(t), To(t), tx[t].ins, Seen(t))
        BY <2>1 DEF Careful
      <3>2. {From(t), To(t)} \notin raced =>
            /\ Either("block", From(t), To(t)) \intersect Seen(t)'
                 = Either("block", From(t), To(t)) \intersect Seen(t)
            /\ Either("follow", From(t), To(t)) \intersect Seen(t)'
                 = Either("follow", From(t), To(t)) \intersect Seen(t)
            /\ Either("request", From(t), To(t)) \intersect Seen(t)'
                 = Either("request", From(t), To(t)) \intersect Seen(t)
        BY <2>4
      <3>3. MadeSure(tx[t].at, From(t), To(t), tx[t].ins, Seen(t)')
        BY <3>1, <3>2 DEF MadeSure
      <3> QED BY <3>3, <2>1, <2>3
    <2>6. \A row \in Writes(t)' : OfPair(row, From(t)', To(t)')
      BY <2>1, <2>3 DEF Careful
    <2> QED BY <1>2, <2>5, <2>6 DEF Careful, OfPair, MadeSure
  <1>8. BlockHolds'
    <2> SUFFICES ASSUME NEW a \in Users, NEW b \in Users, {a, b} \notin raced
                 PROVE  \/ {<<"block", a, b>>, <<"block", b, a>>} \intersect rows' = {}
                        \/ {<<"follow", a, b>>, <<"request", a, b>>} \intersect rows' = {}
      BY <1>2 DEF BlockHolds, BlockKept
    <2>0. \/ {<<"block", a, b>>, <<"block", b, a>>} \intersect rows = {}
          \/ {<<"follow", a, b>>, <<"request", a, b>>} \intersect rows = {}
      BY DEF Orderly, BlockHolds, BlockKept
    <2>1. CASE {a, b} # {From(s), To(s)}
      <3>1. /\ <<"block", a, b>> \in rows' <=> <<"block", a, b>> \in rows
            /\ <<"block", b, a>> \in rows' <=> <<"block", b, a>> \in rows
            /\ <<"follow", a, b>> \in rows' <=> <<"follow", a, b>> \in rows
            /\ <<"request", a, b>> \in rows' <=> <<"request", a, b>> \in rows
        BY <2>1, <1>6
      <3> QED BY <2>0, <3>1
    <2>2. CASE {a, b} = {From(s), To(s)}
      <3>1. /\ {<<"block", a, b>>, <<"block", b, a>>} = Either("block", From(s), To(s))
            /\ {<<"follow", a, b>>, <<"request", a, b>>} \subseteq EdgeRows(From(s), To(s))
        <4>1. \/ a = From(s) /\ b = To(s)
              \/ a = To(s) /\ b = From(s)
          BY <2>2
        <4> QED BY <4>1 DEF Either, EdgeRows
      <3>2. MadeSure("commit", From(s), To(s), tx[s].ins, rows')
        BY <1>1, <1>2, <1>5 DEF Careful
      <3>3. CASE Either("block", From(s), To(s)) \intersect tx[s].ins # {}
        <4>1. EdgeRows(From(s), To(s)) \intersect rows' = {}
          BY <2>2, <3>2, <3>3 DEF MadeSure, EdgeRows
        <4> QED BY <3>1, <4>1
      <3>4. CASE EdgeRows(From(s), To(s)) \intersect tx[s].ins # {}
        <4>1. Either("block", From(s), To(s)) \intersect rows' = {}
          BY <2>2, <3>2, <3>4 DEF MadeSure
        <4> QED BY <3>1, <4>1
      <3>5. CASE /\ Either("block", From(s), To(s)) \intersect tx[s].ins = {}
                 /\ EdgeRows(From(s), To(s)) \intersect tx[s].ins = {}
        BY <1>2, <2>0, <3>1, <3>5
      <3> QED BY <3>3, <3>4, <3>5
    <2> QED BY <2>1, <2>2
  <1> QED BY <1>4, <1>7, <1>8 DEF Orderly

\* To insert a follow or a request where there is no block, or a row that is
\* neither, leaves sure what was.
LEMMA InsertSure ==
    ASSUME NEW at, NEW a, NEW b, NEW ins, NEW seen, NEW row, NEW new, NEW stmt,
           MadeSure(at, a, b, ins, seen), ins \subseteq seen, new \subseteq {row},
           at \notin {"block: sever", "block: drop requests", "commit"},
           stmt \in {"drop request", "commit"},
           row \notin Either("block", a, b),
           ({a, b} \notin raced /\ row \in EdgeRows(a, b))
              => Either("block", a, b) \intersect seen = {}
    PROVE  MadeSure(stmt, a, b, ins \union new, seen \union {row})
  <1> SUFFICES ASSUME {a, b} \notin raced
               PROVE  MadeSure(stmt, a, b, ins \union new, seen \union {row})
    BY DEF MadeSure
  <1>1. Either("block", a, b) \intersect (ins \union new) = {}
    BY DEF MadeSure
  <1>2. EdgeRows(a, b) \intersect (ins \union new) # {}
          => Either("block", a, b) \intersect (seen \union {row}) = {}
    BY DEF MadeSure
  <1> QED BY <1>1, <1>2 DEF MadeSure

\* The kinds of rows are told apart by their first component.
LEMMA KindsDiffer ==
    ASSUME NEW a, NEW b, NEW c, NEW d
    PROVE  /\ <<"follow", c, d>> \notin Either("block", a, b)
           /\ <<"request", c, d>> \notin Either("block", a, b)
           /\ <<"mute", c, d>> \notin Either("block", a, b) \union EdgeRows(a, b)
           /\ <<"block", c, d>> \notin EdgeRows(a, b)
  BY DEF Either, EdgeRows

\* Every statement of every operation is careful.
LEMMA StatementCareful ==
    ASSUME IInv, Orderly, NEW s \in Sessions, Statement(s)
    PROVE  Orderly'
  <1> Open(s)
    BY DEF Statement, At, Commit, FollowChecksBlock, FollowChecksExisting,
           FollowRequests, FollowInserts, DropRequest, UnfollowDeletes,
           AcceptTakes, AcceptChecksBlock, AcceptInserts, RejectDeletes,
           BlockInserts, BlockSevers, BlockDropsRequests, UnblockDeletes,
           MuteInserts, UnmuteDeletes
  <1> DEFINE a == From(s)
             b == To(s)
             ins == tx[s].ins
  <1> a \in Users /\ b \in Users
    BY OpenTyped DEF IInv
  <1>m. MadeSure(tx[s].at, a, b, ins, Seen(s)) /\ ins \subseteq Seen(s)
    BY DEF Orderly, Careful, Seen
  <1>p. \A kind : OfPair(<<kind, a, b>>, a, b) /\ OfPair(<<kind, b, a>>, a, b)
    BY DEF OfPair
  <1>r. \A kind \in Kinds : <<kind, a, b>> \in Rows /\ <<kind, b, a>> \in Rows
    BY DEF Rows
  <1>k. "follow" \in Kinds /\ "request" \in Kinds /\ "block" \in Kinds /\ "mute" \in Kinds
    BY DEF Kinds
  <1>e. \A type \in EventTypes : {} \in SUBSET Events /\ {Ev(s, type)} \in SUBSET Events
    BY DEF Ev, Events
  <1>t. Later \subseteq Statements
    BY StatementNames
  <1>1. CASE FollowChecksBlock(s)
    <2>1. CASE Blocked(s)
      BY <1>1, <2>1, RollbackCareful DEF FollowChecksBlock
    <2>2. CASE ~ Blocked(s)
      <3>1. MadeSure("follow: existing?", a, b, ins, Seen(s))
        BY <1>1, <1>m, <2>2
        DEF FollowChecksBlock, At, MadeSure, Blocked, BothWays, Either
      <3> QED BY <1>1, <1>t, <2>2, <3>1, GoCareful DEF FollowChecksBlock, Later
    <2> QED BY <2>1, <2>2
  <1>2. CASE FollowChecksExisting(s)
    <2>1. /\ MadeSure("follow: insert", a, b, ins, Seen(s))
          /\ MadeSure("commit", a, b, ins, Seen(s))
      BY <1>2, <1>m DEF FollowChecksExisting, At, MadeSure
    <2> QED BY <1>2, <1>t, <2>1, GoCareful DEF FollowChecksExisting, Later
  <1>3. CASE AcceptChecksBlock(s)
    <2>1. CASE Blocked(s)
      BY <1>3, <2>1, RollbackCareful DEF AcceptChecksBlock
    <2>2. CASE ~ Blocked(s)
      <3>1. MadeSure("accept: insert", a, b, ins, Seen(s))
        BY <1>3, <1>m, <2>2
        DEF AcceptChecksBlock, At, MadeSure, Blocked, BothWays, Either
      <3> QED BY <1>3, <1>t, <2>2, <3>1, GoCareful DEF AcceptChecksBlock, Later
    <2> QED BY <2>1, <2>2
  <1>4. CASE Commit(s)
    BY <1>4, CommitCareful
  <1>5. CASE FollowRequests(s)
    <2>1. MadeSure("commit", a, b, ins \union ({Request(s)} \ rows), Seen(s) \union {Request(s)})
      <3>1. tx[s].at = "follow: insert"
        BY <1>5 DEF FollowRequests, At
      <3>2. /\ {a, b} \notin raced => Either("block", a, b) \intersect Seen(s) = {}
            /\ Request(s) \notin Either("block", a, b)
        BY <3>1, <1>m, KindsDiffer DEF MadeSure, Request
      <3> QED BY <3>1, <3>2, <1>m, InsertSure
    <2>2. Insert(s, Request(s), IfInserted(Request(s), Ev(s, "follow.requested")), "commit")
      BY <1>5 DEF FollowRequests
    <2>3. IfInserted(Request(s), Ev(s, "follow.requested")) \in SUBSET Events
      BY <1>e DEF IfInserted, EventTypes
    <2>4. Request(s) \in Rows /\ OfPair(Request(s), a, b) /\ "commit" \in Statements
      BY <1>p, <1>r, <1>k, <1>t DEF Request, Later
    <2> QED BY <2>1, <2>2, <2>3, <2>4, InsertCareful
  <1>6. CASE FollowInserts(s)
    <2>1. MadeSure("drop request", a, b, ins \union ({Follow(s)} \ rows), Seen(s) \union {Follow(s)})
      <3>1. tx[s].at = "follow: insert"
        BY <1>6 DEF FollowInserts, At
      <3>2. /\ {a, b} \notin raced => Either("block", a, b) \intersect Seen(s) = {}
            /\ Follow(s) \notin Either("block", a, b)
        BY <3>1, <1>m, KindsDiffer DEF MadeSure, Follow
      <3> QED BY <3>1, <3>2, <1>m, InsertSure
    <2>2. Insert(s, Follow(s), IfInserted(Follow(s), Ev(s, "user.followed")), "drop request")
      BY <1>6 DEF FollowInserts
    <2>3. IfInserted(Follow(s), Ev(s, "user.followed")) \in SUBSET Events
      BY <1>e DEF IfInserted, EventTypes
    <2>4. Follow(s) \in Rows /\ OfPair(Follow(s), a, b) /\ "drop request" \in Statements
      BY <1>p, <1>r, <1>k, <1>t DEF Follow, Later
    <2> QED BY <2>1, <2>2, <2>3, <2>4, InsertCareful
  <1>7. CASE AcceptInserts(s)
    <2>1. MadeSure("commit", a, b, ins \union ({Follow(s)} \ rows), Seen(s) \union {Follow(s)})
      <3>1. tx[s].at = "accept: insert"
        BY <1>7 DEF AcceptInserts, At
      <3>2. /\ {a, b} \notin raced => Either("block", a, b) \intersect Seen(s) = {}
            /\ Follow(s) \notin Either("block", a, b)
        BY <3>1, <1>m, KindsDiffer DEF MadeSure, Follow
      <3> QED BY <3>1, <3>2, <1>m, InsertSure
    <2>2. Insert(s, Follow(s), {Ev(s, "user.followed")}, "commit")
      BY <1>7 DEF AcceptInserts
    <2>3. {Ev(s, "user.followed")} \in SUBSET Events
      BY <1>e DEF EventTypes
    <2>4. Follow(s) \in Rows /\ OfPair(Follow(s), a, b) /\ "commit" \in Statements
      BY <1>p, <1>r, <1>k, <1>t DEF Follow, Later
    <2> QED BY <2>1, <2>2, <2>3, <2>4, InsertCareful
  <1>8. CASE BlockInserts(s)
    <2>1. MadeSure("block: sever", a, b, ins \union ({Block(s)} \ rows), Seen(s) \union {Block(s)})
      <3>1. {a, b} \notin raced => ins = {}
        BY <1>8, <1>m DEF BlockInserts, At, MadeSure
      <3>2. Block(s) \notin EdgeRows(a, b)
        BY KindsDiffer DEF Block
      <3>3. {a, b} \notin raced => EdgeRows(a, b) \intersect (ins \union ({Block(s)} \ rows)) = {}
        BY <3>1, <3>2
      <3> QED BY <3>3 DEF MadeSure
    <2>2. Insert(s, Block(s), IfInserted(Block(s), Ev(s, "user.blocked")), "block: sever")
      BY <1>8 DEF BlockInserts
    <2>3. IfInserted(Block(s), Ev(s, "user.blocked")) \in SUBSET Events
      BY <1>e DEF IfInserted, EventTypes
    <2>4. Block(s) \in Rows /\ OfPair(Block(s), a, b) /\ "block: sever" \in Statements
      BY <1>p, <1>r, <1>k, <1>t DEF Block, Later
    <2> QED BY <2>1, <2>2, <2>3, <2>4, InsertCareful
  <1>9. CASE MuteInserts(s)
    <2>1. MadeSure("commit", a, b, ins \union ({Mute(s)} \ rows), Seen(s) \union {Mute(s)})
      <3>1. tx[s].at = "mute: insert"
        BY <1>9 DEF MuteInserts, At
      <3>2. Mute(s) \notin Either("block", a, b) \union EdgeRows(a, b)
        BY KindsDiffer DEF Mute
      <3> QED BY <3>1, <3>2, <1>m, InsertSure
    <2>2. Insert(s, Mute(s), IfInserted(Mute(s), Ev(s, "user.muted")), "commit")
      BY <1>9 DEF MuteInserts
    <2>3. IfInserted(Mute(s), Ev(s, "user.muted")) \in SUBSET Events
      BY <1>e DEF IfInserted, EventTypes
    <2>4. Mute(s) \in Rows /\ OfPair(Mute(s), a, b) /\ "commit" \in Statements
      BY <1>p, <1>r, <1>k, <1>t DEF Mute, Later
    <2> QED BY <2>1, <2>2, <2>3, <2>4, InsertCareful
  <1>10. CASE DropRequest(s)
    <2>1. MadeSure("commit", a, b, ins, (Seen(s) \ {Request(s)}) \union ins)
      BY <1>10, <1>m DEF DropRequest, At, MadeSure, Request, Either, EdgeRows
    <2>2. Delete(s, {Request(s)}, {}, "commit")
      BY <1>10 DEF DropRequest
    <2>3. {} \in SUBSET Events
      OBVIOUS
    <2>4. /\ {Request(s)} \in SUBSET Rows /\ ("commit") \in Statements
          /\ \A row \in {Request(s)} : OfPair(row, a, b)
      BY <1>p, <1>r, <1>k, <1>t DEF Request, Later
    <2> QED BY <2>1, <2>2, <2>3, <2>4, DeleteCareful
  <1>11. CASE UnfollowDeletes(s)
    <2>1. MadeSure("drop request", a, b, ins, (Seen(s) \ {Follow(s)}) \union ins)
      BY <1>11, <1>m DEF UnfollowDeletes, At, MadeSure, Follow, Either, EdgeRows
    <2>2. Delete(s, {Follow(s)}, IfDeleted(Follow(s), Ev(s, "user.unfollowed")), "drop request")
      BY <1>11 DEF UnfollowDeletes
    <2>3. IfDeleted(Follow(s), Ev(s, "user.unfollowed")) \in SUBSET Events
      BY <1>e DEF IfDeleted, EventTypes
    <2>4. /\ {Follow(s)} \in SUBSET Rows /\ ("drop request") \in Statements
          /\ \A row \in {Follow(s)} : OfPair(row, a, b)
      BY <1>p, <1>r, <1>k, <1>t DEF Follow, Later
    <2> QED BY <2>1, <2>2, <2>3, <2>4, DeleteCareful
  <1>12. CASE AcceptTakes(s)
    <2>1. MadeSure(IF Request(s) \in rows THEN "accept: blocked?" ELSE "commit", a, b, ins, (Seen(s) \ {Request(s)}) \union ins)
      BY <1>12, <1>m DEF AcceptTakes, At, MadeSure, Request, Either, EdgeRows
    <2>2. Delete(s, {Request(s)}, {}, IF Request(s) \in rows THEN "accept: blocked?" ELSE "commit")
      BY <1>12 DEF AcceptTakes
    <2>3. {} \in SUBSET Events
      OBVIOUS
    <2>4. /\ {Request(s)} \in SUBSET Rows /\ (IF Request(s) \in rows THEN "accept: blocked?" ELSE "commit") \in Statements
          /\ \A row \in {Request(s)} : OfPair(row, a, b)
      BY <1>p, <1>r, <1>k, <1>t DEF Request, Later
    <2> QED BY <2>1, <2>2, <2>3, <2>4, DeleteCareful
  <1>13. CASE RejectDeletes(s)
    <2>1. MadeSure("commit", a, b, ins, (Seen(s) \ {Request(s)}) \union ins)
      BY <1>13, <1>m DEF RejectDeletes, At, MadeSure, Request, Either, EdgeRows
    <2>2. Delete(s, {Request(s)}, {}, "commit")
      BY <1>13 DEF RejectDeletes
    <2>3. {} \in SUBSET Events
      OBVIOUS
    <2>4. /\ {Request(s)} \in SUBSET Rows /\ ("commit") \in Statements
          /\ \A row \in {Request(s)} : OfPair(row, a, b)
      BY <1>p, <1>r, <1>k, <1>t DEF Request, Later
    <2> QED BY <2>1, <2>2, <2>3, <2>4, DeleteCareful
  <1>14. CASE BlockSevers(s)
    <2>1. MadeSure("block: drop requests", a, b, ins, (Seen(s) \ BothWays(s, "follow")) \union ins)
      BY <1>14, <1>m DEF BlockSevers, At, MadeSure, BothWays, Either, EdgeRows
    <2>2. Delete(s, BothWays(s, "follow"), {}, "block: drop requests")
      BY <1>14 DEF BlockSevers
    <2>3. {} \in SUBSET Events
      OBVIOUS
    <2>4. /\ BothWays(s, "follow") \in SUBSET Rows /\ ("block: drop requests") \in Statements
          /\ \A row \in BothWays(s, "follow") : OfPair(row, a, b)
      BY <1>p, <1>r, <1>k, <1>t DEF BothWays, Later
    <2> QED BY <2>1, <2>2, <2>3, <2>4, DeleteCareful
  <1>15. CASE BlockDropsRequests(s)
    <2>1. MadeSure("commit", a, b, ins, (Seen(s) \ BothWays(s, "request")) \union ins)
      BY <1>15, <1>m DEF BlockDropsRequests, At, MadeSure, BothWays, Either, EdgeRows
    <2>2. Delete(s, BothWays(s, "request"), {}, "commit")
      BY <1>15 DEF BlockDropsRequests
    <2>3. {} \in SUBSET Events
      OBVIOUS
    <2>4. /\ BothWays(s, "request") \in SUBSET Rows /\ ("commit") \in Statements
          /\ \A row \in BothWays(s, "request") : OfPair(row, a, b)
      BY <1>p, <1>r, <1>k, <1>t DEF BothWays, Later
    <2> QED BY <2>1, <2>2, <2>3, <2>4, DeleteCareful
  <1>16. CASE UnblockDeletes(s)
    <2>1. MadeSure("commit", a, b, ins, (Seen(s) \ {Block(s)}) \union ins)
      BY <1>16, <1>m DEF UnblockDeletes, At, MadeSure, Block, Either, EdgeRows
    <2>2. Delete(s, {Block(s)}, IfDeleted(Block(s), Ev(s, "user.unblocked")), "commit")
      BY <1>16 DEF UnblockDeletes
    <2>3. IfDeleted(Block(s), Ev(s, "user.unblocked")) \in SUBSET Events
      BY <1>e DEF IfDeleted, EventTypes
    <2>4. /\ {Block(s)} \in SUBSET Rows /\ ("commit") \in Statements
          /\ \A row \in {Block(s)} : OfPair(row, a, b)
      BY <1>p, <1>r, <1>k, <1>t DEF Block, Later
    <2> QED BY <2>1, <2>2, <2>3, <2>4, DeleteCareful
  <1>17. CASE UnmuteDeletes(s)
    <2>1. MadeSure("commit", a, b, ins, (Seen(s) \ {Mute(s)}) \union ins)
      BY <1>17, <1>m DEF UnmuteDeletes, At, MadeSure, Mute, Either, EdgeRows
    <2>2. Delete(s, {Mute(s)}, IfDeleted(Mute(s), Ev(s, "user.unmuted")), "commit")
      BY <1>17 DEF UnmuteDeletes
    <2>3. IfDeleted(Mute(s), Ev(s, "user.unmuted")) \in SUBSET Events
      BY <1>e DEF IfDeleted, EventTypes
    <2>4. /\ {Mute(s)} \in SUBSET Rows /\ ("commit") \in Statements
          /\ \A row \in {Mute(s)} : OfPair(row, a, b)
      BY <1>p, <1>r, <1>k, <1>t DEF Mute, Later
    <2> QED BY <2>1, <2>2, <2>3, <2>4, DeleteCareful
  <1> QED
    BY <1>1, <1>2, <1>3, <1>4, <1>5, <1>6, <1>7, <1>8, <1>9, <1>10, <1>11, <1>12,
       <1>13, <1>14, <1>15, <1>16, <1>17 DEF Statement

\* A transaction begins with nothing written, and says so when its pair has
\* another one open.
LEMMA BeginCareful ==
    ASSUME IInv, Orderly, NEW s \in Sessions, NEW op \in DOMAIN First,
           NEW a \in Users, NEW b \in Users, Begin(s, op, a, b)
    PROVE  Orderly'
  <1>1. /\ UNCHANGED rows /\ raced \subseteq raced'
        /\ \A t \in Others(s) : {From(t), To(t)} = {a, b} => {a, b} \in raced'
    BY DEF Begin, SamePair
  <1>2. PICK private \in BOOLEAN :
          tx' = [tx EXCEPT ![s] = [at |-> First[op], from |-> a, to |-> b,
                                   private |-> private,
                                   ins |-> {}, del |-> {}, emit |-> {}]]
    BY DEF Begin
  <1> DEFINE r == [at |-> First[op], from |-> a, to |-> b, private |-> private,
                   ins |-> {}, del |-> {}, emit |-> {}]
  <1>3. /\ tx'[s] = r
        /\ \A t \in Sessions : t # s => tx'[t] = tx[t]
    <2>1. r \in OpenTx
      BY StatementNames DEF OpenTx
    <2> HIDE DEF r
    <2> QED BY <1>2, <2>1, TxReplaced DEF IInv, r
  <1>4. /\ From(s)' = a /\ To(s)' = b
        /\ \A t \in Sessions : t # s => /\ From(t)' = From(t) /\ To(t)' = To(t)
                                        /\ (Open(t)' <=> Open(t))
    BY <1>3 DEF From, To, Open
  <1>5. Apart'
    BY <1>1, <1>4 DEF Orderly, Apart, Others
  <1>6. Careful(s)'
    <2>1. /\ tx'[s].ins = {} /\ tx'[s].del = {}
          /\ tx'[s].at \in {First[o] : o \in DOMAIN First}
      BY <1>3
    <2>2. MadeSure(tx'[s].at, From(s)', To(s)', tx'[s].ins, Seen(s)')
      <3>1. ASSUME NEW o \in DOMAIN First
            PROVE  First[o] \notin {"follow: existing?", "follow: insert", "accept: insert"}
        <4>1. o \in {"follow", "unfollow", "accept", "reject", "block", "unblock",
                     "mute", "unmute"}
          BY DEF First
        <4>2. /\ First["follow"] = "follow: blocked?"
              /\ First["unfollow"] = "unfollow: delete"
              /\ First["accept"] = "accept: take"
              /\ First["reject"] = "reject: delete"
              /\ First["block"] = "block: insert"
              /\ First["unblock"] = "unblock: delete"
              /\ First["mute"] = "mute: insert"
              /\ First["unmute"] = "unmute: delete"
          BY DEF First
        <4> QED BY <4>1, <4>2
      <3> QED BY <2>1, <3>1 DEF MadeSure
    <2>3. Writes(s)' = {}
      BY <2>1 DEF Writes
    <2> QED BY <1>1, <2>2, <2>3 DEF Careful, OfPair, MadeSure
  <1>7. ASSUME NEW t \in Sessions, t # s, Open(t)' PROVE Careful(t)'
    <2>1. Careful(t) /\ tx'[t] = tx[t]
      BY <1>1, <1>3, <1>4, <1>7 DEF Orderly
    <2>2. Writes(t)' = Writes(t) /\ Seen(t)' = Seen(t)
      BY <2>1, <1>1 DEF Writes, Seen
    <2>3. \A row \in Writes(t)' : OfPair(row, From(t)', To(t)')
      BY <2>1, <2>2, <1>4, <1>7 DEF Careful
    <2>4. MadeSure(tx'[t].at, From(t)', To(t)', tx'[t].ins, Seen(t)')
      BY <2>1, <2>2, <1>4, <1>7 DEF Careful
    <2> QED BY <1>1, <2>3, <2>4 DEF Careful, OfPair, MadeSure
  <1>8. BlockHolds'
    BY <1>1 DEF Orderly, BlockHolds, BlockKept
  <1> QED BY <1>5, <1>6, <1>7, <1>8 DEF Orderly

\* The cascade only takes rows away.
LEMMA CascadeCareful ==
    ASSUME IInv, Orderly, NEW u \in Users, CascadeDeletes(u)
    PROVE  Orderly'
  <1>1. rows' \subseteq rows /\ UNCHANGED <<tx, raced>>
    BY CascadeTakes
  <1>2. \A s \in Sessions : /\ (Open(s)' <=> Open(s))
                            /\ From(s)' = From(s) /\ To(s)' = To(s)
                            /\ Writes(s)' = Writes(s) /\ Seen(s)' \subseteq Seen(s)
    BY <1>1 DEF Open, From, To, Writes, Seen
  <1>3. ASSUME NEW s \in Sessions, Open(s)' PROVE Careful(s)'
    <2>1. Careful(s)
      BY <1>2, <1>3 DEF Orderly
    <2>2. \A row \in Writes(s)' : OfPair(row, From(s)', To(s)')
      BY <1>2, <2>1 DEF Careful
    <2>3. MadeSure(tx[s].at, From(s), To(s), tx[s].ins, Seen(s)')
      BY <1>2, <2>1, LessSeen DEF Careful
    <2> QED BY <1>1, <1>2, <2>2, <2>3 DEF Careful, OfPair, MadeSure
  <1>4. Apart' /\ BlockHolds'
    BY <1>1, <1>2 DEF Orderly, Apart, BlockHolds, BlockKept
  <1> QED BY <1>3, <1>4 DEF Orderly

-----------------------------------------------------------------------------
\* The invariant holds of the empty graph.
LEMMA InitEstablishes == Init => IInv
  <1> SUFFICES ASSUME Init PROVE IInv
    OBVIOUS
  <1>1. TypeOK
    <2>1. begun \in 0..MaxTx
      BY GraphAssumption DEF Init
    <2>2. events \in [Events -> Nat]
      BY DEF Init
    <2>3. tx \in [Sessions -> OpenTx \union {NoTx}]
      BY DEF Init
    <2> QED BY <2>1, <2>2, <2>3 DEF Init, TypeOK
  <1>2. \A s \in Sessions : ~ Open(s)
    BY DEF Init, Open
  <1>3. Locks /\ Pending
    BY <1>2 DEF Locks, Pending
  <1>4. \A type \in EventTypes, a, b \in Users : events[<<type, a, b>>] = 0
    BY DEF Init, Events
  <1>6. RelationLedger
    <2> SUFFICES ASSUME NEW a \in Users, NEW b \in Users, NEW exact
                 PROVE  /\ Ledger(events[<<"user.blocked", a, b>>],
                                  events[<<"user.unblocked", a, b>>],
                                  Present("block", a, b), exact)
                        /\ Ledger(events[<<"user.muted", a, b>>],
                                  events[<<"user.unmuted", a, b>>],
                                  Present("mute", a, b), exact)
      BY DEF RelationLedger
    <2>1. /\ events[<<"user.blocked", a, b>>] = 0 /\ events[<<"user.unblocked", a, b>>] = 0
          /\ events[<<"user.muted", a, b>>] = 0 /\ events[<<"user.unmuted", a, b>>] = 0
      BY <1>4 DEF EventTypes
    <2>2. Present("block", a, b) = 0 /\ Present("mute", a, b) = 0
      BY DEF Init, Present
    <2> QED BY <2>1, <2>2 DEF Ledger
  <1>7. EveryEdgeAnnounced
    <2> SUFFICES ASSUME NEW a \in Users, NEW b \in Users
                 PROVE  events[<<"user.followed", a, b>>]
                          >= events[<<"user.unfollowed", a, b>>] + Present("follow", a, b)
      BY DEF EveryEdgeAnnounced
    <2>1. \A type \in EventTypes : events[<<type, a, b>>] = 0
      BY <1>4
    <2>2. Present("follow", a, b) = 0
      BY DEF Init, Present
    <2> QED BY <2>1, <2>2 DEF EventTypes
  <1> QED BY <1>1, <1>3, <1>6, <1>7 DEF IInv

\* Every step of every session keeps the invariant.
LEMMA NextKeeps == IInv /\ [Next]_vars => IInv'
  <1> SUFFICES ASSUME IInv, [Next]_vars PROVE IInv'
    OBVIOUS
  <1>1. ASSUME NEW s \in Sessions, NEW op \in DOMAIN First,
               NEW a \in Users, NEW b \in Users, Begin(s, op, a, b)
        PROVE  IInv'
    BY <1>1, BeginKeeps
  <1>2. ASSUME NEW s \in Sessions, Statement(s)
        PROVE  IInv'
    BY <1>2, StatementKeeps
  <1>3. ASSUME NEW s \in Sessions, Fails(s)
        PROVE  IInv'
    BY <1>3, RollbackKeeps DEF Fails
  <1>4. CASE UNCHANGED vars
    <2>1. Pending'
      <3>1. \A t \in Sessions : Open(t)' =>
                Announces(tx'[t].ins, tx'[t].del, tx'[t].emit)
        BY <1>4 DEF vars, IInv, Pending, Open
      <3> QED BY <3>1 DEF Pending
    <2>2. (TypeOK /\ Locks /\ RelationLedger /\ EveryEdgeAnnounced)'
      BY <1>4 DEF vars, IInv, TypeOK, Locks, Writes, Open, RelationLedger, Ledger,
                  EveryEdgeAnnounced, Present
    <2> QED BY <2>1, <2>2 DEF IInv
  <1>5. ASSUME NEW u \in Users, CascadeDeletes(u)
        PROVE  IInv'
    BY <1>5, CascadeKeeps
  <1> QED BY <1>1, <1>2, <1>3, <1>4, <1>5 DEF Next, Step

\* The invariant holds in every reachable state.
LEMMA InvariantHolds == Spec => []IInv
  BY InitEstablishes, NextKeeps, PTL DEF Spec

\* The types hold for any users and any number of sessions.
THEOREM TypeCorrect == Spec => []TypeOK
  <1>1. IInv => TypeOK
    BY DEF IInv
  <1> QED BY <1>1, InvariantHolds, PTL

\* Row locks and transactional outbox rows together keep the announcements of
\* blocks and mutes exact under any interleaving, wait and rollback, but for the
\* pairs of which the cascade took rows: those may be announced and gone.
THEOREM RelationLedgerCorrect == Spec => []RelationLedger
  <1>1. IInv => RelationLedger
    BY DEF IInv
  <1> QED BY <1>1, InvariantHolds, PTL

\* No follow exists that its consumers were not told of.
THEOREM EveryEdgeAnnouncedCorrect == Spec => []EveryEdgeAnnounced
  <1>1. IInv => EveryEdgeAnnounced
    BY DEF IInv
  <1> QED BY <1>1, InvariantHolds, PTL

\* Blocks and edges stay in order from the empty graph on.
LEMMA OrderlyInit == Init => Orderly
  <1> SUFFICES ASSUME Init PROVE Orderly
    OBVIOUS
  <1>1. \A s \in Sessions : ~ Open(s)
    BY DEF Init, Open
  <1>2. BlockHolds
    BY DEF Init, BlockHolds, BlockKept
  <1> QED BY <1>1, <1>2 DEF Orderly, Apart

\* ... through every step: only Begin can put two transactions on one pair, and
\* then raced names that pair for ever.
LEMMA OrderlyNext == IInv /\ Orderly /\ [Next]_vars => Orderly'
  <1> SUFFICES ASSUME IInv, Orderly, [Next]_vars PROVE Orderly'
    OBVIOUS
  <1>1. ASSUME NEW s \in Sessions, NEW op \in DOMAIN First,
               NEW a \in Users, NEW b \in Users, Begin(s, op, a, b)
        PROVE  Orderly'
    BY <1>1, BeginCareful
  <1>2. ASSUME NEW s \in Sessions, Statement(s)
        PROVE  Orderly'
    BY <1>2, StatementCareful
  <1>3. ASSUME NEW s \in Sessions, Fails(s)
        PROVE  Orderly'
    BY <1>3, RollbackCareful DEF Fails
  <1>4. CASE UNCHANGED vars
    <2>1. \A s \in Sessions : /\ (Open(s)' <=> Open(s))
                              /\ From(s)' = From(s) /\ To(s)' = To(s)
                              /\ Writes(s)' = Writes(s) /\ Seen(s)' = Seen(s)
      BY <1>4 DEF vars, Open, From, To, Writes, Seen
    <2>2. ASSUME NEW s \in Sessions, Open(s)' PROVE Careful(s)'
      <3>1. Careful(s)
        BY <2>1, <2>2 DEF Orderly
      <3>2. \A row \in Writes(s)' : OfPair(row, From(s)', To(s)')
        BY <2>1, <3>1 DEF Careful
      <3>3. MadeSure(tx'[s].at, From(s)', To(s)', tx'[s].ins, Seen(s)')
        BY <1>4, <2>1, <3>1 DEF Careful, vars
      <3> QED BY <1>4, <3>2, <3>3 DEF Careful, OfPair, MadeSure, vars
    <2>3. Apart' /\ BlockHolds'
      BY <1>4, <2>1 DEF Orderly, Apart, BlockHolds, BlockKept, vars
    <2> QED BY <2>2, <2>3 DEF Orderly
  <1>5. ASSUME NEW u \in Users, CascadeDeletes(u)
        PROVE  Orderly'
    BY <1>5, CascadeCareful
  <1> QED BY <1>1, <1>2, <1>3, <1>4, <1>5 DEF Next, Step

\* A block and an edge never stand beside each other on a pair no two
\* transactions were open on at once, whatever overlaps on other pairs: each
\* operation checks or severs before it commits.
THEOREM BlockHoldsCorrect == Spec => []BlockHolds
  <1>1. Orderly => BlockHolds
    BY DEF Orderly
  <1> QED BY <1>1, InvariantHolds, OrderlyInit, OrderlyNext, PTL DEF Spec

-----------------------------------------------------------------------------
(* Requests and follows, under the same condition.                           *)

FollowRows == {"follow"} \X Users \X Users
RequestRows == {"request"} \X Users \X Users
FollowedEvents == {"user.followed"} \X Users \X Users

\* What a transaction has made sure of about the follow and the request it is
\* about: it inserts one of them only where the other is not, or drops the other
\* before it commits, and it announces a follow only with its row.  The last
\* five it may rely on while it is alone on its pair.
SureOf(alone, at, follow, request, followed, ins, del, emit) ==
    LET seen == (rows \ del) \union ins
    IN  /\ ins \intersect FollowRows \subseteq {follow}
        /\ ins \intersect RequestRows \subseteq {request}
        /\ emit \intersect FollowedEvents \subseteq {followed}
        /\ alone =>
           /\ followed \in emit => follow \in ins
           /\ follow \in ins =>
                 \/ at = "drop request"
                 \/ at = "commit" /\ request \notin seen
           /\ request \in ins => at = "commit" /\ follow \notin seen
           /\ at = "follow: insert" => follow \notin seen
           /\ at \in {"accept: blocked?", "accept: insert"} =>
                 follow \notin rows /\ request \notin seen

Fresh(r) ==
    SureOf({r.from, r.to} \notin raced, r.at,
           <<"follow", r.from, r.to>>, <<"request", r.from, r.to>>,
           <<"user.followed", r.from, r.to>>, r.ins, r.del, r.emit)

AllFresh == \A s \in Sessions : Open(s) => Fresh(tx[s])
FreshInv == RequestOrFollow /\ AllFresh
Transition == \A a, b \in Users : {a, b} \in raced \/ NewFollowed(a, b)

\* A transaction that goes on fresh leaves the others so.
LEMMA OwnFresh ==
    ASSUME IInv, RequestOrFollow, AllFresh, NEW s \in Sessions, NEW r \in OpenTx \union {NoTx},
           r = NoTx \/ Fresh(r), tx' = [tx EXCEPT ![s] = r], UNCHANGED rows,
           raced \subseteq raced'
    PROVE  RequestOrFollow' /\ AllFresh'
<1>1. tx'[s] = r /\ \A t \in Sessions : t # s => tx'[t] = tx[t]
  BY TxReplaced DEF IInv
<1>2. ASSUME NEW t \in Sessions, Open(t)' PROVE Fresh(tx[t])' 
  <2>1. Fresh(tx'[t])
    BY <1>1, <1>2 DEF AllFresh, Open
  <2> QED
    BY <2>1 DEF Fresh, SureOf, FollowRows, RequestRows, FollowedEvents
<1> QED
  BY <1>2 DEF RequestOrFollow, AllFresh

\* The record of a transaction after an INSERT, a DELETE or a read.
Advances(s, r, at, ins, del, emit) ==
    /\ tx' = [tx EXCEPT ![s] = r] /\ UNCHANGED <<rows, raced>>
    /\ r.from = tx[s].from /\ r.to = tx[s].to
    /\ r.at = at /\ r.ins = ins /\ r.del = del /\ r.emit = emit

LEMMA Inserted ==
    ASSUME IInv, NEW s \in Sessions, Open(s), NEW row \in Rows, NEW emitted \in SUBSET Events,
           NEW stmt \in Statements, Insert(s, row, emitted, stmt)
    PROVE  \E r \in OpenTx : Advances(s, r, stmt, tx[s].ins \union ({row} \ rows), tx[s].del,
                                    tx[s].emit \union emitted)
<1> DEFINE I == tx[s].ins \union ({row} \ rows)
           E == tx[s].emit \union emitted
           r == [tx[s] EXCEPT !.ins = I, !.emit = E, !.at = stmt]
<1>1. tx' = [tx EXCEPT ![s] = r] /\ UNCHANGED <<rows, raced>>
  BY OpenTyped DEF Insert, IInv
<1>2. I \in SUBSET Rows /\ E \in SUBSET Events
  BY OpenTyped DEF IInv
<1>3. /\ r \in OpenTx /\ r.from = tx[s].from /\ r.to = tx[s].to /\ r.at = stmt
      /\ r.del = tx[s].del /\ r.ins = I /\ r.emit = E
  <2> HIDE DEF I, E
  <2> QED
    BY <1>2, OpenTyped DEF IInv, OpenTx
<1>4. Advances(s, r, stmt, I, tx[s].del, E)
  BY <1>1, <1>3 DEF Advances
<1> HIDE DEF r
<1> QED
  BY <1>3, <1>4

LEMMA Deleted ==
    ASSUME IInv, NEW s \in Sessions, Open(s), NEW R \in SUBSET Rows,
           NEW emitted \in SUBSET Events,
           NEW stmt \in Statements, Delete(s, R, emitted, stmt)
    PROVE  \E r \in OpenTx : Advances(s, r, stmt, tx[s].ins, tx[s].del \union (R \intersect rows),
                                    tx[s].emit \union emitted)
<1> DEFINE D == tx[s].del \union (R \intersect rows)
           E == tx[s].emit \union emitted
           r == [tx[s] EXCEPT !.del = D, !.emit = E, !.at = stmt]
<1>1. tx' = [tx EXCEPT ![s] = r] /\ UNCHANGED <<rows, raced>>
  BY OpenTyped DEF Delete, IInv
<1>2. D \in SUBSET Rows /\ E \in SUBSET Events
  BY OpenTyped DEF IInv
<1>3. /\ r \in OpenTx /\ r.from = tx[s].from /\ r.to = tx[s].to /\ r.at = stmt
      /\ r.ins = tx[s].ins /\ r.del = D /\ r.emit = E
  <2> HIDE DEF D, E
  <2> QED
    BY <1>2, OpenTyped DEF IInv, OpenTx
<1>4. Advances(s, r, stmt, tx[s].ins, D, E)
  BY <1>1, <1>3 DEF Advances
<1> HIDE DEF r
<1> QED
  BY <1>3, <1>4

LEMMA Gone ==
    ASSUME IInv, NEW s \in Sessions, Open(s), NEW stmt \in Statements, Go(s, stmt)
    PROVE  \E r \in OpenTx : Advances(s, r, stmt, tx[s].ins, tx[s].del, tx[s].emit)
<1> DEFINE r == [tx[s] EXCEPT !.at = stmt]
<1>1. tx' = [tx EXCEPT ![s] = r] /\ UNCHANGED <<rows, raced>>
  BY OpenTyped DEF Go, IInv
<1>2. /\ r \in OpenTx /\ r.from = tx[s].from /\ r.to = tx[s].to /\ r.at = stmt
      /\ r.ins = tx[s].ins /\ r.del = tx[s].del /\ r.emit = tx[s].emit
  BY OpenTyped DEF IInv, OpenTx
<1>4. Advances(s, r, stmt, tx[s].ins, tx[s].del, tx[s].emit)
  BY <1>1, <1>2 DEF Advances
<1> HIDE DEF r
<1> QED
  BY <1>2, <1>4

\* An INSERT of a row that is neither, and a DELETE after which only a commit
\* or another statement of the same operation comes, keep what was sure.
LEMMA StatementFresh ==
    ASSUME IInv, RequestOrFollow, AllFresh, NEW s \in Sessions, Statement(s), ~ Commit(s)
    PROVE  RequestOrFollow' /\ AllFresh'
<1> DEFINE o == tx[s]
           f == <<"follow", o.from, o.to>>
           q == <<"request", o.from, o.to>>
           e == <<"user.followed", o.from, o.to>>
           seen == (rows \ o.del) \union o.ins
           alone == {o.from, o.to} \notin raced
<1>o. Open(s)
  BY DEF Statement, At, Commit, FollowChecksBlock, FollowChecksExisting,
         FollowRequests, FollowInserts, DropRequest, UnfollowDeletes,
         AcceptTakes, AcceptChecksBlock, AcceptInserts, RejectDeletes,
         BlockInserts, BlockSevers, BlockDropsRequests, UnblockDeletes,
         MuteInserts, UnmuteDeletes
<1>f. /\ Fresh(o) /\ o.from \in Users /\ o.to \in Users
      /\ alone => ~(f \in rows /\ q \in rows)
  <2>1. o.from \in Users /\ o.to \in Users
    BY <1>o, OpenTyped DEF IInv, From, To
  <2> QED
    BY <1>o, <2>1 DEF AllFresh, RequestOrFollow
<1>a. /\ Follow(s) = f /\ Request(s) = q /\ Seen(s) = seen
      /\ \A type : Ev(s, type) = <<type, o.from, o.to>>
      /\ Block(s) = <<"block", o.from, o.to>> /\ Mute(s) = <<"mute", o.from, o.to>>
      /\ \A kind : BothWays(s, kind) = {<<kind, o.from, o.to>>, <<kind, o.to, o.from>>}
  BY DEF Follow, Request, Seen, Ev, Block, Mute, BothWays, From, To
<1>t. /\ Later \subseteq Statements
      /\ \A kind \in Kinds : <<kind, o.from, o.to>> \in Rows /\ <<kind, o.to, o.from>> \in Rows
      /\ \A type \in EventTypes : <<type, o.from, o.to>> \in Events
  BY <1>f, StatementNames DEF Rows, Events
<1>g. /\ f \in FollowRows /\ q \in RequestRows /\ e \in FollowedEvents
      /\ f \notin RequestRows /\ q \notin FollowRows /\ f # q
      /\ \A kind, a, b : kind \in {"block", "mute"} =>
            <<kind, a, b>> \notin FollowRows \union RequestRows
      /\ \A type, a, b : type # "user.followed" => <<type, a, b>> \notin FollowedEvents
  BY <1>f DEF FollowRows, RequestRows, FollowedEvents
<1>h. SureOf(alone, o.at, f, q, e, o.ins, o.del, o.emit)
  BY <1>f DEF Fresh
<1>i. ASSUME NEW r \in OpenTx, NEW at, NEW ins, NEW del, NEW emit,
             Advances(s, r, at, ins, del, emit), SureOf(alone, at, f, q, e, ins, del, emit)
      PROVE  RequestOrFollow' /\ AllFresh'
  <2>1. Fresh(r)
    BY <1>i DEF Advances, Fresh
  <2> QED
    BY <1>i, <2>1, OwnFresh DEF Advances
<1> HIDE DEF o, f, q, e, seen, alone
<1>1. CASE FollowChecksBlock(s) \/ FollowChecksExisting(s) \/ AcceptChecksBlock(s)
  <2>1. CASE Rollback(s)
    BY <2>1, OwnFresh DEF Rollback
  <2>2. CASE ~ Rollback(s)
    <3>1. PICK stmt \in Statements :
             /\ Go(s, stmt)
             /\ \/ o.at = "follow: blocked?" /\ stmt = "follow: existing?"
                \/ o.at = "follow: existing?" /\ stmt = "commit"
                \/ /\ o.at = "follow: existing?" /\ stmt = "follow: insert"
                   /\ f \notin seen
                \/ o.at = "accept: blocked?" /\ stmt = "accept: insert"
      BY <1>1, <1>a, <1>t, <2>2
         DEF FollowChecksBlock, FollowChecksExisting, AcceptChecksBlock, At, o, Later
    <3>2. PICK r \in OpenTx : Advances(s, r, stmt, o.ins, o.del, o.emit)
      BY <1>o, <3>1, Gone DEF o
    <3>3. SureOf(alone, stmt, f, q, e, o.ins, o.del, o.emit)
      BY <1>h, <3>1 DEF SureOf, seen
    <3> QED
      BY <1>i, <3>2, <3>3
  <2> QED
    BY <2>1, <2>2
<1>2. CASE FollowRequests(s) \/ FollowInserts(s) \/ AcceptInserts(s)
  <2>1. PICK row \in Rows, emitted \in SUBSET Events, stmt \in Statements :
           /\ Insert(s, row, emitted, stmt)
           /\ \/ /\ o.at = "follow: insert" /\ row = q /\ stmt = "commit"
                 /\ emitted \subseteq {<<"follow.requested", o.from, o.to>>}
              \/ /\ o.at = "follow: insert" /\ row = f /\ stmt = "drop request"
                 /\ emitted \subseteq {e}
                 /\ f \in rows => emitted = {}
              \/ /\ o.at = "accept: insert" /\ row = f /\ stmt = "commit"
                 /\ emitted = {e}
    <3>1. f \in Rows /\ q \in Rows
      BY <1>t DEF f, q, Kinds
    <3>2. /\ e \in Events
          /\ <<"follow.requested", o.from, o.to>> \in Events
      BY <1>t DEF EventTypes, e
    <3>3. "commit" \in Statements /\ "drop request" \in Statements
      BY <1>t DEF Later
    <3>4. CASE FollowRequests(s)
      <4>1. /\ o.at = "follow: insert"
            /\ Insert(s, q, IfInserted(q, <<"follow.requested", o.from, o.to>>), "commit")
        BY <1>a, <3>4 DEF FollowRequests, At, o
      <4> QED
        BY <3>1, <3>2, <3>3, <4>1 DEF IfInserted
    <3>5. CASE FollowInserts(s)
      <4>1. /\ o.at = "follow: insert"
            /\ Insert(s, f, IfInserted(f, e), "drop request")
        BY <1>a, <3>5 DEF FollowInserts, At, o, e
      <4> QED
        BY <3>1, <3>2, <3>3, <4>1 DEF IfInserted
    <3>6. CASE AcceptInserts(s)
      <4>1. /\ o.at = "accept: insert"
            /\ Insert(s, f, {e}, "commit")
        BY <1>a, <3>6 DEF AcceptInserts, At, o, e
      <4> QED
        BY <3>1, <3>2, <3>3, <4>1
    <3> QED
      BY <1>2, <3>4, <3>5, <3>6
  <2>2. PICK r \in OpenTx : Advances(s, r, stmt, o.ins \union ({row} \ rows), o.del,
                                    o.emit \union emitted)
    <3>1. Insert(s, row, emitted, stmt)
      BY <2>1
    <3> QED
      BY <1>o, <3>1, Inserted DEF o
  <2> DEFINE Sure == SureOf(alone, stmt, f, q, e, o.ins \union ({row} \ rows), o.del,
                            o.emit \union emitted)
  <2>3. ASSUME row = q /\ o.at = "follow: insert" /\ stmt = "commit"
       PROVE  Sure
    <3>1. emitted \subseteq {<<"follow.requested", o.from, o.to>>}
      BY <1>g, <2>1, <2>3
    <3>2. emitted \intersect FollowedEvents = {}
      BY <1>g, <3>1
    <3>3. alone => f \notin o.ins /\ q \notin o.ins /\ f \notin seen
      BY <1>h, <2>3 DEF SureOf, seen
    <3>4. SureOf(alone, "commit", f, q, e, o.ins \union ({q} \ rows), o.del, o.emit \union emitted)
      BY <1>g, <1>h, <3>2, <3>3 DEF SureOf, seen
    <3> QED
      BY <2>3, <3>4
  <2>4. ASSUME row = f /\ o.at = "follow: insert" /\ stmt = "drop request"
       PROVE  Sure
    <3>1. emitted \subseteq {e} /\ (f \in rows => emitted = {})
      BY <1>g, <2>1, <2>4
    <3>2. alone => f \notin o.ins /\ q \notin o.ins
      BY <1>h, <2>4 DEF SureOf
    <3>3. SureOf(alone, "drop request", f, q, e, o.ins \union ({f} \ rows), o.del,
                 o.emit \union emitted)
      BY <1>g, <1>h, <3>1, <3>2 DEF SureOf
    <3> QED
      BY <2>4, <3>3
  <2>5. ASSUME row = f /\ o.at = "accept: insert" /\ stmt = "commit"
       PROVE  Sure
    <3>1. emitted \subseteq {e}
      BY <1>g, <2>1, <2>5
    <3>2. alone => f \notin o.ins /\ q \notin o.ins /\ f \notin rows /\ q \notin seen
      BY <1>h, <2>5 DEF SureOf, seen
    <3>3. SureOf(alone, "commit", f, q, e, o.ins \union ({f} \ rows), o.del, o.emit \union emitted)
      BY <1>g, <1>h, <3>1, <3>2 DEF SureOf, seen
    <3> QED
      BY <2>5, <3>3
  <2>6. Sure
    BY <2>1, <2>3, <2>4, <2>5
  <2> QED
    BY <1>i, <2>2, <2>6
<1>3. CASE BlockInserts(s) \/ MuteInserts(s)
  <2>1. PICK row \in Rows, emitted \in SUBSET Events, stmt \in Statements :
           /\ Insert(s, row, emitted, stmt)
           /\ o.at \in {"block: insert", "mute: insert"} /\ stmt \in {"block: sever", "commit"}
           /\ row \notin FollowRows \union RequestRows /\ emitted \intersect FollowedEvents = {}
    <3>1. CASE BlockInserts(s)
      <4>1. /\ o.at = "block: insert"
            /\ Insert(s, Block(s), IfInserted(Block(s), <<"user.blocked", o.from, o.to>>), "block: sever")
        BY <1>a, <3>1 DEF BlockInserts, At, o
      <4>2. Block(s) \in Rows /\ Block(s) \notin FollowRows \union RequestRows
        BY <1>a, <1>g, <1>t DEF Kinds
      <4>3. <<"user.blocked", o.from, o.to>> \in Events /\ "block: sever" \in Statements
        BY <1>t DEF EventTypes, Later
      <4>4. <<"user.blocked", o.from, o.to>> \notin FollowedEvents
        BY <1>g
      <4>5. /\ IfInserted(Block(s), <<"user.blocked", o.from, o.to>>) \in SUBSET Events
            /\ IfInserted(Block(s), <<"user.blocked", o.from, o.to>>) \intersect FollowedEvents = {}
        BY <4>3, <4>4 DEF IfInserted
      <4> QED
        BY <4>1, <4>2, <4>3, <4>5
    <3>2. CASE MuteInserts(s)
      <4>1. /\ o.at = "mute: insert"
            /\ Insert(s, Mute(s), IfInserted(Mute(s), <<"user.muted", o.from, o.to>>), "commit")
        BY <1>a, <3>2 DEF MuteInserts, At, o
      <4>2. Mute(s) \in Rows /\ Mute(s) \notin FollowRows \union RequestRows
        BY <1>a, <1>g, <1>t DEF Kinds
      <4>3. <<"user.muted", o.from, o.to>> \in Events /\ "commit" \in Statements
        BY <1>t DEF EventTypes, Later
      <4>4. <<"user.muted", o.from, o.to>> \notin FollowedEvents
        BY <1>g
      <4>5. /\ IfInserted(Mute(s), <<"user.muted", o.from, o.to>>) \in SUBSET Events
            /\ IfInserted(Mute(s), <<"user.muted", o.from, o.to>>) \intersect FollowedEvents = {}
        BY <4>3, <4>4 DEF IfInserted
      <4> QED
        BY <4>1, <4>2, <4>3, <4>5
    <3> QED
      BY <1>3, <3>1, <3>2
  <2>2. PICK r \in OpenTx : Advances(s, r, stmt, o.ins \union ({row} \ rows), o.del,
                                    o.emit \union emitted)
    <3>1. Insert(s, row, emitted, stmt)
      BY <2>1
    <3> QED
      BY <1>o, <3>1, Inserted DEF o
  <2>3. SureOf(alone, stmt, f, q, e, o.ins \union ({row} \ rows), o.del, o.emit \union emitted)
    BY <1>g, <1>h, <2>1 DEF SureOf
  <2> QED
    BY <1>i, <2>2, <2>3
<1>4. CASE DropRequest(s) \/ AcceptTakes(s)
  <2>1. PICK stmt \in Statements :
           /\ Delete(s, {q}, {}, stmt)
           /\ \/ o.at = "drop request" /\ stmt = "commit"
              \/ o.at = "accept: take" /\ stmt = "commit"
              \/ o.at = "accept: take" /\ stmt = "accept: blocked?" /\ q \in rows
    BY <1>4, <1>a, <1>t DEF DropRequest, AcceptTakes, At, o, Later
  <2>2. {q} \in SUBSET Rows
    BY <1>t DEF q, Kinds
  <2>3. PICK r \in OpenTx : Advances(s, r, stmt, o.ins, o.del \union ({q} \intersect rows),
                                    o.emit \union {})
    <3>1. Delete(s, {q}, {}, stmt) /\ {} \in SUBSET Events
      BY <2>1
    <3> QED
      BY <1>o, <2>2, <3>1, Deleted DEF o
  <2>4. SureOf(alone, stmt, f, q, e, o.ins, o.del \union ({q} \intersect rows), o.emit \union {})
    BY <1>f, <1>g, <1>h, <2>1 DEF SureOf
  <2> QED
    BY <1>i, <2>3, <2>4
<1>5. CASE \/ UnfollowDeletes(s) \/ RejectDeletes(s) \/ BlockSevers(s)
           \/ BlockDropsRequests(s) \/ UnblockDeletes(s) \/ UnmuteDeletes(s)
  <2>1. PICK R \in SUBSET Rows, emitted \in SUBSET Events, stmt \in Statements :
           /\ Delete(s, R, emitted, stmt)
           /\ o.at \in {"unfollow: delete", "reject: delete", "block: sever",
                        "block: drop requests", "unblock: delete", "unmute: delete"}
           /\ stmt \in {"drop request", "block: drop requests", "commit"}
           /\ emitted \intersect FollowedEvents = {}
    <3>1. /\ {} \in SUBSET Events
          /\ \A row, type : type \in EventTypes =>
                IfDeleted(row, <<type, o.from, o.to>>) \in SUBSET Events
      BY <1>t DEF IfDeleted
    <3>2. /\ {f, q, Block(s), Mute(s)} \subseteq Rows
          /\ BothWays(s, "follow") \in SUBSET Rows /\ BothWays(s, "request") \in SUBSET Rows
      BY <1>a, <1>t DEF f, q, Kinds
    <3>3. {"drop request", "block: drop requests", "commit"} \subseteq Statements
      BY <1>t DEF Later
    <3>4. /\ "user.unfollowed" \in EventTypes /\ "user.unblocked" \in EventTypes
          /\ "user.unmuted" \in EventTypes
      BY DEF EventTypes
    <3>5. \A row, type : type # "user.followed" =>
             IfDeleted(row, <<type, o.from, o.to>>) \intersect FollowedEvents = {}
      BY <1>g DEF IfDeleted
    <3>6. CASE UnfollowDeletes(s)
      <4>1. /\ o.at = "unfollow: delete"
            /\ Delete(s, {f}, IfDeleted(f, <<"user.unfollowed", o.from, o.to>>), "drop request")
        BY <1>a, <3>6 DEF UnfollowDeletes, At, o
      <4>2. /\ {f} \in SUBSET Rows
            /\ IfDeleted(f, <<"user.unfollowed", o.from, o.to>>) \in SUBSET Events
            /\ IfDeleted(f, <<"user.unfollowed", o.from, o.to>>)
                  \intersect FollowedEvents = {}
        BY <3>1, <3>2, <3>4, <3>5
      <4> QED
        BY <3>3, <4>1, <4>2
    <3>7. CASE RejectDeletes(s)
      <4>1. o.at = "reject: delete" /\ Delete(s, {q}, {}, "commit") /\ {q} \in SUBSET Rows
        BY <1>a, <3>2, <3>7 DEF RejectDeletes, At, o
      <4> QED
        BY <3>1, <3>3, <4>1
    <3>8. CASE BlockSevers(s)
      <4>1. /\ o.at = "block: sever"
            /\ Delete(s, BothWays(s, "follow"), {}, "block: drop requests")
        BY <3>8 DEF BlockSevers, At, o
      <4> QED
        BY <3>1, <3>2, <3>3, <4>1
    <3>9. CASE BlockDropsRequests(s)
      <4>1. /\ o.at = "block: drop requests"
            /\ Delete(s, BothWays(s, "request"), {}, "commit")
        BY <3>9 DEF BlockDropsRequests, At, o
      <4> QED
        BY <3>1, <3>2, <3>3, <4>1
    <3>10. CASE UnblockDeletes(s)
      <4>1. /\ o.at = "unblock: delete" /\ {Block(s)} \in SUBSET Rows
            /\ Delete(s, {Block(s)}, IfDeleted(Block(s), <<"user.unblocked", o.from, o.to>>),
                      "commit")
        BY <1>a, <3>2, <3>10 DEF UnblockDeletes, At, o
      <4>2. /\ IfDeleted(Block(s), <<"user.unblocked", o.from, o.to>>) \in SUBSET Events
            /\ IfDeleted(Block(s), <<"user.unblocked", o.from, o.to>>)
                  \intersect FollowedEvents = {}
        BY <3>1, <3>4, <3>5
      <4> QED
        BY <3>3, <4>1, <4>2
    <3>11. CASE UnmuteDeletes(s)
      <4>1. /\ o.at = "unmute: delete" /\ {Mute(s)} \in SUBSET Rows
            /\ Delete(s, {Mute(s)}, IfDeleted(Mute(s), <<"user.unmuted", o.from, o.to>>),
                      "commit")
        BY <1>a, <3>2, <3>11 DEF UnmuteDeletes, At, o
      <4>2. /\ IfDeleted(Mute(s), <<"user.unmuted", o.from, o.to>>) \in SUBSET Events
            /\ IfDeleted(Mute(s), <<"user.unmuted", o.from, o.to>>)
                  \intersect FollowedEvents = {}
        BY <3>1, <3>4, <3>5
      <4> QED
        BY <3>3, <4>1, <4>2
    <3> QED
      BY <1>5, <3>6, <3>7, <3>8, <3>9, <3>10, <3>11
  <2>2. PICK r \in OpenTx : Advances(s, r, stmt, o.ins, o.del \union (R \intersect rows),
                                    o.emit \union emitted)
    <3>1. Delete(s, R, emitted, stmt)
      BY <2>1
    <3> QED
      BY <1>o, <3>1, Deleted DEF o
  <2>3. SureOf(alone, stmt, f, q, e, o.ins, o.del \union (R \intersect rows), o.emit \union emitted)
    BY <1>g, <1>h, <2>1 DEF SureOf
  <2> QED
    BY <1>i, <2>2, <2>3
<1> QED
  BY <1>1, <1>2, <1>3, <1>4, <1>5 DEF Statement

\* A commit puts a follow or a request where the other is not, and touches no
\* row that another open transaction is about.
LEMMA CommitFresh ==
    ASSUME IInv, Orderly, RequestOrFollow, AllFresh, NEW s \in Sessions, Commit(s)
    PROVE  RequestOrFollow' /\ AllFresh' /\ Transition
<1> DEFINE o == tx[s]
<1>1. /\ Open(s) /\ o.at = "commit" /\ Fresh(o) /\ Careful(s)
      /\ rows' = (rows \ o.del) \union o.ins
      /\ tx' = [tx EXCEPT ![s] = NoTx] /\ raced' = raced
      /\ events' = [e \in Events |-> IF e \in o.emit THEN events[e] + 1 ELSE events[e]]
      /\ o.ins \intersect rows = {}
  BY DEF Commit, At, Seen, AllFresh, Orderly, IInv, Locks
<1>2. \A t \in Sessions : Open(t)' => t # s /\ Open(t) /\ tx'[t] = tx[t]
  BY <1>1, TxReplaced DEF IInv, Open
<1>3. RequestOrFollow'
  <2> SUFFICES ASSUME NEW a \in Users, NEW b \in Users, {a, b} \notin raced,
                      <<"request", a, b>> \in rows', <<"follow", a, b>> \in rows'
               PROVE  FALSE
    BY <1>1 DEF RequestOrFollow
  <2>1. CASE <<"request", a, b>> \in o.ins \/ <<"follow", a, b>> \in o.ins
    <3>1. a = o.from /\ b = o.to
      BY <1>1, <2>1 DEF Fresh, SureOf, FollowRows, RequestRows
    <3> QED
      BY <1>1, <2>1, <3>1 DEF Fresh, SureOf
  <2>2. CASE <<"request", a, b>> \notin o.ins /\ <<"follow", a, b>> \notin o.ins
    BY <1>1, <2>2 DEF RequestOrFollow
  <2> QED
    BY <2>1, <2>2
<1>4. AllFresh'
  <2> SUFFICES ASSUME NEW t \in Sessions, Open(t)' PROVE Fresh(tx[t])'
    BY DEF AllFresh
  <2> DEFINE r == tx[t]
  <2>1. /\ t # s /\ Open(t) /\ tx'[t] = r /\ Fresh(r)
        /\ {From(s), To(s)} # {From(t), To(t)} \/ {From(t), To(t)} \in raced
    BY <1>1, <1>2 DEF AllFresh, Orderly, Apart
  <2>2. {r.from, r.to} \notin raced =>
           \A kind : <<kind, r.from, r.to>> \in rows' <=> <<kind, r.from, r.to>> \in rows
    <3>1. {r.from, r.to} \notin raced => \A kind : <<kind, r.from, r.to>> \notin o.ins \union o.del
      BY <1>1, <2>1 DEF Careful, Writes, OfPair, From, To
    <3> QED
      BY <1>1, <3>1
  <2> DEFINE alone == {r.from, r.to} \notin raced
             f == <<"follow", r.from, r.to>>
             q == <<"request", r.from, r.to>>
             e == <<"user.followed", r.from, r.to>>
  <2>3. SureOf(alone, r.at, f, q, e, r.ins, r.del, r.emit)
    BY <2>1 DEF Fresh
  <2>4. alone => /\ f \in rows' <=> f \in rows
                 /\ q \in rows' <=> q \in rows
    BY <2>2
  <2>5. SureOf(alone, r.at, f, q, e, r.ins, r.del, r.emit)'
    <3>1. /\ UNCHANGED <<r, f, q, e>>
          /\ alone' <=> alone
      BY <1>1, <2>1
    <3> HIDE DEF alone, f, q, e, r
    <3> QED BY <2>3, <2>4, <3>1 DEF SureOf, FollowRows, RequestRows, FollowedEvents
  <2> QED
    BY <2>5 DEF Fresh
<1>5. Transition
  <2> SUFFICES ASSUME NEW a \in Users, NEW b \in Users, {a, b} \notin raced,
                      events'[<<"user.followed", a, b>>] > events[<<"user.followed", a, b>>]
               PROVE  <<"follow", a, b>> \in rows' \ rows
    BY DEF Transition, NewFollowed
  <2>1. <<"user.followed", a, b>> \in Events /\ events[<<"user.followed", a, b>>] \in Nat
    BY DEF Events, EventTypes, IInv, TypeOK
  <2>2. <<"user.followed", a, b>> \in o.emit
    BY <1>1, <2>1
  <2>3. a = o.from /\ b = o.to
    BY <1>1, <2>2 DEF Fresh, SureOf, FollowedEvents
  <2> QED
    BY <1>1, <2>2, <2>3 DEF Fresh, SureOf
<1> QED
  BY <1>3, <1>4, <1>5

\* A new transaction has written nothing yet.
LEMMA BeginFresh ==
    ASSUME IInv, RequestOrFollow, AllFresh, NEW s \in Sessions, NEW op \in DOMAIN First,
           NEW a \in Users, NEW b \in Users, Begin(s, op, a, b)
    PROVE  RequestOrFollow' /\ AllFresh'
<1>1. PICK private \in BOOLEAN :
        tx' = [tx EXCEPT ![s] = [at |-> First[op], from |-> a, to |-> b,
                                 private |-> private, ins |-> {}, del |-> {}, emit |-> {}]]
  BY DEF Begin
<1> DEFINE r == [at |-> First[op], from |-> a, to |-> b, private |-> private,
                 ins |-> {}, del |-> {}, emit |-> {}]
<1>2. /\ r \in OpenTx /\ r.at = First[op]
      /\ r.ins = {} /\ r.emit = {}
  BY StatementNames DEF OpenTx
<1>3. First[op] \notin {"follow: insert", "accept: blocked?", "accept: insert"}
  <2>1. /\ op \in {"follow", "unfollow", "accept", "reject", "block", "unblock",
                  "mute", "unmute"}
        /\ First["follow"] = "follow: blocked?" /\ First["unfollow"] = "unfollow: delete"
        /\ First["accept"] = "accept: take" /\ First["reject"] = "reject: delete"
        /\ First["block"] = "block: insert" /\ First["unblock"] = "unblock: delete"
        /\ First["mute"] = "mute: insert" /\ First["unmute"] = "unmute: delete"
    BY DEF First
  <2> QED
    BY <2>1
<1>4. Fresh(r)
  <2> HIDE DEF r
  <2> QED
    BY <1>2, <1>3 DEF Fresh, SureOf
<1>5. tx' = [tx EXCEPT ![s] = r] /\ UNCHANGED rows /\ raced \subseteq raced'
  BY <1>1 DEF Begin
<1> HIDE DEF r
<1> QED
  BY <1>2, <1>4, <1>5, OwnFresh

\* The cascade takes rows away: what is not there is still not there.
LEMMA CascadeFresh ==
    ASSUME IInv, RequestOrFollow, AllFresh, NEW u \in Users, CascadeDeletes(u)
    PROVE  RequestOrFollow' /\ AllFresh'
<1>1. rows' \subseteq rows /\ UNCHANGED <<tx, raced>>
  BY CascadeTakes
<1>2. ASSUME NEW t \in Sessions, Open(t)' PROVE Fresh(tx[t])'
  <2>1. Fresh(tx[t])
    BY <1>1, <1>2 DEF AllFresh, Open
  <2> QED
    BY <1>1, <2>1 DEF Fresh, SureOf, FollowRows, RequestRows, FollowedEvents
<1> QED
  BY <1>1, <1>2 DEF RequestOrFollow, AllFresh

LEMMA FreshInit == Init => FreshInv
BY DEF Init, FreshInv, RequestOrFollow, AllFresh, Open

\* Only a commit announces.
LEMMA FreshNext ==
    IInv /\ Orderly /\ FreshInv /\ [Next]_vars => FreshInv' /\ Transition
<1> SUFFICES ASSUME IInv, Orderly, RequestOrFollow, AllFresh, [Next]_vars
             PROVE  RequestOrFollow' /\ AllFresh' /\ Transition
  BY DEF FreshInv
<1>1. UNCHANGED events => Transition
  <2>1. \A a, b \in Users : events[<<"user.followed", a, b>>] \in Nat
    BY DEF IInv, TypeOK, Events, EventTypes
  <2>2. UNCHANGED events => \A a, b \in Users : NewFollowed(a, b)
    BY <2>1 DEF NewFollowed
  <2> QED
    BY <2>2 DEF Transition
<1>2. ASSUME NEW s \in Sessions, NEW op \in DOMAIN First,
             NEW a \in Users, NEW b \in Users, Begin(s, op, a, b)
      PROVE  RequestOrFollow' /\ AllFresh' /\ Transition
  BY <1>1, <1>2, BeginFresh DEF Begin
<1>3. ASSUME NEW s \in Sessions, Commit(s)
      PROVE  RequestOrFollow' /\ AllFresh' /\ Transition
  BY <1>3, CommitFresh
<1>4. ASSUME NEW s \in Sessions, Statement(s), ~ Commit(s)
      PROVE  RequestOrFollow' /\ AllFresh' /\ Transition
  <2>1. UNCHANGED events
    BY <1>4 DEF Statement, FollowChecksBlock, FollowChecksExisting,
       FollowRequests, FollowInserts, DropRequest, UnfollowDeletes,
       AcceptTakes, AcceptChecksBlock, AcceptInserts, RejectDeletes,
       BlockInserts, BlockSevers, BlockDropsRequests, UnblockDeletes,
       MuteInserts, UnmuteDeletes, Insert, Delete, Go, Rollback
  <2> QED
    BY <1>1, <1>4, <2>1, StatementFresh
<1>5. ASSUME NEW s \in Sessions, Fails(s)
      PROVE  RequestOrFollow' /\ AllFresh' /\ Transition
  BY <1>1, <1>5, OwnFresh DEF Fails, Rollback
<1>6. CASE UNCHANGED vars
  <2>1. ASSUME NEW t \in Sessions, Open(t)' PROVE Fresh(tx[t])'
    <3>1. Fresh(tx[t]) /\ UNCHANGED <<tx, rows, raced>>
      BY <1>6, <2>1 DEF vars, AllFresh, Open
    <3> QED
      BY <3>1 DEF Fresh, SureOf, FollowRows, RequestRows, FollowedEvents
  <2> QED
    BY <1>1, <1>6, <2>1 DEF vars, RequestOrFollow, AllFresh
<1>7. ASSUME NEW u \in Users, CascadeDeletes(u)
      PROVE  RequestOrFollow' /\ AllFresh' /\ Transition
  <2>1. UNCHANGED events
    BY <1>7 DEF CascadeDeletes
  <2> QED
    BY <1>1, <1>7, <2>1, CascadeFresh
<1> QED
  BY <1>2, <1>3, <1>4, <1>5, <1>6, <1>7 DEF Next, Step

LEMMA FreshAlways == Spec => []FreshInv /\ [][Transition]_vars
<1>1. IInv /\ Orderly /\ FreshInv /\ [Next]_vars => [Transition]_vars
  BY FreshNext
<1> QED
  BY <1>1, InvariantHolds, OrderlyInit, OrderlyNext, FreshInit, FreshNext, PTL DEF Spec

\* On a pair no two transactions were open on at once no request stands beside
\* the follow it asks for: follow drops it, accept takes it first.
THEOREM RequestOrFollowCorrect == Spec => []RequestOrFollow
<1>1. FreshInv => RequestOrFollow
  BY DEF FreshInv
<1> QED
  BY <1>1, FreshAlways, PTL

\* ... and user.followed is committed only with a new edge, although accept
\* appends it without looking at whether its INSERT had an effect.
THEOREM FollowedIsTransitionCorrect == Spec => FollowedIsTransition
BY FreshAlways, PTL DEF FollowedIsTransition, Transition

-----------------------------------------------------------------------------
(***************************************************************************)
(* Proofs about CascadeJobs, for any users, instances, rows and batches.   *)
(*                                                                         *)
(* DoneMeansGone is not inductive: what Count saw must still hold at the   *)
(* UPDATE that closes the job (CloseSawNothing), while other workers       *)
(* delete and users insert.                                                *)
(***************************************************************************)

\* A job in the queue has been processed, so Enqueue never adds a second one.
Queued == \A i \in 1..Len(queue) : queue[i] \in processed

\* A user without a processed event has no job.
Known == \A u \in ErasedUsers : u \notin processed => status[u] = "none"

\* A job that a worker has came from an event.
TakenKnown == \A w \in Workers : ~ Idle(w) => job[w] \in processed

CloseSawNothing ==
    \A w \in Workers :
        ~ Idle(w) /\ job[w] \notin unacked /\ stage[w] = "close"
            => Of(job[w], edges) \subseteq unseen[job[w]]

CascadeInv ==
    /\ CascadeTypeOK /\ Queued /\ Known /\ TakenKnown /\ OneWorkerPerJob
    /\ CloseSawNothing /\ DoneMeansGone

-----------------------------------------------------------------------------
\* The initial state satisfies the invariant.
LEMMA InitIInv == CascadeInit => CascadeInv
<1> SUFFICES ASSUME CascadeInit PROVE CascadeInv
  OBVIOUS
<1> USE CascadeAssumption
<1>1. queue \in Seq(ErasedUsers) /\ \A i, j \in 1..Len(queue) : queue[i] = queue[j] => i = j
  BY DEF CascadeInit
<1>2. CascadeTypeOK
  BY <1>1 DEF CascadeInit, CascadeTypeOK, Statuses, Stages, AtWork, Tables
<1>3. Queued /\ Known /\ TakenKnown /\ OneWorkerPerJob /\ CloseSawNothing /\ DoneMeansGone
  BY DEF CascadeInit, Queued, Known, TakenKnown, OneWorkerPerJob, CloseSawNothing, DoneMeansGone, Idle
<1> QED
  BY <1>2, <1>3 DEF CascadeInv

\* Counting up to a maximum stays below it.
LEMMA PlusTyped ==
    ASSUME NEW max \in Nat, NEW n \in 0..max
    PROVE  Plus(n, max) \in 0..max
BY DEF Plus

\* The queue grows by a user who is not in it.
LEMMA QueueGrows ==
    ASSUME CascadeTypeOK, NEW u \in ErasedUsers, \A i \in 1..Len(queue) : queue[i] # u,
           queue' = Append(queue, u)
    PROVE  /\ queue' \in Seq(ErasedUsers)
           /\ \A i, j \in 1..Len(queue') : queue'[i] = queue'[j] => i = j
<1>1. queue \in Seq(ErasedUsers)
  BY DEF CascadeTypeOK
<1>2. /\ queue' \in Seq(ErasedUsers)
      /\ Len(queue') = Len(queue) + 1
      /\ \A i \in 1..Len(queue) : queue'[i] = queue[i]
      /\ queue'[Len(queue) + 1] = u
  BY <1>1
<1>3. Len(queue) \in Nat
  BY <1>1
<1>4. ASSUME NEW i \in 1..Len(queue'), NEW j \in 1..Len(queue'), queue'[i] = queue'[j]
      PROVE  i = j
  <2>1. CASE i \in 1..Len(queue) /\ j \in 1..Len(queue)
    BY <1>2, <1>4, <2>1 DEF CascadeTypeOK
  <2>2. CASE i = Len(queue) + 1 \/ j = Len(queue) + 1
    BY <1>2, <1>3, <1>4, <2>2
  <2> QED
    BY <1>2, <1>3, <2>1, <2>2
<1> QED
  BY <1>2, <1>4

-----------------------------------------------------------------------------
\* Every step keeps the queue among the processed users.
LEMMA QueuedStep == CascadeTypeOK /\ Queued /\ [CascadeNext]_cascadeVars => Queued'
<1> SUFFICES ASSUME CascadeTypeOK, Queued, [CascadeNext]_cascadeVars PROVE Queued'
  OBVIOUS
<1>1. ASSUME NEW u \in ErasedUsers, Enqueue(u) PROVE Queued'
  <2>1. /\ Len(queue') = Len(queue) + 1
        /\ \A i \in 1..Len(queue) : queue'[i] = queue[i]
        /\ queue'[Len(queue) + 1] = u
        /\ Len(queue) \in Nat
    BY <1>1 DEF CascadeTypeOK, Enqueue
  <2> QED
    BY <1>1, <2>1 DEF Queued, Enqueue
<1>2. CASE UNCHANGED <<queue, processed>>
  BY <1>2 DEF Queued
<1> QED
  BY <1>1, <1>2
     DEF CascadeNext, cascadeVars, jobs, Tick, Claim, DeleteBatch, Count, Close, WorkFails, MarkFailed,
         Reopen, MarkFails, Crash, Leave, InsertLate, Release, CloseJob, CloseUnacked

-----------------------------------------------------------------------------
\* Every step keeps the types.
LEMMA TypeStep == CascadeTypeOK /\ Queued /\ [CascadeNext]_cascadeVars => CascadeTypeOK'
<1> SUFFICES ASSUME CascadeTypeOK, Queued, [CascadeNext]_cascadeVars PROVE CascadeTypeOK'
  OBVIOUS
<1> USE CascadeAssumption
<1>1. ASSUME NEW u \in ErasedUsers, Enqueue(u) PROVE CascadeTypeOK'
  <2>1. \A i \in 1..Len(queue) : queue[i] # u
    BY <1>1 DEF Queued, Enqueue
  <2>2. /\ queue' \in Seq(ErasedUsers)
        /\ \A i, j \in 1..Len(queue') : queue'[i] = queue'[j] => i = j
    BY <1>1, <2>1, QueueGrows DEF Enqueue
  <2> QED
    BY <1>1, <2>2 DEF CascadeTypeOK, Enqueue, Statuses, worker, history
<1>2. ASSUME NEW w \in Workers, Claim(w) PROVE CascadeTypeOK'
  <2>1. PICK i \in 1..Len(queue) :
           /\ status' = [status EXCEPT ![queue[i]] = "running"]
           /\ attempts' = [attempts EXCEPT ![queue[i]] = Plus(attempts[queue[i]], MaxAttempts)]
           /\ job' = [job EXCEPT ![w] = queue[i]]
    BY <1>2 DEF Claim
  <2>2. queue[i] \in ErasedUsers
    BY DEF CascadeTypeOK
  <2>3. Plus(attempts[queue[i]], MaxAttempts) \in 0..MaxAttempts
    BY <2>2, PlusTyped DEF CascadeTypeOK
  <2>4. /\ status' \in [ErasedUsers -> Statuses]
        /\ attempts' \in [ErasedUsers -> 0..MaxAttempts]
        /\ job' \in [Workers -> ErasedUsers \union {NoJob}]
    BY <2>1, <2>2, <2>3 DEF CascadeTypeOK, Statuses
  <2>5. stage' \in [Workers -> Stages] /\ round' \in [Workers -> 1..Rounds]
    BY <1>2 DEF CascadeTypeOK, Claim, Stages, AtWork, Tables
  <2> QED
    BY <1>2, <2>4, <2>5 DEF CascadeTypeOK, Claim, history
<1>3. ASSUME NEW w \in Workers, DeleteBatch(w) PROVE CascadeTypeOK'
  <2>1. edges' \subseteq edges
    BY <1>3 DEF DeleteBatch
  <2>2. After(stage[w]) \in Stages
    BY <1>3 DEF DeleteBatch, After, Stages, AtWork, Tables
  <2>3. round[w] # 1 => round[w] - 1 \in 1..Rounds
    BY DEF CascadeTypeOK
  <2>4. \/ stage' = [stage EXCEPT ![w] = After(stage[w])] /\ round' = [round EXCEPT ![w] = Rounds]
        \/ stage' = stage /\ round[w] # 1 /\ round' = [round EXCEPT ![w] = round[w] - 1]
    BY <1>3 DEF DeleteBatch
  <2>5. stage' \in [Workers -> Stages]
    BY <2>2, <2>4 DEF CascadeTypeOK
  <2>7. round' \in [Workers -> 1..Rounds]
    <3>1. PICK r \in 1..Rounds : round' = [round EXCEPT ![w] = r]
      <4>1. Rounds \in 1..Rounds
        OBVIOUS
      <4> QED
        BY <2>3, <2>4, <4>1
    <3>2. round \in [Workers -> 1..Rounds]
      BY DEF CascadeTypeOK
    <3> QED
      BY <3>1, <3>2
  <2>6. UNCHANGED <<jobs, job, history>>
    BY <1>3 DEF DeleteBatch
  <2> QED
    BY <2>1, <2>5, <2>6, <2>7 DEF CascadeTypeOK, jobs, history
<1>4. ASSUME NEW w \in Workers, Count(w) PROVE CascadeTypeOK'
  <2>1. stage' \in [Workers -> Stages]
    BY <1>4 DEF CascadeTypeOK, Count, Stages, AtWork
  <2>2. unseen' \in [ErasedUsers -> SUBSET Edges]
    BY <1>4 DEF CascadeTypeOK, Count, Idle
  <2> QED
    BY <1>4, <2>1, <2>2 DEF CascadeTypeOK, Count, jobs
<1>5. ASSUME NEW w \in Workers, Close(w) PROVE CascadeTypeOK'
  BY <1>5 DEF CascadeTypeOK, Close, CloseJob, Release, Statuses, history
<1>12. ASSUME NEW w \in Workers, CloseUnacked(w) PROVE CascadeTypeOK'
  <2>1. job[w] \in ErasedUsers
    BY <1>12 DEF CascadeTypeOK, CloseUnacked, CloseJob, Idle
  <2>2. Plus(errors[job[w]], 2) \in 0..2
    BY <2>1, PlusTyped DEF CascadeTypeOK
  <2>3. /\ status' \in [ErasedUsers -> Statuses] /\ stage' \in [Workers -> Stages]
        /\ errors' \in [ErasedUsers -> 0..2] /\ unacked' \subseteq ErasedUsers
    BY <1>12, <2>1, <2>2 DEF CascadeTypeOK, CloseUnacked, CloseJob, Statuses, Stages
  <2> QED
    BY <1>12, <2>3 DEF CascadeTypeOK, CloseUnacked
<1>6. ASSUME NEW w \in Workers, WorkFails(w) PROVE CascadeTypeOK'
  <2>1. job[w] \in ErasedUsers
    BY <1>6 DEF CascadeTypeOK, WorkFails, Idle
  <2>2. Plus(errors[job[w]], 2) \in 0..2
    BY <2>1, PlusTyped DEF CascadeTypeOK
  <2> QED
    BY <1>6, <2>2 DEF CascadeTypeOK, WorkFails, Stages, jobs
<1>7. ASSUME NEW w \in Workers, MarkFailed(w) PROVE CascadeTypeOK'
  <2>1. job[w] \in ErasedUsers
    BY <1>7 DEF CascadeTypeOK, MarkFailed, Idle
  <2>2. Plus(attempts[job[w]], MaxAttempts) \in 0..MaxAttempts
    BY <2>1, PlusTyped DEF CascadeTypeOK
  <2> QED
    BY <1>7, <2>2 DEF CascadeTypeOK, MarkFailed, Statuses, Stages, history
<1>8. ASSUME NEW w \in Workers, Reopen(w) PROVE CascadeTypeOK'
  BY <1>8 DEF CascadeTypeOK, Reopen, Release, Statuses, history
<1>9. ASSUME NEW w \in Workers, MarkFails(w) \/ Crash(w) PROVE CascadeTypeOK'
  <2>1. /\ job' = [job EXCEPT ![w] = NoJob] /\ job[w] # NoJob
        /\ lost' = lost \union {job[w]}
        /\ UNCHANGED <<edges, queue, processed, stage, round>>
        /\ UNCHANGED <<status, attempts, inserted, unseen, errors, unacked>>
    BY <1>9 DEF MarkFails, Crash, Leave, Release, Idle
  <2>2. job[w] \in ErasedUsers
    BY <2>1 DEF CascadeTypeOK
  <2>3. job' \in [Workers -> ErasedUsers \union {NoJob}] /\ lost' \subseteq ErasedUsers
    BY <2>1, <2>2 DEF CascadeTypeOK
  <2> QED
    BY <2>1, <2>3 DEF CascadeTypeOK
<1>10. ASSUME NEW e \in LateEdges, InsertLate(e) PROVE CascadeTypeOK'
  <2>1. unseen' \in [ErasedUsers -> SUBSET Edges]
    BY <1>10 DEF CascadeTypeOK, InsertLate, Of
  <2>2. edges' \subseteq Edges /\ inserted' \subseteq LateEdges
    BY <1>10 DEF CascadeTypeOK, InsertLate
  <2>3. UNCHANGED <<jobs, worker, errors, lost, unacked>>
    BY <1>10 DEF InsertLate
  <2> QED
    BY <2>1, <2>2, <2>3 DEF CascadeTypeOK, jobs, worker
<1>11. CASE UNCHANGED cascadeVars
  BY <1>11 DEF CascadeTypeOK, cascadeVars, jobs, worker, history
<1> QED
  BY <1>1, <1>2, <1>3, <1>4, <1>5, <1>6, <1>7, <1>8, <1>9, <1>10, <1>11, <1>12
     DEF CascadeNext, Tick

-----------------------------------------------------------------------------
\* Every step but Enqueue changes only jobs that exist.
LEMMA KnownStep == CascadeTypeOK /\ Known /\ TakenKnown /\ [CascadeNext]_cascadeVars => Known'
<1> SUFFICES ASSUME CascadeTypeOK, Known, TakenKnown, [CascadeNext]_cascadeVars PROVE Known'
  OBVIOUS
<1>1. ASSUME NEW u \in ErasedUsers, Enqueue(u) PROVE Known'
  BY <1>1 DEF CascadeTypeOK, Known, Enqueue
<1>2. ASSUME NEW w \in Workers, Claim(w) PROVE Known'
  <2>1. PICK i \in 1..Len(queue) :
           status[queue[i]] = "pending" /\ status' = [status EXCEPT ![queue[i]] = "running"]
    BY <1>2 DEF Claim, Claimable
  <2>2. queue[i] \in ErasedUsers /\ processed' = processed
    BY <1>2 DEF CascadeTypeOK, Claim
  <2> QED
    BY <2>1, <2>2 DEF CascadeTypeOK, Known
<1>3. ASSUME NEW w \in Workers, Close(w) \/ CloseUnacked(w) \/ MarkFailed(w) \/ Reopen(w)
      PROVE  Known'
  <2>1. job[w] \in processed
    BY <1>3 DEF TakenKnown, Close, CloseUnacked, CloseJob, MarkFailed, Reopen
  <2>2. \A u \in ErasedUsers : u # job[w] => status'[u] = status[u]
    BY <1>3 DEF CascadeTypeOK, Close, CloseUnacked, CloseJob, MarkFailed, Reopen
  <2>3. processed' = processed
    BY <1>3 DEF Close, CloseUnacked, MarkFailed, Reopen, Release
  <2> QED
    BY <2>1, <2>2, <2>3 DEF Known
<1>4. CASE UNCHANGED <<status, processed>>
  BY <1>4 DEF Known
<1> QED
  BY <1>1, <1>2, <1>3, <1>4
     DEF CascadeNext, Tick, cascadeVars, jobs, DeleteBatch, Count, WorkFails, MarkFails, Crash, Leave, InsertLate,
         Release

\* A worker takes its job from the queue.
LEMMA TakenStep == CascadeTypeOK /\ Queued /\ TakenKnown /\ [CascadeNext]_cascadeVars => TakenKnown'
<1> SUFFICES ASSUME CascadeTypeOK, Queued, TakenKnown, [CascadeNext]_cascadeVars PROVE TakenKnown'
  OBVIOUS
<1>1. ASSUME NEW w \in Workers, Claim(w) PROVE TakenKnown'
  <2>1. PICK i \in 1..Len(queue) : job' = [job EXCEPT ![w] = queue[i]]
    BY <1>1 DEF Claim
  <2>2. queue[i] \in processed /\ processed' = processed
    BY <1>1 DEF Queued, Claim
  <2> QED
    BY <2>1, <2>2 DEF CascadeTypeOK, TakenKnown, Idle
<1>2. ASSUME NEW w \in Workers, Close(w) \/ Reopen(w) \/ MarkFails(w) \/ Crash(w)
      PROVE  TakenKnown'
  <2>1. job' = [job EXCEPT ![w] = NoJob] /\ processed' = processed
    BY <1>2 DEF Close, Reopen, MarkFails, Crash, Leave, Release
  <2> QED
    BY <2>1 DEF CascadeTypeOK, TakenKnown, Idle
<1>3. CASE job' = job /\ processed \subseteq processed'
  BY <1>3 DEF TakenKnown, Idle
<1> QED
  BY <1>1, <1>2, <1>3
     DEF CascadeNext, Tick, cascadeVars, jobs, worker, Enqueue, DeleteBatch, Count, WorkFails,
         CloseUnacked, MarkFailed, InsertLate

-----------------------------------------------------------------------------
\* Every step keeps the jobs of the workers apart: a pending job has no worker.
LEMMA OneWorkerStep ==
    CascadeTypeOK /\ TakenKnown /\ OneWorkerPerJob /\ [CascadeNext]_cascadeVars => OneWorkerPerJob'
<1> SUFFICES ASSUME CascadeTypeOK, TakenKnown, OneWorkerPerJob, [CascadeNext]_cascadeVars
             PROVE  OneWorkerPerJob'
  OBVIOUS
<1> USE CascadeAssumption
<1>1. ASSUME NEW u \in ErasedUsers, Enqueue(u) PROVE OneWorkerPerJob'
  <2>2. \A v \in Workers : job[v] # u
    BY <1>1 DEF Enqueue, TakenKnown, Idle
  <2>3. UNCHANGED <<worker, unacked>> /\ status' = [status EXCEPT ![u] = "pending"]
    BY <1>1 DEF Enqueue, history
  <2> QED
    BY <2>2, <2>3 DEF CascadeTypeOK, OneWorkerPerJob, Idle, worker
<1>2. ASSUME NEW w \in Workers, Claim(w) PROVE OneWorkerPerJob'
  <2>1. PICK i \in 1..Len(queue) :
           /\ status[queue[i]] = "pending"
           /\ status' = [status EXCEPT ![queue[i]] = "running"]
           /\ job' = [job EXCEPT ![w] = queue[i]]
    BY <1>2 DEF Claim, Claimable
  <2>2. queue[i] \in ErasedUsers
    BY DEF CascadeTypeOK
  <2>3. queue[i] \notin unacked => \A v \in Workers : job[v] # queue[i]
    BY <2>1, <2>2 DEF OneWorkerPerJob, Idle
  <2>4. stage' = [stage EXCEPT ![w] = "follows"] /\ unacked' = unacked
    BY <1>2 DEF Claim, history
  <2> QED
    BY <2>1, <2>2, <2>3, <2>4 DEF CascadeTypeOK, OneWorkerPerJob, Idle
<1>3. ASSUME NEW w \in Workers, DeleteBatch(w) PROVE OneWorkerPerJob'
  <2>1. After(stage[w]) # "reopen" /\ stage[w] # "reopen"
    BY <1>3 DEF DeleteBatch, After, Tables
  <2>2. stage' = [stage EXCEPT ![w] = After(stage[w])] \/ stage' = stage
    BY <1>3 DEF DeleteBatch
  <2>3. UNCHANGED <<status, job, unacked>>
    BY <1>3 DEF DeleteBatch, jobs, history
  <2> QED
    BY <2>1, <2>2, <2>3 DEF CascadeTypeOK, OneWorkerPerJob, Idle
<1>4. ASSUME NEW w \in Workers, Count(w) PROVE OneWorkerPerJob'
  BY <1>4 DEF CascadeTypeOK, OneWorkerPerJob, Count, Idle, jobs
<1>5. ASSUME NEW w \in Workers, Close(w) \/ Reopen(w) PROVE OneWorkerPerJob'
  <2>1. \A v \in Workers : v # w /\ ~ Idle(v) /\ job[v] \notin unacked => job[v] # job[w]
    BY <1>5 DEF OneWorkerPerJob
  <2>2. /\ job' = [job EXCEPT ![w] = NoJob]
        /\ stage' = stage /\ unacked' = unacked
        /\ \A u \in ErasedUsers : u # job[w] => status'[u] = status[u]
    BY <1>5 DEF CascadeTypeOK, Close, CloseJob, Reopen, Release, history
  <2> QED
    BY <2>1, <2>2 DEF CascadeTypeOK, OneWorkerPerJob, Idle
<1>11. ASSUME NEW w \in Workers, CloseUnacked(w) PROVE OneWorkerPerJob'
  <2>1. /\ job' = job /\ unacked' = unacked \union {job[w]}
        /\ \A v \in Workers : v # w => stage'[v] = stage[v]
        /\ \A u \in ErasedUsers : u # job[w] => status'[u] = status[u]
    BY <1>11 DEF CascadeTypeOK, CloseUnacked, CloseJob
  <2> QED
    BY <2>1 DEF CascadeTypeOK, OneWorkerPerJob, Idle
<1>6. ASSUME NEW w \in Workers, WorkFails(w) PROVE OneWorkerPerJob'
  BY <1>6 DEF CascadeTypeOK, OneWorkerPerJob, WorkFails, AtWork, Tables, Idle, jobs
<1>7. ASSUME NEW w \in Workers, MarkFailed(w) PROVE OneWorkerPerJob'
  BY <1>7 DEF CascadeTypeOK, OneWorkerPerJob, MarkFailed, Idle, history
<1>8. ASSUME NEW w \in Workers, MarkFails(w) \/ Crash(w) PROVE OneWorkerPerJob'
  BY <1>8 DEF CascadeTypeOK, OneWorkerPerJob, MarkFails, Crash, Leave, Release, Idle
<1>9. ASSUME NEW e \in LateEdges, InsertLate(e) PROVE OneWorkerPerJob'
  BY <1>9 DEF OneWorkerPerJob, InsertLate, Idle, jobs, worker
<1>10. CASE UNCHANGED cascadeVars
  BY <1>10 DEF OneWorkerPerJob, Idle, cascadeVars, jobs, worker, history
<1> QED
  BY <1>1, <1>2, <1>3, <1>4, <1>5, <1>6, <1>7, <1>8, <1>9, <1>10, <1>11 DEF CascadeNext, Tick

-----------------------------------------------------------------------------
\* Every row of u is younger than the last count of its job.
Clean(u) == Of(u, edges) \subseteq unseen[u]

\* Rows that are unseen stay so: no step but the count of the user's own
\* worker empties unseen, and an inserted row is unseen by both its users.
LEMMA CleanStep ==
    ASSUME CascadeTypeOK, [CascadeNext]_cascadeVars, NEW u \in ErasedUsers, Clean(u),
           \A w \in Workers : Count(w) => job[w] # u \/ Of(u, edges) = {}
    PROVE  Clean(u)'
<1>1. ASSUME NEW w \in Workers, DeleteBatch(w) PROVE Clean(u)'
  <2>1. edges' \subseteq edges /\ unseen' = unseen
    BY <1>1 DEF DeleteBatch, history
  <2> QED
    BY <2>1 DEF Clean, Of
<1>2. ASSUME NEW w \in Workers, Count(w) PROVE Clean(u)'
  BY <1>2 DEF CascadeTypeOK, Clean, Of, Count
<1>3. ASSUME NEW e \in LateEdges, InsertLate(e) PROVE Clean(u)'
  BY <1>3 DEF CascadeTypeOK, Clean, Of, InsertLate
<1>4. CASE UNCHANGED <<edges, unseen>>
  BY <1>4 DEF Clean, Of
<1> QED
  BY <1>1, <1>2, <1>3, <1>4
     DEF CascadeNext, Tick, cascadeVars, jobs, worker, history, Enqueue, Claim, Close, WorkFails,
         CloseUnacked, MarkFailed, Reopen, MarkFails, Crash, Leave, Release

\* No step forgets an acknowledgement that was lost.
LEMMA UnackedStays == [CascadeNext]_cascadeVars => unacked \subseteq unacked'
BY DEF CascadeNext, Tick, cascadeVars, history, Enqueue, Claim, DeleteBatch, Count, Close,
       WorkFails, CloseUnacked, MarkFailed, Reopen, MarkFails, Crash, Leave, InsertLate

\* What the count of a worker that will close its job saw stays true.
LEMMA CloseStep ==
    CascadeTypeOK /\ OneWorkerPerJob /\ CloseSawNothing /\ [CascadeNext]_cascadeVars => CloseSawNothing'
<1> SUFFICES ASSUME CascadeTypeOK, OneWorkerPerJob, CloseSawNothing, [CascadeNext]_cascadeVars,
                    NEW w \in Workers, job'[w] # NoJob, job'[w] \notin unacked',
                    stage'[w] = "close"
             PROVE  Of(job'[w], edges') \subseteq unseen'[job'[w]]
  BY DEF CloseSawNothing, Idle
<1> USE CascadeAssumption
<1>0. job'[w] \notin unacked
  BY UnackedStays
<1>1. CASE Count(w)
  <2>1. job[w] \in ErasedUsers /\ job' = job /\ edges' = edges
    BY <1>1 DEF CascadeTypeOK, Count, Idle
  <2>2. Of(job[w], edges) = {}
    BY <1>1 DEF CascadeTypeOK, Count, Remaining
  <2> QED
    BY <2>1, <2>2
<1>2. CASE ~ Count(w)
  <2>1. job'[w] = job[w] /\ stage[w] = "close"
    <3>1. ASSUME NEW v \in Workers, Claim(v) PROVE job'[w] = job[w] /\ stage[w] = "close"
      BY <3>1 DEF CascadeTypeOK, Claim
    <3>2. ASSUME NEW v \in Workers, DeleteBatch(v) PROVE job'[w] = job[w] /\ stage[w] = "close"
      <4>1. stage' = stage \/ stage' = [stage EXCEPT ![v] = After(stage[v])]
        BY <3>2 DEF DeleteBatch
      <4>2. After(stage[v]) # "close"
        BY <3>2 DEF DeleteBatch, After, Tables
      <4> QED
        BY <3>2, <4>1, <4>2 DEF CascadeTypeOK, DeleteBatch
    <3>3. ASSUME NEW v \in Workers, Count(v) PROVE job'[w] = job[w] /\ stage[w] = "close"
      BY <1>2, <3>3 DEF CascadeTypeOK, Count
    <3>4. ASSUME NEW v \in Workers, Close(v) \/ Reopen(v) \/ MarkFails(v) \/ Crash(v)
          PROVE  job'[w] = job[w] /\ stage[w] = "close"
      BY <3>4 DEF CascadeTypeOK, Close, Reopen, MarkFails, Crash, Leave, Release
    <3>5. ASSUME NEW v \in Workers, WorkFails(v) \/ CloseUnacked(v) \/ MarkFailed(v)
          PROVE  job'[w] = job[w] /\ stage[w] = "close"
      BY <3>5 DEF CascadeTypeOK, WorkFails, CloseUnacked, MarkFailed
    <3>6. CASE UNCHANGED worker
      BY <3>6 DEF worker
    <3> QED
      BY <3>1, <3>2, <3>3, <3>4, <3>5, <3>6 DEF CascadeNext, Tick, Enqueue, InsertLate, cascadeVars
  <2>2. job[w] \in ErasedUsers
    BY <2>1 DEF CascadeTypeOK
  <2>3. Clean(job[w])
    BY <1>0, <2>1, <2>2 DEF CloseSawNothing, Idle, Clean
  <2>4. \A v \in Workers : Count(v) => job[v] # job[w]
    BY <1>0, <1>2, <2>1, <2>2 DEF OneWorkerPerJob, Idle
  <2>5. PICK u \in ErasedUsers : u = job[w]
    BY <2>2
  <2>6. Clean(u)'
    BY <2>3, <2>4, <2>5, CleanStep
  <2> QED
    BY <2>1, <2>5, <2>6 DEF Clean
<1> QED
  BY <1>1, <1>2

\* A job is closed only by a worker whose count found nothing.
LEMMA DoneStep ==
    CascadeTypeOK /\ OneWorkerPerJob /\ CloseSawNothing /\ DoneMeansGone /\ [CascadeNext]_cascadeVars
        => DoneMeansGone'
<1> SUFFICES ASSUME CascadeTypeOK, OneWorkerPerJob, CloseSawNothing, DoneMeansGone, [CascadeNext]_cascadeVars,
                    NEW u \in ErasedUsers, status'[u] = "done", u \notin unacked'
             PROVE  Of(u, edges') \subseteq unseen'[u]
  BY DEF DoneMeansGone
<1>0. u \notin unacked
  BY UnackedStays
<1>1. CASE status[u] = "done"
  <2>1. Clean(u)
    BY <1>0, <1>1 DEF DoneMeansGone, Clean
  <2>2. \A w \in Workers : Count(w) => job[w] # u
    BY <1>0, <1>1 DEF OneWorkerPerJob, Count, Idle
  <2>3. Clean(u)'
    BY <2>1, <2>2, CleanStep
  <2> QED
    BY <2>3 DEF Clean
<1>2. CASE status[u] # "done"
  <2>1. PICK w \in Workers : Close(w) /\ stage[w] = "close" /\ job[w] = u
    <3>1. ASSUME NEW v \in ErasedUsers, Enqueue(v) PROVE FALSE
      BY <1>2, <3>1 DEF CascadeTypeOK, Enqueue
    <3>2. ASSUME NEW w \in Workers, Claim(w) PROVE FALSE
      <4>1. PICK i \in 1..Len(queue) : status' = [status EXCEPT ![queue[i]] = "running"]
        BY <3>2 DEF Claim
      <4> QED
        BY <1>2, <4>1 DEF CascadeTypeOK
    <3>3. ASSUME NEW w \in Workers, MarkFailed(w) PROVE FALSE
      BY <1>2, <3>3 DEF CascadeTypeOK, MarkFailed
    <3>4. ASSUME NEW w \in Workers, Reopen(w) PROVE FALSE
      BY <1>2, <3>4 DEF CascadeTypeOK, Reopen
    <3>5. ASSUME NEW w \in Workers, Close(w) PROVE stage[w] = "close" /\ job[w] = u
      BY <1>2, <3>5 DEF CascadeTypeOK, Close, CloseJob
    <3>7. ASSUME NEW w \in Workers, CloseUnacked(w) PROVE FALSE
      BY <1>2, <3>7 DEF CascadeTypeOK, CloseUnacked, CloseJob
    <3>6. status' # status
      BY <1>2
    <3> QED
      BY <3>1, <3>2, <3>3, <3>4, <3>5, <3>6, <3>7
         DEF CascadeNext, Tick, cascadeVars, jobs, DeleteBatch, Count, WorkFails, MarkFails, Crash, Leave, InsertLate
  <2>2. Clean(u)
    BY <1>0, <2>1 DEF CloseSawNothing, Close, CloseJob, Clean
  <2>3. UNCHANGED <<edges, unseen>>
    BY <2>1 DEF Close, Release, history
  <2> QED
    BY <2>2, <2>3 DEF Clean
<1> QED
  BY <1>1, <1>2

-----------------------------------------------------------------------------
\* The invariant is inductive.
THEOREM Invariance == CascadeSpec => []CascadeInv
<1>1. CascadeInv /\ [CascadeNext]_cascadeVars => CascadeInv'
  BY TypeStep, QueuedStep, KnownStep, TakenStep, OneWorkerStep, CloseStep, DoneStep
     DEF CascadeInv
<1> QED
  BY InitIInv, <1>1, PTL DEF CascadeSpec

\* No two instances work on one job, whatever fails and whenever they die, unless
\* the acknowledgement of an UPDATE that closed the job was lost.
THEOREM OneWorkerPerJobCorrect == CascadeSpec => []OneWorkerPerJob
<1>1. CascadeInv => OneWorkerPerJob
  BY DEF CascadeInv
<1> QED
  BY Invariance, <1>1, PTL

\* A closed job has left only rows that came after its last count, under the
\* same condition.
THEOREM DoneMeansGoneCorrect == CascadeSpec => []DoneMeansGone
<1>1. CascadeInv => DoneMeansGone
  BY DEF CascadeInv
<1> QED
  BY Invariance, <1>1, PTL

\* A job that failed and is not lost has no attempts left, or a worker is about
\* to reopen it: two workers of one job reopen it both, or find the attempts
\* used up.
Budgeted ==
    \A u \in ErasedUsers :
        status[u] = "failed" /\ u \notin lost =>
            \/ attempts[u] = MaxAttempts
            \/ \E w \in Workers : job[w] = u /\ stage[w] = "reopen"

LEMMA BudgetStep ==
    CascadeTypeOK /\ Budgeted /\ [CascadeNext]_cascadeVars => Budgeted'
<1> SUFFICES ASSUME CascadeTypeOK, Budgeted, [CascadeNext]_cascadeVars,
                    NEW u \in ErasedUsers, status'[u] = "failed", u \notin lost'
             PROVE  \/ attempts'[u] = MaxAttempts
                    \/ \E w \in Workers : job'[w] = u /\ stage'[w] = "reopen"
  BY DEF Budgeted
<1> USE CascadeAssumption
<1> DEFINE Goal == \/ attempts'[u] = MaxAttempts
                   \/ \E w \in Workers : job'[w] = u /\ stage'[w] = "reopen"
<1>1. CASE /\ status[u] = "failed" /\ u \notin lost /\ attempts'[u] = attempts[u]
           /\ \A w \in Workers : job[w] = u /\ stage[w] = "reopen"
                                   => job'[w] = u /\ stage'[w] = "reopen"
  BY <1>1 DEF Budgeted
<1>2. ASSUME NEW v \in ErasedUsers, Enqueue(v) PROVE Goal
  <2>1. status[u] = "failed"
    BY <1>2 DEF CascadeTypeOK, Enqueue
  <2> QED
    BY <1>1, <1>2, <2>1 DEF Enqueue, worker, history
<1>3. ASSUME NEW w \in Workers, Claim(w) PROVE Goal
  <2>1. PICK i \in 1..Len(queue) :
           /\ status' = [status EXCEPT ![queue[i]] = "running"]
           /\ attempts' = [attempts EXCEPT ![queue[i]] = Plus(attempts[queue[i]], MaxAttempts)]
           /\ job' = [job EXCEPT ![w] = queue[i]]
    BY <1>3 DEF Claim
  <2>2. queue[i] \in ErasedUsers /\ queue[i] # u
    BY <2>1 DEF CascadeTypeOK
  <2>3. status[u] = "failed" /\ attempts'[u] = attempts[u]
    BY <2>1, <2>2 DEF CascadeTypeOK
  <2>4. job[w] # u /\ \A v \in Workers : v # w => job'[v] = job[v] /\ stage'[v] = stage[v]
    BY <1>3, <2>1 DEF CascadeTypeOK, Claim, Idle
  <2> QED
    BY <1>1, <1>3, <2>3, <2>4 DEF Claim, history
<1>4. ASSUME NEW w \in Workers, DeleteBatch(w) \/ Count(w) \/ WorkFails(w) PROVE Goal
  <2>1. /\ stage[w] # "reopen" /\ UNCHANGED <<status, attempts, job, lost>>
        /\ \A v \in Workers : v # w => stage'[v] = stage[v]
    BY <1>4 DEF CascadeTypeOK, DeleteBatch, Count, WorkFails, AtWork, Tables, jobs, history
  <2> QED
    BY <1>1, <2>1
<1>5. ASSUME NEW w \in Workers, Close(w) \/ CloseUnacked(w) \/ Reopen(w) PROVE Goal
  <2>1. /\ job[w] \in ErasedUsers /\ attempts' = attempts /\ lost' = lost
        /\ \A v \in Workers : v # w => job'[v] = job[v] /\ stage'[v] = stage[v]
        /\ \A v \in ErasedUsers : v # job[w] => status'[v] = status[v]
    BY <1>5 DEF CascadeTypeOK, Close, CloseUnacked, CloseJob, Reopen, Release, Idle, history
  <2>2. CASE job[w] = u
    <3>1. Reopen(w) /\ attempts[u] \in 0..MaxAttempts /\ ~ (attempts[u] < MaxAttempts)
      BY <1>5, <2>1, <2>2 DEF CascadeTypeOK, Close, CloseUnacked, CloseJob, Reopen
    <3> QED
      BY <2>1, <3>1
  <2>3. CASE job[w] # u
    BY <1>1, <2>1, <2>3
  <2> QED
    BY <2>2, <2>3
<1>6. ASSUME NEW w \in Workers, MarkFailed(w) PROVE Goal
  <2>1. /\ job' = job /\ lost' = lost
        /\ status' = [status EXCEPT ![job[w]] = "failed"]
        /\ attempts' = [attempts EXCEPT ![job[w]] = Plus(attempts[job[w]], MaxAttempts)]
        /\ stage'[w] = "reopen" /\ \A v \in Workers : v # w => stage'[v] = stage[v]
    BY <1>6 DEF CascadeTypeOK, MarkFailed, history
  <2>2. CASE job[w] = u
    BY <2>1, <2>2
  <2>3. CASE job[w] # u
    BY <1>1, <2>1, <2>3 DEF CascadeTypeOK
  <2> QED
    BY <2>2, <2>3
<1>7. ASSUME NEW w \in Workers, MarkFails(w) \/ Crash(w) PROVE Goal
  <2>1. /\ UNCHANGED <<status, attempts, stage>> /\ job' = [job EXCEPT ![w] = NoJob]
        /\ lost' = lost \union {job[w]}
    BY <1>7 DEF MarkFails, Crash, Leave, Release
  <2>2. \A v \in Workers : job[v] = u => job'[v] = u
    BY <2>1 DEF CascadeTypeOK
  <2> QED
    BY <1>1, <2>1, <2>2
<1>8. ASSUME NEW e \in LateEdges, InsertLate(e) PROVE Goal
  BY <1>1, <1>8 DEF InsertLate, jobs, worker
<1>9. CASE UNCHANGED cascadeVars
  BY <1>1, <1>9 DEF cascadeVars, jobs, worker, history
<1> QED
  BY <1>2, <1>3, <1>4, <1>5, <1>6, <1>7, <1>8, <1>9 DEF CascadeNext, Tick

\* Unless a fault hits the catch block or the process, no job is given up while
\* it has attempts left.
THEOREM GivenUpNeedsBudgetCorrect == CascadeSpec => []GivenUpNeedsBudget
<1>1. CascadeInit => Budgeted
  BY DEF CascadeInit, Budgeted
<1>2. Budgeted => GivenUpNeedsBudget
  BY DEF Budgeted, GivenUpNeedsBudget, Held
<1>3. CascadeInv => CascadeTypeOK
  BY DEF CascadeInv
<1> QED
  BY <1>1, <1>2, <1>3, Invariance, BudgetStep, PTL DEF CascadeSpec
=============================================================================
