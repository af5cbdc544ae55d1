----------------------------- MODULE Posts_proofs -----------------------------
(***************************************************************************)
(* Proofs about Posts, for any number of users, posts, database sessions,  *)
(* replicas and connections and for any batch of the author cascade.       *)
(*                                                                         *)
(* A counter is right because a transaction that moves it knows, when it   *)
(* commits, what it knew when it looked: TxOK says for each kind of        *)
(* transaction what that is, and Disjoint that no two transactions hold    *)
(* one row, one like or one new id, which is what the row locks and the    *)
(* waits for a key give.                                                   *)
(***************************************************************************)
EXTENDS Posts, FiniteSetTheorems, TLAPS

Rest(t) == t.marks = {} /\ t.picked = {}

\* A new row is nobody's yet; a counter it does not move is a deleted post's.
CreateOK(t) ==
    /\ t.at \in {"insert", "count", "commit"} /\ Rest(t) /\ ~t.liked
    /\ t.post \in Ids /\ ~Exists(t.post) /\ t.by \notin gone
    /\ t.row \in Rows /\ t.row.author = t.by /\ t.row.deleted_by = None
    /\ \A c \in Counters : t.row.counts[c] = 0
    /\ t.row.reply_to = None \/ t.row.repost_of = None
    /\ t.to = Target(t.row) /\ (t.at # "commit" => t.to # None)
    /\ t.to # None => Exists(t.to)
    /\ t.row.repost_of # None => posts[t.row.repost_of].repost_of = None
    /\ t.moved => t.at = "commit" /\ t.to # None /\ Live(t.to)
    /\ t.at = "commit" /\ t.to # None /\ ~t.moved => ~Live(t.to)

\* A row that is marked is not deleted by anybody else, and stays as it was.
DeleteOK(t) ==
    /\ t.at \in {"mark", "count", "commit"} /\ t.picked = {} /\ ~t.liked
    /\ t.post \in Ids /\ Exists(t.post) /\ posts[t.post].author = t.by
    /\ IF t.at = "mark" THEN t.marks = {} /\ ~t.moved
       ELSE /\ t.marks = {t.post} /\ Live(t.post)
            /\ t.row \in Rows
            /\ t.row.reply_to = posts[t.post].reply_to
            /\ t.row.repost_of = posts[t.post].repost_of
            /\ t.to = Target(posts[t.post])
            /\ t.at = "count" => t.to # None /\ ~t.moved
            /\ t.at = "commit" => (t.moved <=> t.to # None)

\* A post that is locked for a like is there until the like is.
LikeOK(t) ==
    /\ t.at \in {"lock", "like", "commit"} /\ Rest(t)
    /\ t.post \in Ids /\ Exists(t.post) /\ t.by \in Users
    /\ t.at # "lock" => Live(t.post)
    /\ t.at # "commit" => ~t.liked /\ ~t.moved
    /\ t.at = "commit" => (t.moved <=> t.liked) /\ t.to = t.post
    /\ t.liked => <<t.post, t.by>> \notin likes

UnlikeOK(t) ==
    /\ t.at \in {"unlike", "count", "commit"} /\ Rest(t)
    /\ t.post \in Ids /\ Exists(t.post) /\ t.by \in Users
    /\ t.at = "unlike" => ~t.liked /\ ~t.moved
    /\ t.at = "count" => t.liked /\ ~t.moved
    /\ t.at = "commit" => (t.moved <=> t.liked)
    /\ t.at # "unlike" => t.to = t.post
    /\ t.liked => <<t.post, t.by>> \in likes

Own(u) == {p \in Ids : Exists(p) /\ posts[p].author = u}

\* The cascade has the author's posts that are not deleted, or full batches.
Covers(t, ps) == \A p \in Own(t.by) : Live(p) => p \in ps
CascadeOK(t) ==
    /\ t.at \in {"pick", "commit"} /\ ~t.moved /\ ~t.liked /\ t.by \in gone
    /\ t.marks \subseteq Own(t.by) /\ t.picked \subseteq Own(t.by)
    /\ t.marks \cap t.picked = {} /\ t.rounds \in Nat
    /\ \/ Covers(t, t.marks \union t.picked)
       \/ Cardinality(t.marks \union t.picked)
             >= (IF t.picked = {} THEN t.rounds ELSE t.rounds + 1) * Batch
    /\ t.at = "commit" => /\ t.picked = {}
                          /\ Covers(t, t.marks) \/ Cardinality(t.marks) >= Rounds * Batch

TxOK(t) ==
    \/ t = NoTx
    \/ /\ t \in OpenTx
       /\ \/ t.op = "create" /\ CreateOK(t)
          \/ t.op = "delete" /\ DeleteOK(t)
          \/ t.op = "like" /\ LikeOK(t)
          \/ t.op = "unlike" /\ UnlikeOK(t)
          \/ t.op = "cascade" /\ CascadeOK(t)

\* What a transaction holds, as Holds of its session.
HeldBy(t) ==
    IF t = NoTx THEN {}
    ELSE t.marks \union (IF t.moved THEN {t.to} ELSE {})
             \union (IF t.op = "like" /\ t.at # "lock" THEN {t.post} ELSE {})

\* Two transactions hold no row, write no like and claim no id together.
Disjoint(t, v) ==
    /\ HeldBy(t) \cap HeldBy(v) = {}
    /\ t # NoTx /\ v # NoTx =>
         /\ t.liked /\ v.liked => t.post # v.post \/ t.by # v.by
         /\ t.op = "create" /\ v.op = "create" => t.post # v.post

TxInv == /\ \A s \in Sessions : TxOK(tx[s])
         /\ \A s, v \in Sessions : s # v => Disjoint(tx[s], tx[v])

\* What a row points at is there, and is another post.
Targets ==
    \A p \in Ids : Exists(p) =>
        /\ posts[p].reply_to = None \/ posts[p].repost_of = None
        /\ Target(posts[p]) # None => Exists(Target(posts[p])) /\ Target(posts[p]) # p

\* Likes and mentions are of posts that are there; there are finitely many.
Present ==
    /\ \A l \in likes : Exists(l[1])
    /\ \A p \in Ids : mention[p] # None => Exists(p)
    /\ \A r \in Replicas : \A p \in repair[r].batch : Exists(p)
    /\ IsFiniteSet({p \in Ids : Exists(p)}) /\ IsFiniteSet(likes)

DbInv == /\ Targets /\ RepostsAreOfOriginals /\ Present /\ CountersMatch /\ MentionedOnce
         /\ DeletedIsAnnounced /\ ErasureComplete
IInv == TypeOK /\ TxInv /\ DbInv

-----------------------------------------------------------------------------
(* Rows and transactions.                                                  *)

\* A row is never the absence of one, nor a transaction its absence.
LEMMA RowIsSome == ASSUME NEW row \in Rows PROVE row # NoPost
  <1>1. DOMAIN row = {"author", "reply_to", "repost_of", "pure", "deleted_by", "counts"}
    BY DEF Rows
  <1>2. DOMAIN NoPost = {"author"}
    BY DEF NoPost
  <1> QED BY <1>1, <1>2

LEMMA TxIsSome == ASSUME NEW t \in OpenTx PROVE t # NoTx
  BY DEF OpenTx, NoTx, None

\* What exists is a row.
LEMMA ExistsIsRow ==
  ASSUME TypeOK, NEW p \in Ids PROVE Exists(p) <=> posts[p] \in Rows
  BY RowIsSome DEF TypeOK, Exists

\* Marking a row changes who deleted it, and nothing else.
LEMMA MarkedRow ==
  ASSUME NEW row \in Rows, NEW t
  PROVE  /\ Marked(row, t) \in Rows
         /\ Marked(row, t).author = row.author
         /\ Marked(row, t).reply_to = row.reply_to
         /\ Marked(row, t).repost_of = row.repost_of
         /\ Marked(row, t).counts = row.counts
         /\ Marked(row, t).deleted_by # None
         /\ row.deleted_by # None => Marked(row, t).deleted_by = row.deleted_by
         /\ row.deleted_by = None =>
              Marked(row, t).deleted_by = (IF t.op = "cascade" THEN "erasure" ELSE "author")
  BY DEF Marked, Rows, None

\* Moving a counter changes that counter, and nothing else.
LEMMA CountedRow ==
  ASSUME NEW row \in Rows, NEW c \in Counters, NEW up \in BOOLEAN
  PROVE  LET n == [row EXCEPT !.counts[c] = Clamped(@, up)]
         IN  /\ n \in Rows /\ n.author = row.author /\ n.reply_to = row.reply_to
             /\ n.repost_of = row.repost_of /\ n.deleted_by = row.deleted_by
             /\ \A d \in Counters :
                  n.counts[d] = IF d = c THEN Clamped(row.counts[c], up) ELSE row.counts[d]
  <1>1. row.counts \in [Counters -> Nat]
    BY DEF Rows
  <1>2. Clamped(row.counts[c], up) \in Nat
    BY <1>1 DEF Clamped
  <1>3. [row.counts EXCEPT ![c] = Clamped(@, up)] \in [Counters -> Nat]
    BY <1>1, <1>2
  <1>4. [row EXCEPT !.counts[c] = Clamped(@, up)]
          = [row EXCEPT !.counts = [row.counts EXCEPT ![c] = Clamped(@, up)]]
    BY DEF Rows
  <1> QED BY <1>1, <1>2, <1>3, <1>4 DEF Rows

LEMMA CounterIs == ASSUME NEW t PROVE Counter(t) \in Counters
  BY DEF Counter, Counters

LEMMA FreeIs ==
  ASSUME NEW s \in Sessions, NEW p
  PROVE  Free(s, p) <=> \A v \in Sessions \ {s} : p \notin HeldBy(tx[v])
  BY DEF Free, Holds, HeldBy

LEMMA TxTyped ==
  ASSUME TxInv, NEW s \in Sessions, tx[s] # NoTx PROVE tx[s] \in OpenTx /\ TxOK(tx[s])
  BY DEF TxInv, TxOK

\* A transaction that changes alone, apart from the others, keeps them all.
LEMMA OneTx ==
  ASSUME TypeOK, TxInv, NEW s \in Sessions, NEW t, TxOK(t),
         tx' = [tx EXCEPT ![s] = t], UNCHANGED <<posts, likes, gone>>,
         \A v \in Sessions \ {s} : Disjoint(t, tx[v])
  PROVE  TxInv' /\ tx' \in [Sessions -> OpenTx \union {NoTx}]
  <1>1. tx \in [Sessions -> OpenTx \union {NoTx}]
    BY DEF TypeOK
  <1>2. t \in OpenTx \union {NoTx}
    BY DEF TxOK
  <1>3. \A v \in Sessions : tx'[v] = IF v = s THEN t ELSE tx[v]
    BY <1>1
  <1>4. \A v \in Sessions : TxOK(tx[v])' <=> TxOK(tx'[v])
    BY DEF TxOK, CreateOK, DeleteOK, LikeOK, UnlikeOK, CascadeOK, Exists, Live, Own, Covers
  <1>5. \A v \in Sessions : TxOK(tx'[v])
    BY <1>3 DEF TxInv
  <1>6. \A v \in Sessions \ {s} : Disjoint(tx[v], t)
    BY DEF Disjoint
  <1>7. \A v, w \in Sessions : v # w => Disjoint(tx'[v], tx'[w])
    BY <1>3, <1>6 DEF TxInv
  <1>8. \A v, w \in Sessions : Disjoint(tx[v], tx[w])' <=> Disjoint(tx'[v], tx'[w])
    BY DEF Disjoint, HeldBy
  <1> QED BY <1>1, <1>2, <1>4, <1>5, <1>7, <1>8 DEF TxInv

\* A transaction that ends leaves the others as they were.
LEMMA EndsAlone ==
  ASSUME TypeOK, TxInv, NEW s \in Sessions, Rollback(s), UNCHANGED <<posts, likes, gone>>
  PROVE  TxInv' /\ tx' \in [Sessions -> OpenTx \union {NoTx}]
  <1>1. TxOK(NoTx)
    BY DEF TxOK
  <1>2. \A v \in Sessions \ {s} : Disjoint(NoTx, tx[v])
    BY DEF Disjoint, HeldBy
  <1> QED BY <1>1, <1>2, OneTx DEF Rollback

\* A transaction that begins holds nothing.
LEMMA NewTxIs ==
  ASSUME NEW op \in {"create", "delete", "like", "unlike", "cascade"},
         NEW at \in {"insert", "mark", "lock", "unlike", "pick"},
         NEW u \in Users, NEW p \in Ids \union {None}
  PROVE  LET t == NewTx(op, at, u, p)
         IN  /\ t \in OpenTx /\ t.op = op /\ t.at = at /\ t.by = u /\ t.post = p
             /\ t.marks = {} /\ t.picked = {} /\ ~t.moved /\ ~t.liked /\ t.rounds = 0
  BY DEF NewTx, OpenTx, None

LEMMA HoldsNothing ==
  ASSUME NEW t, NEW v, HeldBy(t) = {}, t # NoTx => ~t.liked,
         t # NoTx /\ v # NoTx => ~(t.op = "create" /\ v.op = "create" /\ t.post = v.post)
  PROVE  Disjoint(t, v)
  BY DEF Disjoint

-----------------------------------------------------------------------------
(* The steps of a transaction before it ends.                              *)

LEMMA BeginStep ==
  ASSUME TypeOK, TxInv, NEW s \in Sessions, NEW u \in Users, NEW p \in Ids,
         Delete(s, u, p) \/ Like(s, u, p) \/ Unlike(s, u, p)
  PROVE  TxInv' /\ tx' \in [Sessions -> OpenTx \union {NoTx}]
  <1> DEFINE td == NewTx("delete", "mark", u, p)
             tl == NewTx("like", "lock", u, p)
             tu == NewTx("unlike", "unlike", u, p)
  <1>0. UNCHANGED <<posts, likes, gone>>
    BY DEF Delete, Like, Unlike, Committed, Elsewhere
  <1>1. CASE Delete(s, u, p)
    <2>1. /\ td \in OpenTx /\ td.op = "delete" /\ td.at = "mark" /\ td.by = u /\ td.post = p
          /\ td.marks = {} /\ td.picked = {} /\ ~td.moved /\ ~td.liked
      BY NewTxIs
    <2>2. Exists(p) /\ posts[p].author = u
      BY <1>1 DEF Delete, Live
    <2>3. TxOK(td)
      BY <2>1, <2>2 DEF TxOK, DeleteOK
    <2>4. \A v \in Sessions \ {s} : Disjoint(td, tx[v])
      BY <2>1, HoldsNothing DEF HeldBy
    <2>5. tx' = [tx EXCEPT ![s] = td]
      BY <1>1 DEF Delete, Begin
    <2> QED BY <1>0, <2>3, <2>4, <2>5, OneTx
  <1>2. CASE Like(s, u, p)
    <2>1. /\ tl \in OpenTx /\ tl.op = "like" /\ tl.at = "lock" /\ tl.by = u /\ tl.post = p
          /\ tl.marks = {} /\ tl.picked = {} /\ ~tl.moved /\ ~tl.liked
      BY NewTxIs
    <2>2. Exists(p)
      BY <1>2 DEF Like, Live
    <2>3. TxOK(tl)
      BY <2>1, <2>2 DEF TxOK, LikeOK, Rest
    <2>4. \A v \in Sessions \ {s} : Disjoint(tl, tx[v])
      BY <2>1, HoldsNothing DEF HeldBy
    <2>5. tx' = [tx EXCEPT ![s] = tl]
      BY <1>2 DEF Like, Begin
    <2> QED BY <1>0, <2>3, <2>4, <2>5, OneTx
  <1>3. CASE Unlike(s, u, p)
    <2>1. /\ tu \in OpenTx /\ tu.op = "unlike" /\ tu.at = "unlike" /\ tu.by = u /\ tu.post = p
          /\ tu.marks = {} /\ tu.picked = {} /\ ~tu.moved /\ ~tu.liked
      BY NewTxIs
    <2>2. Exists(p)
      BY <1>3 DEF Unlike
    <2>3. TxOK(tu)
      BY <2>1, <2>2 DEF TxOK, UnlikeOK, Rest
    <2>4. \A v \in Sessions \ {s} : Disjoint(tu, tx[v])
      BY <2>1, HoldsNothing DEF HeldBy
    <2>5. tx' = [tx EXCEPT ![s] = tu]
      BY <1>3 DEF Unlike, Begin
    <2> QED BY <1>0, <2>3, <2>4, <2>5, OneTx
  <1> QED BY <1>1, <1>2, <1>3

LEMMA BeginCreateStep ==
  ASSUME TypeOK, TxInv, NEW s \in Sessions, NEW u \in Users,
         NEW a \in Ids \union {None}, NEW b \in Ids \union {None}, NEW k \in BOOLEAN,
         NEW m \in {None, "open", "resolved"}, a = None \/ b = None,
         k => b # None, b # None => Exists(b) /\ posts[b].repost_of = None,
         BeginCreate(s, u, NewRow(u, a, b, k), m)
  PROVE  TxInv' /\ tx' \in [Sessions -> OpenTx \union {NoTx}]
  <1> DEFINE row == NewRow(u, a, b, k)
             p == CHOOSE q \in Unused : TRUE
             at == IF row.pure THEN "insert" ELSE AfterRow(row)
             to == Target(row)
             t == [NewTx("create", at, u, p) EXCEPT !.row = row, !.mention = m, !.to = to]
  <1>1. /\ row \in Rows /\ row.author = u /\ row.deleted_by = None
        /\ row.reply_to = a /\ row.repost_of = b /\ row.pure = k
        /\ \A c \in Counters : row.counts[c] = 0
    BY DEF NewRow, Rows
  <1> HIDE DEF row
  <1>2. p \in Unused
    BY DEF BeginCreate
  <1>3. p \in Ids /\ ~Exists(p) /\ \A v \in Sessions : tx[v] # NoTx => tx[v].post # p
    BY <1>2 DEF Unused
  <1>4. tx' = [tx EXCEPT ![s] = t] /\ UNCHANGED <<posts, likes, gone>> /\ u \notin gone
    BY DEF BeginCreate, Begin, Committed, Elsewhere, row
  <1> HIDE DEF p
  <1>5. to \in Ids \union {None} /\ (to # None => Exists(to)) /\ to = Target(row)
    <2>1. a # None => Exists(a)
      BY <1>1 DEF BeginCreate, row
    <2> QED BY <1>1, <2>1 DEF Target
  <1>6. at \in {"insert", "count", "commit"} /\ (to = None <=> at = "commit")
        /\ (at = "count" => to # None)
    BY <1>1 DEF AfterRow, Target
  <1> HIDE DEF at, to
  <1>7. /\ t \in OpenTx /\ t.op = "create" /\ t.at = at /\ t.by = u /\ t.post = p
        /\ t.row = row /\ t.to = to
        /\ t.marks = {} /\ t.picked = {} /\ ~t.moved /\ ~t.liked
    <2> HIDE DEF t
    <2>1. row \in Rows /\ p \in Ids /\ to \in Ids \union {None} /\ at \in {"insert", "count", "commit"}
      BY <1>1, <1>3, <1>5, <1>6
    <2>2. t = [NewTx("create", at, u, p) EXCEPT !.row = row, !.mention = m, !.to = to]
      BY DEF t
    <2> QED BY <2>1, <2>2 DEF NewTx, OpenTx, None
  <1> HIDE DEF t
  <1>8. TxOK(t)
    <2>1. CreateOK(t)
      BY <1>1, <1>3, <1>4, <1>5, <1>6, <1>7 DEF CreateOK, Rest
    <2> QED BY <2>1, <1>7 DEF TxOK
  <1>9. \A v \in Sessions \ {s} : Disjoint(t, tx[v])
    <2>1. HeldBy(t) = {}
      BY <1>7 DEF HeldBy
    <2> QED BY <2>1, <1>3, <1>7, HoldsNothing
  <1> QED BY <1>4, <1>8, <1>9, OneTx

LEMMA CreateStep ==
  ASSUME TypeOK, TxInv, Targets, RepostsAreOfOriginals,
         NEW s \in Sessions, NEW u \in Users, Create(s, u)
  PROVE  TxInv' /\ tx' \in [Sessions -> OpenTx \union {NoTx}]
  <1>1. CASE \E m \in {None, "open", "resolved"} :
                BeginCreate(s, u, NewRow(u, None, None, FALSE), m)
    <2>1. PICK m \in {None, "open", "resolved"} :
                BeginCreate(s, u, NewRow(u, None, None, FALSE), m)
      BY <1>1
    <2> QED BY <2>1, BeginCreateStep
  <1>2. CASE \E q \in Ids : BeginCreate(s, u, NewRow(u, q, None, FALSE), None)
    <2>1. PICK q \in Ids : BeginCreate(s, u, NewRow(u, q, None, FALSE), None)
      BY <1>2
    <2> QED BY <2>1, BeginCreateStep
  <1>3. CASE \E q \in Ids, pure \in BOOLEAN :
                Live(q) /\ BeginCreate(s, u, NewRow(u, None, Resolve(q), pure), None)
    <2>1. PICK q \in Ids, pure \in BOOLEAN :
                Live(q) /\ BeginCreate(s, u, NewRow(u, None, Resolve(q), pure), None)
      BY <1>3
    <2>2. Exists(q) /\ posts[q] \in Rows
      BY <2>1, ExistsIsRow DEF Live
    <2>3. Resolve(q) \in Ids /\ Exists(Resolve(q)) /\ posts[Resolve(q)].repost_of = None
      <3>1. CASE posts[q].repost_of = None
        BY <2>2, <3>1 DEF Resolve
      <3>2. CASE posts[q].repost_of # None
        <4>1. Target(posts[q]) = posts[q].repost_of
          BY <2>2, <3>2 DEF Targets, Target
        <4>2. posts[q].repost_of \in Ids
          BY <2>2, <3>2 DEF Rows
        <4> QED BY <2>2, <3>2, <4>1, <4>2 DEF Resolve, Targets, RepostsAreOfOriginals
      <3> QED BY <3>1, <3>2
    <2>4. Resolve(q) # None
      BY <2>3, PostsAssumption DEF None
    <2> QED BY <2>1, <2>3, <2>4, BeginCreateStep
  <1> QED BY <1>1, <1>2, <1>3 DEF Create

\* A transaction that goes on may hold one more row, if it was free, and a
\* like, if nobody else writes it.
LEMMA HoldsMore ==
  ASSUME NEW t, NEW w, NEW v, NEW p, Disjoint(t, v), t # NoTx, w # NoTx,
         w.op = t.op, w.post = t.post, w.by = t.by,
         HeldBy(w) \subseteq HeldBy(t) \union {p}, p \notin HeldBy(v),
         w.liked /\ ~t.liked /\ v # NoTx => ~(v.liked /\ v.post = t.post /\ v.by = t.by)
  PROVE  Disjoint(w, v)
  BY DEF Disjoint

LEMMA GoOn ==
  ASSUME TypeOK, TxInv, NEW s \in Sessions, NEW w, tx[s] # NoTx, w # NoTx, TxOK(w),
         w.op = tx[s].op, w.post = tx[s].post, w.by = tx[s].by,
         tx' = [tx EXCEPT ![s] = w], UNCHANGED <<posts, likes, gone>>,
         w.liked /\ ~tx[s].liked => LikeFree(s, tx[s].post, tx[s].by),
         HeldBy(w) \subseteq HeldBy(tx[s])
           \/ \E p : Free(s, p) /\ HeldBy(w) \subseteq HeldBy(tx[s]) \union {p}
  PROVE  TxInv' /\ tx' \in [Sessions -> OpenTx \union {NoTx}]
  <1>1. ASSUME NEW v \in Sessions \ {s} PROVE Disjoint(w, tx[v])
    <2>1. Disjoint(tx[s], tx[v])
      BY DEF TxInv
    <2>2. w.liked /\ ~tx[s].liked /\ tx[v] # NoTx =>
            ~(tx[v].liked /\ tx[v].post = tx[s].post /\ tx[v].by = tx[s].by)
      BY DEF LikeFree, Others
    <2>3. CASE HeldBy(w) \subseteq HeldBy(tx[s])
      BY <2>1, <2>2, <2>3 DEF Disjoint
    <2>4. CASE \E p : Free(s, p) /\ HeldBy(w) \subseteq HeldBy(tx[s]) \union {p}
      <3>1. PICK p : Free(s, p) /\ HeldBy(w) \subseteq HeldBy(tx[s]) \union {p}
        BY <2>4
      <3>2. p \notin HeldBy(tx[v])
        BY <3>1, FreeIs
      <3> QED BY <2>1, <2>2, <3>1, <3>2, HoldsMore
    <2> QED BY <2>3, <2>4
  <1> QED BY <1>1, OneTx

LEMMA InsertStep ==
  ASSUME TypeOK, TxInv, NEW s \in Sessions, Insert(s)
  PROVE  TxInv' /\ tx' \in [Sessions -> OpenTx \union {NoTx}]
  <1> DEFINE t == tx[s]
             w == [t EXCEPT !.at = "count"]
  <1>1. t # NoTx /\ t.at = "insert" /\ UNCHANGED <<posts, likes, gone>>
    BY DEF Insert, Committed, Elsewhere
  <1>2. t \in OpenTx /\ TxOK(t)
    BY <1>1, TxTyped
  <1>3. t.op = "create" /\ CreateOK(t)
    BY <1>1, <1>2 DEF TxOK, DeleteOK, LikeOK, UnlikeOK, CascadeOK
  <1>4. CASE Rollback(s)
    BY <1>1, <1>4, EndsAlone
  <1>5. CASE Go(s, "count")
    <2>1. tx' = [tx EXCEPT ![s] = w]
      BY <1>5 DEF Go
    <2>2. /\ w \in OpenTx /\ w.op = t.op /\ w.at = "count" /\ w.by = t.by /\ w.post = t.post
          /\ w.row = t.row /\ w.to = t.to /\ w.moved = t.moved /\ w.liked = t.liked
          /\ w.marks = t.marks /\ w.picked = t.picked
      BY <1>2 DEF OpenTx
    <2>3. CreateOK(w)
      BY <1>1, <1>3, <2>2 DEF CreateOK, Rest
    <2>4. TxOK(w) /\ w # NoTx
      BY <1>3, <2>2, <2>3, TxIsSome DEF TxOK
    <2>5. HeldBy(w) \subseteq HeldBy(t)
      BY <1>1, <1>3, <2>2, <2>4 DEF HeldBy
    <2> HIDE DEF w
    <2> QED BY <1>1, <2>1, <2>2, <2>4, <2>5, GoOn
  <1> QED BY <1>4, <1>5 DEF Insert

LEMMA CountStep ==
  ASSUME TypeOK, TxInv, NEW s \in Sessions, Count(s)
  PROVE  TxInv' /\ tx' \in [Sessions -> OpenTx \union {NoTx}]
  <1> DEFINE t == tx[s]
             m == t.op = "create" => Live(t.to)
             w == [t EXCEPT !.at = "commit", !.moved = m]
  <1>1. t # NoTx /\ t.at = "count" /\ Free(s, t.to) /\ UNCHANGED <<posts, likes, gone>>
    BY DEF Count, Committed, Elsewhere
  <1>2. t \in OpenTx /\ TxOK(t)
    BY <1>1, TxTyped
  <1>3. tx' = [tx EXCEPT ![s] = w]
    BY DEF Count
  <1>4. m \in BOOLEAN /\ (t.op # "create" => m) /\ (t.op = "create" => (m <=> Live(t.to)))
    BY DEF Live, Exists
  <1> HIDE DEF m
  <1>5. /\ w \in OpenTx /\ w.op = t.op /\ w.at = "commit" /\ w.by = t.by /\ w.post = t.post
        /\ w.row = t.row /\ w.to = t.to /\ (w.moved <=> m) /\ w.liked = t.liked
        /\ w.marks = t.marks /\ w.picked = t.picked
    BY <1>2, <1>4 DEF OpenTx
  <1> HIDE DEF w
  <1>6. TxOK(w)
    <2>1. CASE t.op = "create"
      <3>1. CreateOK(t)
        BY <1>1, <1>2, <2>1 DEF TxOK
      <3>2. CreateOK(w)
        BY <1>1, <1>4, <1>5, <2>1, <3>1 DEF CreateOK, Rest
      <3> QED BY <1>5, <2>1, <3>2 DEF TxOK
    <2>2. CASE t.op = "delete"
      <3>1. DeleteOK(t)
        BY <1>1, <1>2, <2>2 DEF TxOK
      <3>2. DeleteOK(w)
        BY <1>1, <1>4, <1>5, <2>2, <3>1 DEF DeleteOK
      <3> QED BY <1>5, <2>2, <3>2 DEF TxOK
    <2>3. CASE t.op = "unlike"
      <3>1. UnlikeOK(t)
        BY <1>1, <1>2, <2>3 DEF TxOK
      <3>2. UnlikeOK(w)
        BY <1>1, <1>4, <1>5, <2>3, <3>1 DEF UnlikeOK, Rest
      <3> QED BY <1>5, <2>3, <3>2 DEF TxOK
    <2> QED BY <1>1, <1>2, <2>1, <2>2, <2>3 DEF TxOK, LikeOK, CascadeOK
  <1>7. HeldBy(w) \subseteq HeldBy(t) \union {t.to} /\ w # NoTx
    <2>1. t.op # "like"
      BY <1>1, <1>2 DEF TxOK, LikeOK
    <2>2. w # NoTx
      BY <1>5, TxIsSome
    <2> QED BY <1>1, <1>5, <2>1, <2>2 DEF HeldBy
  <1> QED BY <1>1, <1>3, <1>5, <1>6, <1>7, GoOn

LEMMA MarkStep ==
  ASSUME TypeOK, TxInv, Targets, NEW s \in Sessions, Mark(s)
  PROVE  TxInv' /\ tx' \in [Sessions -> OpenTx \union {NoTx}]
  <1> DEFINE t == tx[s]
             p == t.post
             w == [t EXCEPT !.at = AfterRow(posts[p]), !.marks = {p}, !.row = posts[p],
                            !.to = Target(posts[p])]
  <1>1. t # NoTx /\ t.at = "mark" /\ Free(s, p) /\ UNCHANGED <<posts, likes, gone>>
    BY DEF Mark, Committed, Elsewhere
  <1>2. t \in OpenTx /\ TxOK(t)
    BY <1>1, TxTyped
  <1>3. t.op = "delete" /\ DeleteOK(t)
    BY <1>1, <1>2 DEF TxOK, CreateOK, LikeOK, UnlikeOK, CascadeOK
  <1>4. CASE ~Live(p)
    BY <1>1, <1>4, EndsAlone DEF Mark
  <1>5. CASE Live(p)
    <2>1. tx' = [tx EXCEPT ![s] = w]
      BY <1>5 DEF Mark
    <2>2. p \in Ids /\ posts[p] \in Rows
      BY <1>3, ExistsIsRow DEF DeleteOK
    <2>3. Target(posts[p]) \in Ids \union {None}
      BY <2>2 DEF Target, Rows
    <2>4. /\ AfterRow(posts[p]) \in {"commit", "count"}
          /\ AfterRow(posts[p]) = "commit" <=> Target(posts[p]) = None
      BY DEF AfterRow
    <2>5. /\ w \in OpenTx /\ w.op = t.op /\ w.at = AfterRow(posts[p]) /\ w.by = t.by
          /\ w.post = p /\ w.row = posts[p] /\ w.to = Target(posts[p]) /\ w.moved = t.moved
          /\ w.liked = t.liked /\ w.marks = {p} /\ w.picked = t.picked
      BY <1>2, <2>2, <2>3, <2>4 DEF OpenTx
    <2> HIDE DEF w
    <2>6. DeleteOK(w)
      BY <1>1, <1>3, <1>5, <2>2, <2>4, <2>5 DEF DeleteOK
    <2>7. TxOK(w) /\ w # NoTx
      BY <1>3, <2>5, <2>6, TxIsSome DEF TxOK
    <2>8. HeldBy(w) \subseteq HeldBy(t) \union {p}
      BY <1>1, <1>3, <2>5, <2>7 DEF HeldBy, DeleteOK
    <2>9. ~w.liked
      BY <2>6 DEF DeleteOK
    <2> QED BY <1>1, <2>1, <2>5, <2>7, <2>8, <2>9, GoOn
  <1> QED BY <1>4, <1>5

LEMMA LockStep ==
  ASSUME TypeOK, TxInv, NEW s \in Sessions, Lock(s)
  PROVE  TxInv' /\ tx' \in [Sessions -> OpenTx \union {NoTx}]
  <1> DEFINE t == tx[s]
             w == [t EXCEPT !.at = "like"]
  <1>1. t # NoTx /\ t.at = "lock" /\ Free(s, t.post) /\ UNCHANGED <<posts, likes, gone>>
    BY DEF Lock, Committed, Elsewhere
  <1>2. t \in OpenTx /\ TxOK(t)
    BY <1>1, TxTyped
  <1>3. t.op = "like" /\ LikeOK(t)
    BY <1>1, <1>2 DEF TxOK, CreateOK, DeleteOK, UnlikeOK, CascadeOK
  <1>4. CASE ~Live(t.post)
    BY <1>1, <1>4, EndsAlone DEF Lock
  <1>5. CASE Live(t.post)
    <2>1. tx' = [tx EXCEPT ![s] = w]
      BY <1>5 DEF Lock, Go
    <2>2. /\ w \in OpenTx /\ w.op = t.op /\ w.at = "like" /\ w.by = t.by /\ w.post = t.post
          /\ w.to = t.to /\ w.moved = t.moved /\ w.liked = t.liked
          /\ w.marks = t.marks /\ w.picked = t.picked
      BY <1>2 DEF OpenTx
    <2> HIDE DEF w
    <2>3. LikeOK(w)
      BY <1>1, <1>3, <1>5, <2>2 DEF LikeOK, Rest
    <2>4. TxOK(w) /\ w # NoTx
      BY <1>3, <2>2, <2>3, TxIsSome DEF TxOK
    <2>5. HeldBy(w) \subseteq HeldBy(t) \union {t.post}
      BY <1>1, <1>3, <2>2, <2>4 DEF HeldBy
    <2> QED BY <1>1, <2>1, <2>2, <2>4, <2>5, GoOn
  <1> QED BY <1>4, <1>5

LEMMA InsertLikeStep ==
  ASSUME TypeOK, TxInv, NEW s \in Sessions, InsertLike(s)
  PROVE  TxInv' /\ tx' \in [Sessions -> OpenTx \union {NoTx}]
  <1> DEFINE t == tx[s]
             new == <<t.post, t.by>> \notin likes
             w == [t EXCEPT !.at = "commit", !.liked = new, !.to = t.post, !.moved = new]
  <1>1. /\ t # NoTx /\ t.at = "like" /\ LikeFree(s, t.post, t.by)
        /\ UNCHANGED <<posts, likes, gone>> /\ tx' = [tx EXCEPT ![s] = w]
    BY DEF InsertLike, Committed, Elsewhere
  <1>2. t \in OpenTx /\ TxOK(t)
    BY <1>1, TxTyped
  <1>3. t.op = "like" /\ LikeOK(t)
    BY <1>1, <1>2 DEF TxOK, CreateOK, DeleteOK, UnlikeOK, CascadeOK
  <1>4. new \in BOOLEAN /\ t.post \in Ids /\ (new <=> <<t.post, t.by>> \notin likes)
    BY <1>3 DEF LikeOK
  <1> HIDE DEF new
  <1>5. /\ w \in OpenTx /\ w.op = t.op /\ w.at = "commit" /\ w.by = t.by /\ w.post = t.post
        /\ w.to = t.post /\ w.moved = new /\ w.liked = new
        /\ w.marks = t.marks /\ w.picked = t.picked
    BY <1>2, <1>4 DEF OpenTx
  <1> HIDE DEF w
  <1>6. LikeOK(w)
    BY <1>1, <1>3, <1>4, <1>5 DEF LikeOK, Rest
  <1>7. TxOK(w) /\ w # NoTx
    BY <1>3, <1>5, <1>6, TxIsSome DEF TxOK
  <1>8. HeldBy(w) \subseteq HeldBy(t)
    BY <1>1, <1>3, <1>5, <1>7 DEF HeldBy
  <1> QED BY <1>1, <1>5, <1>7, <1>8, GoOn

LEMMA DeleteLikeStep ==
  ASSUME TypeOK, TxInv, NEW s \in Sessions, DeleteLike(s)
  PROVE  TxInv' /\ tx' \in [Sessions -> OpenTx \union {NoTx}]
  <1> DEFINE t == tx[s]
             old == <<t.post, t.by>> \in likes
             at == IF old THEN "count" ELSE "commit"
             w == [t EXCEPT !.at = at, !.liked = old, !.to = t.post]
  <1>1. /\ t # NoTx /\ t.at = "unlike" /\ (old => LikeFree(s, t.post, t.by))
        /\ UNCHANGED <<posts, likes, gone>> /\ tx' = [tx EXCEPT ![s] = w]
    BY DEF DeleteLike, Committed, Elsewhere
  <1>2. t \in OpenTx /\ TxOK(t)
    BY <1>1, TxTyped
  <1>3. t.op = "unlike" /\ UnlikeOK(t)
    BY <1>1, <1>2 DEF TxOK, CreateOK, DeleteOK, LikeOK, CascadeOK
  <1>4. /\ old \in BOOLEAN /\ t.post \in Ids /\ (old <=> <<t.post, t.by>> \in likes)
        /\ at \in {"count", "commit"} /\ (at = "count" <=> old)
    BY <1>3 DEF UnlikeOK
  <1> HIDE DEF old, at
  <1>5. /\ w \in OpenTx /\ w.op = t.op /\ w.at = at /\ w.by = t.by /\ w.post = t.post
        /\ w.to = t.post /\ w.moved = t.moved /\ w.liked = old
        /\ w.marks = t.marks /\ w.picked = t.picked
    BY <1>2, <1>4 DEF OpenTx
  <1> HIDE DEF w
  <1>6. UnlikeOK(w)
    BY <1>1, <1>3, <1>4, <1>5 DEF UnlikeOK, Rest
  <1>7. TxOK(w) /\ w # NoTx
    BY <1>3, <1>5, <1>6, TxIsSome DEF TxOK
  <1>8. HeldBy(w) \subseteq HeldBy(t)
    BY <1>1, <1>3, <1>5, <1>7 DEF HeldBy, UnlikeOK
  <1> QED BY <1>1, <1>5, <1>7, <1>8, GoOn

-----------------------------------------------------------------------------
(* The author cascade.                                                     *)

\* Whatever an author wrote is finite.
LEMMA OwnFinite == ASSUME Present, NEW u PROVE IsFiniteSet(Own(u))
  <1>1. Own(u) \subseteq {p \in Ids : Exists(p)}
    BY DEF Own
  <1> QED BY <1>1, FS_Subset DEF Present

\* A batch is all that is left, or Batch more.
LEMMA PickedCovers ==
  ASSUME TypeOK, Present, NEW t, CascadeOK(t), t.at = "pick", t.picked = {},
         NEW left, left = {p \in Ids : Live(p) /\ posts[p].author = t.by} \ t.marks,
         left # {}, NEW b \in SUBSET left,
         Cardinality(b) = IF Cardinality(left) < Batch THEN Cardinality(left) ELSE Batch
  PROVE  /\ b \subseteq Own(t.by) /\ t.marks \cap b = {}
         /\ \/ Covers(t, t.marks \union b)
            \/ Cardinality(t.marks \union b) >= (IF b = {} THEN t.rounds ELSE t.rounds + 1) * Batch
  <1>1. left \subseteq Own(t.by) /\ t.marks \subseteq Own(t.by) /\ t.rounds \in Nat
    BY DEF Own, Live, CascadeOK
  <1>2. b \subseteq Own(t.by) /\ t.marks \cap b = {}
    BY <1>1
  <1>3. IsFiniteSet(left) /\ IsFiniteSet(b) /\ IsFiniteSet(t.marks)
    BY <1>1, <1>2, OwnFinite, FS_Subset
  <1>4. /\ Cardinality(left) \in Nat /\ Cardinality(b) \in Nat /\ Cardinality(t.marks) \in Nat
        /\ Batch \in Nat
    BY <1>3, FS_CardinalityType, PostsAssumption
  <1>5. CASE Cardinality(left) < Batch
    <2>1. b = left
      BY <1>3, <1>5, FS_Subset
    <2>2. \A p \in Own(t.by) : Live(p) => p \in t.marks \union left
      BY DEF Own
    <2> QED BY <1>2, <2>1, <2>2 DEF Covers
  <1>6. CASE ~(Cardinality(left) < Batch)
    <2>1. Cardinality(b) = Batch
      BY <1>6
    <2>2. Cardinality(t.marks \union b) = Cardinality(t.marks) + Batch
      <3>1. Cardinality(t.marks \cap b) = 0
        BY <1>2, FS_EmptySet
      <3>2. Cardinality(t.marks \union b)
              = Cardinality(t.marks) + Cardinality(b) - Cardinality(t.marks \cap b)
        BY <1>3, FS_Union
      <3> QED BY <1>4, <2>1, <3>1, <3>2
    <2>3. ~Covers(t, t.marks)
      BY DEF Covers, Own, Live
    <2>4. Cardinality(t.marks) >= t.rounds * Batch
      <3>1. t.marks \union t.picked = t.marks
        OBVIOUS
      <3> QED BY <2>3, <3>1 DEF CascadeOK
    <2>5. (t.rounds + 1) * Batch = t.rounds * Batch + Batch /\ t.rounds * Batch \in Nat
      BY <1>1, <1>4
    <2>6. Cardinality(t.marks \union b) >= (t.rounds + 1) * Batch
      BY <1>4, <2>2, <2>4, <2>5
    <2>7. Cardinality(t.marks \union b) >= t.rounds * Batch
      BY <1>4, <2>2, <2>4, <2>5
    <2> QED BY <1>2, <2>6, <2>7
  <1> QED BY <1>5, <1>6

LEMMA PickStep ==
  ASSUME TypeOK, TxInv, Present, NEW s \in Sessions, Pick(s)
  PROVE  TxInv' /\ tx' \in [Sessions -> OpenTx \union {NoTx}]
  <1> DEFINE t == tx[s]
             left == {p \in Ids : Live(p) /\ posts[p].author = t.by} \ t.marks
             g == [t EXCEPT !.at = "commit"]
  <1>1. /\ t # NoTx /\ t.at = "pick" /\ t.picked = {}
        /\ UNCHANGED <<posts, likes, gone>>
    BY DEF Pick, Committed, Elsewhere
  <1>2. t \in OpenTx /\ TxOK(t)
    BY <1>1, TxTyped
  <1>3. t.op = "cascade" /\ CascadeOK(t)
    BY <1>1, <1>2 DEF TxOK, CreateOK, DeleteOK, LikeOK, UnlikeOK
  <1>4. CASE (left = {} \/ t.rounds = Rounds) /\ tx' = [tx EXCEPT ![s] = g]
    <2>1. /\ g \in OpenTx /\ g.op = t.op /\ g.at = "commit" /\ g.by = t.by /\ g.post = t.post
          /\ g.to = t.to /\ g.moved = t.moved /\ g.liked = t.liked
          /\ g.marks = t.marks /\ g.picked = t.picked /\ g.rounds = t.rounds
      BY <1>2 DEF OpenTx
    <2>2. t.marks \union t.picked = t.marks /\ g.marks \union g.picked = g.marks
      BY <1>1, <2>1
    <2>3. Covers(t, t.marks) \/ Cardinality(t.marks) >= Rounds * Batch
      <3>1. CASE left = {}
        BY <3>1 DEF Covers, Own, Live
      <3>2. CASE t.rounds = Rounds
        BY <1>1, <1>3, <2>2, <3>2 DEF CascadeOK
      <3> QED BY <1>4, <3>1, <3>2
    <2>4. \A ps : Covers(g, ps) <=> Covers(t, ps)
      BY <2>1 DEF Covers
    <2> HIDE DEF g
    <2>5. CascadeOK(g)
      BY <1>1, <1>3, <2>1, <2>2, <2>3, <2>4 DEF CascadeOK
    <2>6. TxOK(g) /\ g # NoTx
      BY <1>3, <2>1, <2>5, TxIsSome DEF TxOK
    <2>7. HeldBy(g) \subseteq HeldBy(t)
      BY <1>1, <1>3, <2>1, <2>6 DEF HeldBy
    <2> QED BY <1>1, <1>4, <2>1, <2>6, <2>7, GoOn
  <1>5. ASSUME left # {}, NEW b \in SUBSET left,
               Cardinality(b) = IF Cardinality(left) < Batch THEN Cardinality(left) ELSE Batch,
               tx' = [tx EXCEPT ![s].picked = b]
        PROVE  TxInv' /\ tx' \in [Sessions -> OpenTx \union {NoTx}]
    <2> DEFINE w == [t EXCEPT !.picked = b]
    <2>1. b \subseteq Ids
      BY <1>5
    <2>2. /\ b \subseteq Own(t.by) /\ t.marks \cap b = {}
          /\ \/ Covers(t, t.marks \union b)
             \/ Cardinality(t.marks \union b)
                  >= (IF b = {} THEN t.rounds ELSE t.rounds + 1) * Batch
      <3>1. left = {p \in Ids : Live(p) /\ posts[p].author = t.by} \ t.marks
        OBVIOUS
      <3> HIDE DEF left
      <3> QED BY <1>1, <1>3, <1>5, <3>1, PickedCovers
    <2> HIDE DEF left
    <2>3. /\ w \in OpenTx /\ w.op = t.op /\ w.at = t.at /\ w.by = t.by /\ w.post = t.post
          /\ w.to = t.to /\ w.moved = t.moved /\ w.liked = t.liked
          /\ w.marks = t.marks /\ w.picked = b /\ w.rounds = t.rounds
      BY <1>2, <2>1 DEF OpenTx
    <2>4. tx' = [tx EXCEPT ![s] = w]
      BY <1>5
    <2> HIDE DEF w
    <2>5. \A ps : Covers(w, ps) <=> Covers(t, ps)
      BY <2>3 DEF Covers
    <2>6. CascadeOK(w)
      BY <1>1, <1>3, <2>2, <2>3, <2>5 DEF CascadeOK
    <2>7. TxOK(w) /\ w # NoTx
      BY <1>3, <2>3, <2>6, TxIsSome DEF TxOK
    <2>8. HeldBy(w) \subseteq HeldBy(t)
      BY <1>1, <1>3, <2>3, <2>7 DEF HeldBy
    <2> QED BY <1>1, <2>3, <2>4, <2>7, <2>8, GoOn
  <1> QED BY <1>4, <1>5 DEF Pick, Go

LEMMA MarkPickedStep ==
  ASSUME TypeOK, TxInv, NEW s \in Sessions, NEW p \in Ids, MarkPicked(s, p)
  PROVE  TxInv' /\ tx' \in [Sessions -> OpenTx \union {NoTx}]
  <1> DEFINE t == tx[s]
             last == t.picked = {p}
             n == IF last THEN t.rounds + 1 ELSE t.rounds
             left == t.picked \ {p}
             done == t.marks \union {p}
             w == [t EXCEPT !.picked = left, !.marks = done, !.rounds = n]
  <1>1. /\ t # NoTx /\ p \in t.picked /\ Free(s, p) /\ UNCHANGED <<posts, likes, gone>>
        /\ tx' = [tx EXCEPT ![s] = w]
    BY DEF MarkPicked, Committed, Elsewhere
  <1>2. t \in OpenTx /\ TxOK(t)
    BY <1>1, TxTyped
  <1>3. t.op = "cascade" /\ CascadeOK(t)
    BY <1>1, <1>2 DEF TxOK, CreateOK, DeleteOK, LikeOK, UnlikeOK, Rest
  <1>4. t.rounds \in Nat /\ t.marks \subseteq Ids /\ t.picked \subseteq Ids
    BY <1>2 DEF OpenTx
  <1>5. n \in Nat /\ left \in SUBSET Ids /\ done \in SUBSET Ids
    BY <1>4
  <1>6. /\ done \union left = t.marks \union t.picked /\ done \cap left = {}
        /\ (left = {} <=> last) /\ n = (IF left = {} THEN t.rounds + 1 ELSE t.rounds)
    BY <1>1, <1>3 DEF CascadeOK
  <1>7. left \subseteq Own(t.by) /\ done \subseteq Own(t.by) /\ HeldBy(t) = t.marks
        /\ t.picked # {}
    BY <1>1, <1>3 DEF CascadeOK, HeldBy
  <1>8. done = t.marks \union {p}
    OBVIOUS
  <1> HIDE DEF n, left, done
  <1>9. /\ w \in OpenTx /\ w.op = t.op /\ w.at = t.at /\ w.by = t.by /\ w.post = t.post
        /\ w.to = t.to /\ w.moved = t.moved /\ w.liked = t.liked
        /\ w.marks = done /\ w.picked = left /\ w.rounds = n
    BY <1>2, <1>5 DEF OpenTx
  <1> HIDE DEF w, last
  <1>10. \A ps : Covers(w, ps) <=> Covers(t, ps)
    BY <1>9 DEF Covers
  <1>11. CascadeOK(w)
    <2>1. t.at = "pick"
      BY <1>3, <1>7 DEF CascadeOK
    <2>2. (IF left = {} THEN n ELSE n + 1) = t.rounds + 1
      BY <1>4, <1>6
    <2>3. \/ Covers(w, done \union left)
          \/ Cardinality(done \union left) >= (IF left = {} THEN n ELSE n + 1) * Batch
      BY <1>3, <1>6, <1>7, <1>10, <2>2 DEF CascadeOK
    <2> QED BY <1>3, <1>5, <1>6, <1>7, <1>9, <2>1, <2>3 DEF CascadeOK
  <1>12. TxOK(w) /\ w # NoTx
    BY <1>3, <1>9, <1>11, TxIsSome DEF TxOK
  <1>13. HeldBy(w) \subseteq HeldBy(t) \union {p}
    BY <1>3, <1>7, <1>8, <1>9, <1>11 DEF HeldBy, CascadeOK
  <1> QED BY <1>1, <1>9, <1>12, <1>13, <1>3, GoOn DEF CascadeOK

\* An author who is erased has no transaction that writes a post.
LEMMA EraseStep ==
  ASSUME TypeOK, TxInv, NEW s \in Sessions, NEW u \in Users, Erase(s, u)
  PROVE  TxInv' /\ tx' \in [Sessions -> OpenTx \union {NoTx}]
  <1> DEFINE t == NewTx("cascade", "pick", u, None)
  <1>1. /\ t \in OpenTx /\ t.op = "cascade" /\ t.at = "pick" /\ t.by = u
        /\ t.marks = {} /\ t.picked = {} /\ ~t.moved /\ ~t.liked /\ t.rounds = 0
    BY NewTxIs
  <1>2. /\ tx[s] = NoTx /\ tx' = [tx EXCEPT ![s] = t] /\ gone' = gone \union {u}
        /\ UNCHANGED <<posts, likes>>
        /\ \A v \in Others(s) : tx[v].by # u \/ tx[v].op \in {"like", "unlike"}
    BY DEF Erase, Begin, Committed
  <1> HIDE DEF t
  <1>3. tx \in [Sessions -> OpenTx \union {NoTx}]
    BY DEF TypeOK
  <1>4. \A v \in Sessions : tx'[v] = IF v = s THEN t ELSE tx[v]
    BY <1>2, <1>3
  <1>5. ASSUME NEW v \in Sessions PROVE TxOK(tx[v])'
    <2>1. CASE v = s
      <3>1. Batch \in Nat /\ 0 * Batch = 0
        BY PostsAssumption
      <3>2. Cardinality(t.marks \union t.picked) >= (IF t.picked = {} THEN t.rounds ELSE t.rounds + 1) * Batch
        <4>1. t.marks \union t.picked = {}
          BY <1>1
        <4>2. Cardinality({}) = 0
          BY FS_EmptySet
        <4> QED BY <1>1, <3>1, <4>1, <4>2
      <3>3. tx'[v] = t
        BY <1>4, <2>1
      <3>4. t.marks \subseteq Own(t.by)' /\ t.picked \subseteq Own(t.by)' /\ t.by \in gone'
        BY <1>1, <1>2
      <3>5. CascadeOK(tx[v])'
        <4> DEFINE r == tx'[v]
        <4>1. /\ r.at = "pick" /\ ~r.moved /\ ~r.liked /\ r.marks = {} /\ r.picked = {}
              /\ r.rounds = 0 /\ r.by \in gone'
          BY <1>1, <3>3, <3>4
        <4>2. Cardinality(r.marks \union r.picked)
                 >= (IF r.picked = {} THEN r.rounds ELSE r.rounds + 1) * Batch
          BY <3>2, <3>3
        <4> QED BY <4>1, <4>2 DEF CascadeOK
      <3> QED BY <1>1, <3>3, <3>5 DEF TxOK
    <2>2. CASE v # s /\ tx[v] = NoTx
      BY <1>4, <2>2 DEF TxOK
    <2>3. CASE v # s /\ tx[v] # NoTx
      <3>1. tx'[v] = tx[v] /\ TxOK(tx[v]) /\ (tx[v].by # u \/ tx[v].op \in {"like", "unlike"})
        BY <1>2, <1>4, <2>3 DEF Others, TxInv
      <3>2. CASE tx[v].op = "create"
        BY <1>2, <2>3, <3>1, <3>2 DEF TxOK, CreateOK, Exists, Live
      <3>3. CASE tx[v].op = "delete"
        BY <1>2, <2>3, <3>1, <3>3 DEF TxOK, DeleteOK, Exists, Live
      <3>4. CASE tx[v].op = "like"
        BY <1>2, <2>3, <3>1, <3>4 DEF TxOK, LikeOK, Exists, Live
      <3>5. CASE tx[v].op = "unlike"
        BY <1>2, <2>3, <3>1, <3>5 DEF TxOK, UnlikeOK, Exists, Live
      <3>6. CASE tx[v].op = "cascade"
        BY <1>2, <2>3, <3>1, <3>6 DEF TxOK, CascadeOK, Exists, Live, Own, Covers
      <3> QED BY <2>3, <3>1, <3>2, <3>3, <3>4, <3>5, <3>6 DEF TxOK
    <2> QED BY <2>1, <2>2, <2>3
  <1>6. \A v \in Sessions \ {s} : Disjoint(t, tx[v]) /\ Disjoint(tx[v], t)
    <2>1. HeldBy(t) = {}
      BY <1>1 DEF HeldBy
    <2>2. \A v \in Sessions \ {s} : Disjoint(t, tx[v])
      BY <1>1, <2>1, HoldsNothing
    <2> QED BY <2>2 DEF Disjoint
  <1>7. \A v, w \in Sessions : v # w => Disjoint(tx[v], tx[w])'
    <2>1. \A v, w \in Sessions : v # w => Disjoint(tx'[v], tx'[w])
      BY <1>4, <1>6 DEF TxInv
    <2> QED BY <2>1 DEF Disjoint, HeldBy
  <1>8. tx' \in [Sessions -> OpenTx \union {NoTx}]
    BY <1>1, <1>2, <1>3
  <1> QED BY <1>5, <1>7, <1>8 DEF TxInv

LEMMA RepairKeepsTx ==
  ASSUME TypeOK, TxInv, UNCHANGED <<posts, likes, gone, tx>>
  PROVE  TxInv' /\ tx' \in [Sessions -> OpenTx \union {NoTx}]
  <1>1. \A v \in Sessions : TxOK(tx[v])' <=> TxOK(tx[v])
    BY DEF TxOK, CreateOK, DeleteOK, LikeOK, UnlikeOK, CascadeOK, Exists, Live, Own, Covers
  <1>2. \A v, w \in Sessions : Disjoint(tx[v], tx[w])' <=> Disjoint(tx[v], tx[w])
    BY DEF Disjoint, HeldBy
  <1> QED BY <1>1, <1>2 DEF TypeOK, TxInv

-----------------------------------------------------------------------------
(* What a commit does to the rows.                                         *)

\* A transaction touches posts that are there, but for the one it creates.
LEMMA Touches ==
  ASSUME TypeOK, Targets, NEW t, t # NoTx, TxOK(t)
  PROVE  /\ t \in OpenTx
         /\ t.op = "create" => t.post \in Ids /\ ~Exists(t.post) /\ t.row \in Rows /\ t.marks = {}
         /\ t.moved => t.to \in Ids /\ Exists(t.to)
         /\ \A p \in t.marks : p \in Ids /\ Exists(p)
  <1>1. t \in OpenTx
    BY DEF TxOK
  <1>2. CASE t.op = "create" /\ CreateOK(t)
    BY <1>1, <1>2 DEF CreateOK, Rest, OpenTx, Live
  <1>3. CASE t.op = "delete" /\ DeleteOK(t)
    <2>1. t.moved => t.to # None /\ t.to = Target(posts[t.post])
      BY <1>3 DEF DeleteOK
    <2>2. t.moved => Exists(t.to)
      BY <1>3, <2>1 DEF DeleteOK, Targets
    <2> QED BY <1>1, <1>3, <2>1, <2>2 DEF DeleteOK, OpenTx
  <1>4. CASE t.op = "like" /\ LikeOK(t)
    BY <1>1, <1>4 DEF LikeOK, Rest
  <1>5. CASE t.op = "unlike" /\ UnlikeOK(t)
    BY <1>1, <1>5 DEF UnlikeOK, Rest
  <1>6. CASE t.op = "cascade" /\ CascadeOK(t)
    BY <1>1, <1>6 DEF CascadeOK, Own
  <1> QED BY <1>1, <1>2, <1>3, <1>4, <1>5, <1>6 DEF TxOK

\* The row of a post after a commit: who deleted it, and its counters.
LEMMA RowsAfter ==
  ASSUME TypeOK, Targets, NEW t, t # NoTx, TxOK(t), NEW p \in Ids
  PROVE  LET n == PostsAfter(t)[p]
         IN  /\ Exists(p) =>
                  /\ n \in Rows /\ n.author = posts[p].author
                  /\ n.reply_to = posts[p].reply_to /\ n.repost_of = posts[p].repost_of
                  /\ n.deleted_by = (IF p \in t.marks /\ posts[p].deleted_by = None
                                     THEN IF t.op = "cascade" THEN "erasure" ELSE "author"
                                     ELSE posts[p].deleted_by)
                  /\ \A c \in Counters :
                       n.counts[c] = IF t.moved /\ t.to = p /\ c = Counter(t)
                                     THEN Clamped(posts[p].counts[c], t.op \in {"create", "like"})
                                     ELSE posts[p].counts[c]
             /\ ~Exists(p) => n = IF t.op = "create" /\ t.post = p THEN t.row ELSE posts[p]
  <1> DEFINE up == t.op \in {"create", "like"}
             row == IF t.op = "create" /\ t.post = p THEN t.row
                    ELSE IF p \in t.marks THEN Marked(posts[p], t) ELSE posts[p]
             n == PostsAfter(t)[p]
  <1>1. n = IF t.moved /\ t.to = p THEN [row EXCEPT !.counts[Counter(t)] = Clamped(@, up)] ELSE row
    BY DEF PostsAfter
  <1>2. /\ t \in OpenTx
        /\ t.op = "create" => t.post \in Ids /\ ~Exists(t.post) /\ t.row \in Rows /\ t.marks = {}
        /\ t.moved => t.to \in Ids /\ Exists(t.to)
        /\ \A q \in t.marks : q \in Ids /\ Exists(q)
    BY Touches
  <1>3. CASE ~Exists(p)
    BY <1>1, <1>2, <1>3
  <1>4. CASE Exists(p)
    <2>1. posts[p] \in Rows
      BY <1>4, ExistsIsRow
    <2>2. row = IF p \in t.marks THEN Marked(posts[p], t) ELSE posts[p]
      BY <1>2, <1>4
    <2>3. /\ row \in Rows /\ row.author = posts[p].author
          /\ row.reply_to = posts[p].reply_to /\ row.repost_of = posts[p].repost_of
          /\ row.counts = posts[p].counts
          /\ row.deleted_by = (IF p \in t.marks /\ posts[p].deleted_by = None
                               THEN IF t.op = "cascade" THEN "erasure" ELSE "author"
                               ELSE posts[p].deleted_by)
      <3> HIDE DEF row
      <3>1. CASE p \in t.marks
        <4>1. row = Marked(posts[p], t)
          BY <2>2, <3>1
        <4> QED BY <2>1, <3>1, <4>1, MarkedRow
      <3>2. CASE p \notin t.marks
        BY <2>1, <2>2, <3>2
      <3> QED BY <3>1, <3>2
    <2> HIDE DEF row
    <2>4. CASE t.moved /\ t.to = p
      <3> DEFINE c == Counter(t)
      <3>1. c \in Counters /\ up \in BOOLEAN
        BY CounterIs
      <3> HIDE DEF c, up
      <3>2. n = [row EXCEPT !.counts[c] = Clamped(@, up)]
        BY <1>1, <2>4 DEF c
      <3>3. /\ n \in Rows /\ n.author = row.author /\ n.reply_to = row.reply_to
            /\ n.repost_of = row.repost_of /\ n.deleted_by = row.deleted_by
            /\ \A d \in Counters :
                 n.counts[d] = IF d = c THEN Clamped(row.counts[c], up) ELSE row.counts[d]
        BY <2>3, <3>1, <3>2, CountedRow
      <3> HIDE DEF n
      <3>4. \A d \in Counters : n.counts[d] = IF t.moved /\ t.to = p /\ d = Counter(t)
                                     THEN Clamped(posts[p].counts[d], up) ELSE posts[p].counts[d]
        BY <2>3, <2>4, <3>3 DEF c
      <3> QED BY <1>4, <2>3, <3>3, <3>4 DEF n, up
    <2>5. CASE ~(t.moved /\ t.to = p)
      <3>1. n = row
        BY <1>1, <2>5
      <3> QED BY <1>4, <2>3, <2>5, <3>1
    <2> QED BY <2>4, <2>5
  <1> QED BY <1>3, <1>4

\* What the other transactions can see of a commit: rows stay what they are,
\* a post that is not deleted stays so unless it was held, a deleted one stays
\* deleted, and no row, like or session but the transaction's own changes.
LEMMA CommitFrame ==
  ASSUME TypeOK, TxInv, Targets, NEW s \in Sessions, Commit(s)
  PROVE  /\ tx[s] # NoTx /\ tx[s].at = "commit" /\ tx[s] \in OpenTx /\ TxOK(tx[s])
         /\ tx' = [tx EXCEPT ![s] = NoTx] /\ UNCHANGED <<gone, repair, lock, begun>>
         /\ posts' \in [Ids -> Rows \union {NoPost}]
         /\ likes' \subseteq Ids \X Users
         /\ \A p \in Ids : Exists(p) =>
              /\ Exists(p)' /\ posts'[p].author = posts[p].author
              /\ posts'[p].reply_to = posts[p].reply_to
              /\ posts'[p].repost_of = posts[p].repost_of
              /\ ~Live(p) => ~Live(p)'
              /\ p \notin HeldBy(tx[s]) => posts'[p].deleted_by = posts[p].deleted_by
         /\ \A p \in Ids : ~Exists(p) =>
              posts'[p] = IF tx[s].op = "create" /\ tx[s].post = p THEN tx[s].row ELSE posts[p]
         /\ \A p \in Ids, u \in Users : (<<p, u>> \in likes') # (<<p, u>> \in likes) =>
              tx[s].liked /\ tx[s].post = p /\ tx[s].by = u
  <1> DEFINE t == tx[s]
  <1>1. t # NoTx /\ t.at = "commit" /\ Rollback(s) /\ UNCHANGED <<gone, repair, lock, begun>>
    BY DEF Commit, Elsewhere
  <1>2. t \in OpenTx /\ TxOK(t)
    BY <1>1, TxTyped
  <1>3. tx' = [tx EXCEPT ![s] = NoTx]
    BY <1>1 DEF Rollback
  <1>4. posts \in [Ids -> Rows \union {NoPost}] /\ likes \subseteq Ids \X Users
    BY DEF TypeOK
  <1>5. CASE t.op = "unlike" /\ ~Live(t.post)
    <2>1. UNCHANGED <<posts, likes>>
      BY <1>5 DEF Commit, Committed
    <2> QED BY <1>1, <1>2, <1>3, <1>4, <1>5, <2>1 DEF Exists, Live
  <1>6. CASE ~(t.op = "unlike" /\ ~Live(t.post))
    <2>1. /\ posts' = PostsAfter(t)
          /\ likes' = IF ~t.liked THEN likes
                      ELSE IF t.op = "like" THEN likes \union {<<t.post, t.by>>}
                                            ELSE likes \ {<<t.post, t.by>>}
      BY <1>6 DEF Commit
    <2>2. t.by \in Users /\ (t.liked => t.post \in Ids)
      <3>1. t.by \in Users
        BY <1>2 DEF OpenTx
      <3>2. t.liked => t.post \in Ids
        BY <1>1, <1>2 DEF TxOK, CreateOK, DeleteOK, LikeOK, UnlikeOK, CascadeOK
      <3> QED BY <3>1, <3>2
    <2>3. likes' \subseteq Ids \X Users
      BY <1>4, <2>1, <2>2
    <2>4. \A p \in Ids, u \in Users : (<<p, u>> \in likes') # (<<p, u>> \in likes) =>
            t.liked /\ t.post = p /\ t.by = u
      BY <2>1
    <2>5. ASSUME NEW p \in Ids, Exists(p)
          PROVE  /\ posts'[p] \in Rows /\ Exists(p)' /\ posts'[p].author = posts[p].author
                 /\ posts'[p].reply_to = posts[p].reply_to
                 /\ posts'[p].repost_of = posts[p].repost_of
                 /\ ~Live(p) => ~Live(p)'
                 /\ p \notin HeldBy(t) => posts'[p].deleted_by = posts[p].deleted_by
      <3> DEFINE n == PostsAfter(t)[p]
      <3>1. posts'[p] = n
        BY <2>1
      <3>2. /\ n \in Rows /\ n.author = posts[p].author
            /\ n.reply_to = posts[p].reply_to /\ n.repost_of = posts[p].repost_of
            /\ n.deleted_by = (IF p \in t.marks /\ posts[p].deleted_by = None
                               THEN IF t.op = "cascade" THEN "erasure" ELSE "author"
                               ELSE posts[p].deleted_by)
        BY <1>1, <1>2, <2>5, RowsAfter
      <3> HIDE DEF n
      <3>3. p \notin HeldBy(t) => p \notin t.marks
        BY <1>1 DEF HeldBy
      <3>4. n # NoPost
        BY <3>2, RowIsSome
      <3> QED BY <2>5, <3>1, <3>2, <3>3, <3>4 DEF Exists, Live
    <2>6. \A p \in Ids : ~Exists(p) =>
              posts'[p] = IF t.op = "create" /\ t.post = p THEN t.row ELSE posts[p]
      BY <1>1, <1>2, <2>1, RowsAfter
    <2>7. posts' \in [Ids -> Rows \union {NoPost}]
      <3>1. \A p \in Ids : posts'[p] \in Rows \union {NoPost}
        BY <1>1, <1>2, <1>4, <2>5, <2>6, Touches
      <3>2. posts' = [p \in Ids |-> posts'[p]]
        BY <2>1 DEF PostsAfter
      <3> QED BY <3>1, <3>2
    <2> QED BY <1>1, <1>2, <1>3, <2>3, <2>4, <2>5, <2>6, <2>7
  <1> QED BY <1>5, <1>6

LEMMA CommitKeepsTx ==
  ASSUME TypeOK, TxInv, Targets, NEW s \in Sessions, Commit(s)
  PROVE  TxInv' /\ tx' \in [Sessions -> OpenTx \union {NoTx}]
  <1> DEFINE t == tx[s]
  <1>1. /\ t # NoTx /\ t.at = "commit" /\ t \in OpenTx /\ TxOK(t)
        /\ tx' = [tx EXCEPT ![s] = NoTx] /\ UNCHANGED <<gone, repair, lock, begun>>
        /\ \A p \in Ids : Exists(p) =>
              /\ Exists(p)' /\ posts'[p].author = posts[p].author
              /\ posts'[p].reply_to = posts[p].reply_to
              /\ posts'[p].repost_of = posts[p].repost_of
              /\ ~Live(p) => ~Live(p)'
              /\ p \notin HeldBy(t) => posts'[p].deleted_by = posts[p].deleted_by
        /\ \A p \in Ids : ~Exists(p) =>
              posts'[p] = IF t.op = "create" /\ t.post = p THEN t.row ELSE posts[p]
        /\ \A p \in Ids, u \in Users : (<<p, u>> \in likes') # (<<p, u>> \in likes) =>
              t.liked /\ t.post = p /\ t.by = u
    BY CommitFrame
  <1>2. tx \in [Sessions -> OpenTx \union {NoTx}]
    BY DEF TypeOK
  <1>3. \A v \in Sessions : tx'[v] = IF v = s THEN NoTx ELSE tx[v]
    BY <1>1, <1>2
  <1>4. tx' \in [Sessions -> OpenTx \union {NoTx}]
    BY <1>1, <1>2
  <1>5. \A v, w \in Sessions : v # w => Disjoint(tx[v], tx[w])'
    <2>1. \A v \in Sessions : Disjoint(NoTx, tx[v]) /\ Disjoint(tx[v], NoTx)
      BY DEF Disjoint, HeldBy
    <2>2. \A v, w \in Sessions : v # w => Disjoint(tx'[v], tx'[w])
      BY <1>3, <2>1 DEF TxInv
    <2> QED BY <2>2 DEF Disjoint, HeldBy
  <1>6. ASSUME NEW v \in Sessions, v # s, tx[v] # NoTx PROVE TxOK(tx[v])'
    <2>0. PICK w : w = tx[v]
      OBVIOUS
    <2>1. tx'[v] = w /\ w # NoTx /\ w \in OpenTx /\ TxOK(w) /\ Disjoint(t, w)
      BY <1>3, <1>6, <2>0, TxTyped DEF TxInv
    <2>2. ASSUME NEW p \in HeldBy(w), p \in Ids, Exists(p), Live(p) PROVE Live(p)'
      <3>1. p \notin HeldBy(t)
        BY <2>1, <2>2 DEF Disjoint
      <3> QED BY <1>1, <2>2, <3>1 DEF Live
    <2>3. w.liked /\ w.post \in Ids /\ w.by \in Users =>
            (<<w.post, w.by>> \in likes' <=> <<w.post, w.by>> \in likes)
      BY <1>1, <2>1 DEF Disjoint
    <2>5. CASE w.op = "create"
      <3>1. CreateOK(w)
        BY <2>1, <2>5 DEF TxOK
      <3>2. w.moved => w.to \in HeldBy(w)
        BY <2>1 DEF HeldBy
      <3>3. w.to # None => w.to \in Ids
        BY <3>1 DEF CreateOK, OpenTx, Target, Rows
      <3>4. w.moved => Live(w.to)'
        BY <2>2, <3>1, <3>2, <3>3 DEF CreateOK, Live
      <3>5. ~Exists(w.post)'
        BY <1>1, <2>1, <2>5, <3>1 DEF CreateOK, Exists, Disjoint
      <3>6. CreateOK(w)'
        <4>1. w.row.repost_of # None => posts'[w.row.repost_of].repost_of = None
          <5>1. w.row.repost_of # None => w.to = w.row.repost_of
            BY <3>1 DEF CreateOK, Target
          <5> QED BY <1>1, <3>1, <3>3, <5>1 DEF CreateOK
        <4> QED BY <1>1, <2>1, <3>1, <3>3, <3>4, <3>5, <4>1 DEF CreateOK, Rest
      <3> QED BY <2>1, <2>5, <3>6 DEF TxOK
    <2>6. CASE w.op = "delete"
      <3>1. DeleteOK(w)
        BY <2>1, <2>6 DEF TxOK
      <3>2. w.at # "mark" => w.post \in HeldBy(w)
        BY <2>1, <3>1 DEF HeldBy, DeleteOK
      <3>3. w.at # "mark" => Live(w.post)'
        BY <2>2, <3>1, <3>2 DEF DeleteOK
      <3>4. Target(posts'[w.post]) = Target(posts[w.post])
        BY <1>1, <3>1 DEF DeleteOK, Target
      <3>5. DeleteOK(w)'
        BY <1>1, <2>1, <3>1, <3>3, <3>4 DEF DeleteOK
      <3> QED BY <2>1, <2>6, <3>5 DEF TxOK
    <2>7. CASE w.op = "like"
      <3>1. LikeOK(w)
        BY <2>1, <2>7 DEF TxOK
      <3>2. w.at # "lock" => w.post \in HeldBy(w)
        BY <2>1, <2>7 DEF HeldBy
      <3>3. w.at # "lock" => Live(w.post)'
        BY <2>2, <3>1, <3>2 DEF LikeOK
      <3>4. LikeOK(w)'
        BY <1>1, <2>1, <2>3, <3>1, <3>3 DEF LikeOK, Rest
      <3> QED BY <2>1, <2>7, <3>4 DEF TxOK
    <2>8. CASE w.op = "unlike"
      <3>1. UnlikeOK(w)
        BY <2>1, <2>8 DEF TxOK
      <3>2. UnlikeOK(w)'
        BY <1>1, <2>1, <2>3, <3>1 DEF UnlikeOK, Rest
      <3> QED BY <2>1, <2>8, <3>2 DEF TxOK
    <2>9. CASE w.op = "cascade"
      <3>1. CascadeOK(w)
        BY <2>1, <2>9 DEF TxOK
      <3>2. Own(w.by)' = Own(w.by)
        <4>1. \A p \in Ids : ~Exists(p) /\ Exists(p)' => posts'[p].author # w.by
          <5>1. t.op = "create" => t.row.author \notin gone
            BY <1>1 DEF TxOK, CreateOK
          <5> QED BY <1>1, <3>1, <5>1 DEF CascadeOK, Exists
        <4> QED BY <1>1, <4>1 DEF Own
      <3>3. \A ps : Covers(w, ps) => Covers(w, ps)'
        BY <1>1, <2>1, <3>2 DEF Covers, Own
      <3>4. CascadeOK(w)'
        BY <1>1, <2>1, <3>1, <3>2, <3>3 DEF CascadeOK
      <3> QED BY <2>1, <2>9, <3>4 DEF TxOK
    <2>10. TxOK(w)'
      BY <2>1, <2>5, <2>6, <2>7, <2>8, <2>9 DEF TxOK
    <2>11. TxOK(tx[v])' <=> TxOK(w)'
      BY <2>1 DEF TxOK, CreateOK, DeleteOK, LikeOK, UnlikeOK, CascadeOK, Exists, Live, Own, Covers
    <2> QED BY <2>10, <2>11
  <1>7. \A v \in Sessions : TxOK(tx[v])'
    BY <1>3, <1>6 DEF TxOK
  <1> QED BY <1>4, <1>5, <1>7 DEF TxInv

-----------------------------------------------------------------------------
(* Steps that commit nothing, and the steps of mention repair.             *)

Local(s) ==
    \/ \E u \in Users : Create(s, u) \/ Erase(s, u)
    \/ \E u \in Users, p \in Ids : Delete(s, u, p) \/ Like(s, u, p) \/ Unlike(s, u, p)
    \/ Insert(s) \/ Count(s) \/ Mark(s) \/ Lock(s) \/ InsertLike(s) \/ DeleteLike(s)
    \/ Pick(s) \/ (\E p \in Ids : MarkPicked(s, p)) \/ Fails(s)

Repairs == \/ \E r \in Replicas, c \in Conns : Lead(r, c) \/ Unlock(r, c)
           \/ \E r \in Replicas, p \in Ids : ResolveMention(r, p) \/ SkipMention(r, p)

LEMMA NextIs ==
  ASSUME Next PROVE (\E s \in Sessions : Local(s) \/ Commit(s)) \/ Repairs
  BY DEF Next, Step, Local, Repairs

LEMMA BegunTyped ==
  ASSUME TypeOK, begun' = [begun EXCEPT !.tx = @ + 1] \/ begun' = [begun EXCEPT !.repair = @ + 1]
  PROVE  begun' \in [tx : Nat, repair : Nat]
  <1>1. begun \in [tx : Nat, repair : Nat] /\ begun.tx + 1 \in Nat /\ begun.repair + 1 \in Nat
    BY DEF TypeOK
  <1> QED BY <1>1

LEMMA LocalStep ==
  ASSUME TypeOK, TxInv, Targets, RepostsAreOfOriginals, Present, NEW s \in Sessions, Local(s)
  PROVE  /\ TxInv' /\ tx' \in [Sessions -> OpenTx \union {NoTx}]
         /\ UNCHANGED <<posts, likes, mention, events, handled, repair, lock>>
         /\ gone \subseteq gone' /\ gone' \subseteq Users
         /\ begun' = begun \/ begun' = [begun EXCEPT !.tx = @ + 1]
  <1>0. gone \subseteq Users
    BY DEF TypeOK
  <1>1. ASSUME NEW u \in Users, Create(s, u)
        PROVE  /\ UNCHANGED <<posts, likes, mention, events, handled, gone, repair, lock>>
               /\ begun' = [begun EXCEPT !.tx = @ + 1]
    BY <1>1 DEF Create, BeginCreate, Begin, Committed, Elsewhere
  <1>2. ASSUME NEW u \in Users, Erase(s, u)
        PROVE  /\ UNCHANGED <<posts, likes, mention, events, handled, repair, lock>>
               /\ gone' = gone \union {u} /\ begun' = [begun EXCEPT !.tx = @ + 1]
    BY <1>2 DEF Erase, Begin, Committed
  <1>3. ASSUME NEW u \in Users, NEW p \in Ids,
               Delete(s, u, p) \/ Like(s, u, p) \/ Unlike(s, u, p)
        PROVE  /\ UNCHANGED <<posts, likes, mention, events, handled, gone, repair, lock>>
               /\ begun' = [begun EXCEPT !.tx = @ + 1]
    BY <1>3 DEF Delete, Like, Unlike, Begin, Committed, Elsewhere
  <1>4. ASSUME \/ Insert(s) \/ Count(s) \/ Mark(s) \/ Lock(s) \/ InsertLike(s) \/ DeleteLike(s)
               \/ Pick(s) \/ (\E p \in Ids : MarkPicked(s, p)) \/ Fails(s)
        PROVE  UNCHANGED <<posts, likes, mention, events, handled, gone, repair, lock, begun>>
    BY <1>4 DEF Insert, Count, Mark, Lock, InsertLike, DeleteLike, Pick, MarkPicked, Fails,
                Committed, Elsewhere
  <1>5. TxInv' /\ tx' \in [Sessions -> OpenTx \union {NoTx}]
    <2>1. CASE Fails(s)
      BY <1>4, <2>1, EndsAlone DEF Fails
    <2> QED BY <2>1, CreateStep, EraseStep, BeginStep, InsertStep, CountStep, MarkStep, LockStep,
               InsertLikeStep, DeleteLikeStep, PickStep, MarkPickedStep DEF Local
  <1>6. /\ UNCHANGED <<posts, likes, mention, events, handled, repair, lock>>
        /\ gone \subseteq gone' /\ gone' \subseteq Users
        /\ begun' = begun \/ begun' = [begun EXCEPT !.tx = @ + 1]
    BY <1>0, <1>1, <1>2, <1>3, <1>4 DEF Local
  <1> QED BY <1>5, <1>6

LEMMA DbStays ==
  ASSUME DbInv, UNCHANGED <<posts, likes, mention, events, handled, repair>> PROVE DbInv'
  BY DEF DbInv, Targets, Present, CountersMatch, MentionedOnce, DeletedIsAnnounced,
         ErasureComplete, RepostsAreOfOriginals, Pointing, Exists, Live

\* One more of the given events for a post.
LEMMA EventsAre ==
  ASSUME TypeOK, NEW types, NEW q
  PROVE  /\ EventsAfter(types, q) \in [EventTypes \X Ids -> Nat]
         /\ \A e \in EventTypes, p \in Ids :
              EventsAfter(types, q)[<<e, p>>] =
                 IF e \in types /\ p = q THEN events[<<e, p>>] + 1 ELSE events[<<e, p>>]
  <1>1. events \in [EventTypes \X Ids -> Nat]
    BY DEF TypeOK
  <1> QED BY <1>1 DEF EventsAfter

LEMMA RepairStep ==
  ASSUME IInv, Repairs PROVE IInv'
  <1> USE DEF IInv
  <1>1. UNCHANGED <<posts, likes, handled, gone, tx>>
    BY DEF Repairs, Lead, Unlock, ResolveMention, SkipMention, Committed
  <1>2. TxInv' /\ tx' \in [Sessions -> OpenTx \union {NoTx}]
    BY <1>1, RepairKeepsTx
  <1>3. Targets' /\ RepostsAreOfOriginals' /\ CountersMatch' /\ ErasureComplete'
    BY <1>1 DEF DbInv, Targets, RepostsAreOfOriginals, CountersMatch, ErasureComplete, Pointing,
                Exists, Live
  <1>4. /\ mention \in [Ids -> {None, "open", "resolved"}] /\ events \in [EventTypes \X Ids -> Nat]
        /\ repair \in [Replicas -> [leads : BOOLEAN, batch : SUBSET Ids]]
        /\ lock \in [Conns -> Nat] /\ begun \in [tx : Nat, repair : Nat]
    BY DEF TypeOK
  <1>5. TypeOK' /\ Present' /\ MentionedOnce' /\ DeletedIsAnnounced'
    <2>1. ASSUME NEW r \in Replicas, NEW c \in Conns, Lead(r, c)
          PROVE  /\ UNCHANGED <<mention, events>> /\ begun' \in [tx : Nat, repair : Nat]
                 /\ lock' \in [Conns -> Nat]
                 /\ repair' \in [Replicas -> [leads : BOOLEAN, batch : SUBSET Ids]]
                 /\ \A q \in Replicas : \A p \in repair'[q].batch : Exists(p)
      <3>1. UNCHANGED <<mention, events>> /\ begun' \in [tx : Nat, repair : Nat]
        BY <2>1, BegunTyped DEF Lead, Committed
      <3>2. lock' \in [Conns -> Nat]
        BY <1>4, <2>1 DEF Lead
      <3>3. [leads |-> TRUE, batch |-> {p \in Ids : mention[p] = "open"}]
              \in [leads : BOOLEAN, batch : SUBSET Ids]
        OBVIOUS
      <3>4. /\ repair' = [repair EXCEPT ![r] = [leads |-> TRUE, batch |-> {p \in Ids : mention[p] = "open"}]]
            /\ repair' \in [Replicas -> [leads : BOOLEAN, batch : SUBSET Ids]]
        BY <1>4, <2>1, <3>3 DEF Lead
      <3>5. \A q \in Replicas : \A p \in repair'[q].batch :
               p \in repair[q].batch \/ (p \in Ids /\ mention[p] = "open")
        BY <1>4, <3>4
      <3> QED BY <3>1, <3>2, <3>4, <3>5 DEF DbInv, Present, None
    <2>2. ASSUME NEW r \in Replicas, NEW c \in Conns, Unlock(r, c)
          PROVE  /\ UNCHANGED <<mention, events>> /\ begun' \in [tx : Nat, repair : Nat]
                 /\ lock' \in [Conns -> Nat]
                 /\ repair' \in [Replicas -> [leads : BOOLEAN, batch : SUBSET Ids]]
                 /\ \A q \in Replicas : \A p \in repair'[q].batch : Exists(p)
      <3>1. UNCHANGED <<mention, events, begun>>
        BY <2>2 DEF Unlock, Committed
      <3>2. lock' \in [Conns -> Nat]
        <4>1. (IF lock[c] > 0 THEN lock[c] - 1 ELSE 0) \in Nat
          BY <1>4
        <4> QED BY <1>4, <2>2, <4>1 DEF Unlock
      <3>3. repair' = [repair EXCEPT ![r].leads = FALSE]
        BY <2>2 DEF Unlock
      <3>4. repair' \in [Replicas -> [leads : BOOLEAN, batch : SUBSET Ids]]
        BY <1>4, <3>3
      <3>5. \A q \in Replicas : repair'[q].batch = repair[q].batch
        BY <1>4, <3>3
      <3> QED BY <1>4, <3>1, <3>2, <3>4, <3>5 DEF DbInv, Present
    <2>3. ASSUME NEW r \in Replicas, NEW p \in Ids, p \in repair[r].batch,
                 repair' = [repair EXCEPT ![r].batch = @ \ {p}]
          PROVE  /\ repair' \in [Replicas -> [leads : BOOLEAN, batch : SUBSET Ids]]
                 /\ \A q \in Replicas : \A x \in repair'[q].batch : Exists(x)
      <3>1. repair' \in [Replicas -> [leads : BOOLEAN, batch : SUBSET Ids]]
        BY <1>4, <2>3
      <3>2. \A q \in Replicas : repair'[q].batch \subseteq repair[q].batch
        BY <1>4, <2>3
      <3> QED BY <3>1, <3>2 DEF DbInv, Present
    <2>4. ASSUME NEW r \in Replicas, NEW p \in Ids, ResolveMention(r, p), mention[p] = "open"
          PROVE  /\ mention' = [mention EXCEPT ![p] = "resolved"] /\ Exists(p)
                 /\ events' \in [EventTypes \X Ids -> Nat] /\ UNCHANGED <<lock, begun>>
                 /\ \A q \in Ids : /\ events'[<<"post.deleted", q>>] = events[<<"post.deleted", q>>]
                                   /\ events'[<<"user.mentioned", q>>] =
                                        IF q = p /\ posts[p].author # Mentioned
                                        THEN events[<<"user.mentioned", q>>] + 1
                                        ELSE events[<<"user.mentioned", q>>]
      <3>1. /\ mention' = [mention EXCEPT ![p] = "resolved"] /\ UNCHANGED <<lock, begun>>
            /\ events' = IF posts[p].author = Mentioned THEN events
                         ELSE EventsAfter({"user.mentioned"}, p)
        BY <2>4 DEF ResolveMention
      <3>2. Exists(p)
        BY <2>4 DEF DbInv, Present, None
      <3>3. "post.deleted" \in EventTypes /\ "user.mentioned" \in EventTypes
        BY DEF EventTypes
      <3> QED BY <1>4, <3>1, <3>2, <3>3, EventsAre
    <2>5. CASE UNCHANGED <<mention, events>> /\ begun' \in [tx : Nat, repair : Nat]
                 /\ lock' \in [Conns -> Nat]
                 /\ repair' \in [Replicas -> [leads : BOOLEAN, batch : SUBSET Ids]]
                 /\ \A q \in Replicas : \A p \in repair'[q].batch : Exists(p)
      <3>1. TypeOK'
        BY <1>1, <1>2, <2>5 DEF TypeOK
      <3>2. Present'
        BY <1>1, <2>5 DEF DbInv, Present, Exists
      <3> QED BY <1>1, <2>5, <3>1, <3>2 DEF DbInv, MentionedOnce, DeletedIsAnnounced, Exists
    <2>6. ASSUME NEW r \in Replicas, NEW p \in Ids, ResolveMention(r, p), mention[p] = "open"
          PROVE  /\ TypeOK' /\ Present' /\ MentionedOnce' /\ DeletedIsAnnounced'
      <3>1. /\ mention' = [mention EXCEPT ![p] = "resolved"] /\ Exists(p)
            /\ events' \in [EventTypes \X Ids -> Nat] /\ UNCHANGED <<lock, begun>>
            /\ \A q \in Ids : /\ events'[<<"post.deleted", q>>] = events[<<"post.deleted", q>>]
                              /\ events'[<<"user.mentioned", q>>] =
                                        IF q = p /\ posts[p].author # Mentioned
                                        THEN events[<<"user.mentioned", q>>] + 1
                                        ELSE events[<<"user.mentioned", q>>]
        BY <2>4, <2>6
      <3>2. /\ repair' \in [Replicas -> [leads : BOOLEAN, batch : SUBSET Ids]]
            /\ \A q \in Replicas : \A x \in repair'[q].batch : Exists(x)
        BY <2>3, <2>6 DEF ResolveMention
      <3>3. /\ mention' \in [Ids -> {None, "open", "resolved"}]
            /\ \A q \in Ids : mention'[q] = IF q = p THEN "resolved" ELSE mention[q]
        BY <1>4, <3>1
      <3>4. TypeOK'
        BY <1>1, <1>2, <1>4, <3>1, <3>2, <3>3 DEF TypeOK
      <3>5. Present'
        BY <1>1, <3>1, <3>2, <3>3 DEF DbInv, Present, Exists
      <3>6. MentionedOnce'
        <4>1. ASSUME NEW q \in Ids
              PROVE  events'[<<"user.mentioned", q>>] =
                       IF mention'[q] = "resolved" /\ posts[q].author # Mentioned THEN 1 ELSE 0
          <5>1. events[<<"user.mentioned", q>>] =
                  IF mention[q] = "resolved" /\ posts[q].author # Mentioned THEN 1 ELSE 0
            BY DEF DbInv, MentionedOnce
          <5>2. CASE q = p
            <6>1. events[<<"user.mentioned", p>>] = 0
              BY <2>6, <5>1, <5>2
            <6>2. mention'[p] = "resolved"
              BY <3>3
            <6>3. CASE posts[p].author # Mentioned
              <7>1. events'[<<"user.mentioned", p>>] = events[<<"user.mentioned", p>>] + 1
                BY <3>1, <6>3
              <7>2. events'[<<"user.mentioned", p>>] = 1
                BY <6>1, <7>1
              <7> QED BY <5>2, <6>2, <6>3, <7>2
            <6>4. CASE posts[p].author = Mentioned
              BY <3>1, <5>2, <6>1, <6>2, <6>4
            <6> QED BY <6>3, <6>4
          <5>3. CASE q # p
            BY <3>1, <3>3, <5>1, <5>3
          <5> QED BY <5>2, <5>3
        <4> QED BY <1>1, <4>1 DEF MentionedOnce
      <3>7. DeletedIsAnnounced'
        BY <1>1, <3>1 DEF DbInv, DeletedIsAnnounced, Exists
      <3> QED BY <3>4, <3>5, <3>6, <3>7
    <2>7. ASSUME NEW r \in Replicas, NEW p \in Ids, SkipMention(r, p)
                   \/ (ResolveMention(r, p) /\ mention[p] # "open")
          PROVE  /\ TypeOK' /\ Present' /\ MentionedOnce' /\ DeletedIsAnnounced'
      <3>1. /\ p \in repair[r].batch /\ repair' = [repair EXCEPT ![r].batch = @ \ {p}]
            /\ UNCHANGED <<mention, events, lock, begun>>
        BY <2>7 DEF SkipMention, ResolveMention, Committed
      <3> QED BY <1>4, <2>3, <2>5, <3>1
    <2> QED BY <2>1, <2>2, <2>5, <2>6, <2>7 DEF Repairs
  <1> QED BY <1>2, <1>3, <1>5 DEF DbInv

-----------------------------------------------------------------------------
(* What a commit does to the rest of the database.                         *)

\* unlike answers 404 for a deleted post and commits nothing.
Refused(t) == t.op = "unlike" /\ ~Live(t.post)

LEMMA CommitWrites ==
  ASSUME NEW s \in Sessions, Commit(s), ~Refused(tx[s])
  PROVE  LET t == tx[s]
         IN  /\ posts' = PostsAfter(t)
             /\ likes' = IF ~t.liked THEN likes
                         ELSE IF t.op = "like" THEN likes \union {<<t.post, t.by>>}
                                               ELSE likes \ {<<t.post, t.by>>}
             /\ mention' = IF t.op = "create" THEN [mention EXCEPT ![t.post] = t.mention]
                                              ELSE mention
             /\ events' = EventsAfter(Emitted(t), t.post)
             /\ handled' = IF t.op = "cascade" THEN handled \union {t.by} ELSE handled
  BY DEF Commit, Refused

LEMMA CommitType ==
  ASSUME TypeOK, TxInv, Targets, NEW s \in Sessions, Commit(s) PROVE TypeOK'
  <1> DEFINE t == tx[s]
  <1>1. /\ t \in OpenTx /\ TxOK(t) /\ t # NoTx
        /\ UNCHANGED <<gone, repair, lock, begun>>
        /\ posts' \in [Ids -> Rows \union {NoPost}] /\ likes' \subseteq Ids \X Users
    BY CommitFrame
  <1>2. tx' \in [Sessions -> OpenTx \union {NoTx}]
    BY CommitKeepsTx
  <1>3. /\ mention \in [Ids -> {None, "open", "resolved"}] /\ events \in [EventTypes \X Ids -> Nat]
        /\ handled \subseteq gone
    BY DEF TypeOK
  <1>4. /\ mention' \in [Ids -> {None, "open", "resolved"}] /\ events' \in [EventTypes \X Ids -> Nat]
        /\ handled' \subseteq gone
    <2>1. CASE Refused(t)
      BY <1>3, <2>1 DEF Commit, Refused, Committed
    <2>2. CASE ~Refused(t)
      <3>1. t.mention \in {None, "open", "resolved"} /\ (t.op = "cascade" => t.by \in gone)
        BY <1>1 DEF OpenTx, TxOK, CascadeOK
      <3>2. mention' \in [Ids -> {None, "open", "resolved"}]
        BY <1>3, <2>2, <3>1, CommitWrites
      <3>3. events' \in [EventTypes \X Ids -> Nat]
        <4>1. events' = EventsAfter(Emitted(t), t.post)
          BY <2>2, CommitWrites
        <4>2. EventsAfter(Emitted(t), t.post) \in [EventTypes \X Ids -> Nat]
          BY EventsAre
        <4> QED BY <4>1, <4>2
      <3>4. handled' \subseteq gone
        BY <1>3, <2>2, <3>1, CommitWrites
      <3> QED BY <3>2, <3>3, <3>4
    <2> QED BY <2>1, <2>2
  <1> QED BY <1>1, <1>2, <1>4 DEF TypeOK

\* What a new row points at is there and is not itself.
LEMMA CommitTargets ==
  ASSUME TypeOK, TxInv, Targets, NEW s \in Sessions, Commit(s) PROVE Targets'
  <1> DEFINE t == tx[s]
  <1>1. /\ t # NoTx /\ TxOK(t)
        /\ \A p \in Ids : Exists(p) =>
              /\ Exists(p)' /\ posts'[p].reply_to = posts[p].reply_to
              /\ posts'[p].repost_of = posts[p].repost_of
        /\ \A p \in Ids : ~Exists(p) =>
              posts'[p] = IF t.op = "create" /\ t.post = p THEN t.row ELSE posts[p]
    BY CommitFrame
  <1>2. ASSUME NEW p \in Ids, Exists(p)'
        PROVE  /\ posts'[p].reply_to = None \/ posts'[p].repost_of = None
               /\ Target(posts'[p]) # None =>
                    /\ Target(posts'[p]) \in Ids /\ Exists(Target(posts'[p]))
                    /\ Target(posts'[p]) # p
    <2>1. CASE Exists(p)
      <3>1. Target(posts'[p]) = Target(posts[p])
        BY <1>1, <2>1 DEF Target
      <3>2. Target(posts[p]) \in Ids \union {None}
        BY <2>1, ExistsIsRow DEF Target, Rows
      <3> QED BY <1>1, <2>1, <3>1, <3>2 DEF Targets
    <2>2. CASE ~Exists(p)
      <3>1. t.op = "create" /\ t.post = p /\ posts'[p] = t.row
        BY <1>1, <1>2, <2>2 DEF Exists
      <3>2. CreateOK(t) /\ t \in OpenTx
        BY <1>1, <3>1 DEF TxOK
      <3>3. Target(posts'[p]) = t.to /\ t.to \in Ids \union {None} /\ (t.to # None => Exists(t.to))
        BY <3>1, <3>2 DEF CreateOK, OpenTx
      <3> QED BY <2>2, <3>1, <3>2, <3>3 DEF CreateOK
    <2> QED BY <2>1, <2>2
  <1>3. \A p \in Ids : Exists(p) => posts'[p] # NoPost
    BY <1>1 DEF Exists
  <1> QED BY <1>2, <1>3 DEF Targets, Exists

\* What a new repost points at was no repost, and rows keep what they point at.
LEMMA CommitOriginals ==
  ASSUME TypeOK, TxInv, Targets, RepostsAreOfOriginals, NEW s \in Sessions, Commit(s)
  PROVE  RepostsAreOfOriginals'
  <1> DEFINE t == tx[s]
  <1>1. /\ t # NoTx /\ TxOK(t)
        /\ \A p \in Ids : Exists(p) => posts'[p].repost_of = posts[p].repost_of
        /\ \A p \in Ids : ~Exists(p) =>
              posts'[p] = IF t.op = "create" /\ t.post = p THEN t.row ELSE posts[p]
    BY CommitFrame
  <1>2. ASSUME NEW row \in Rows, row.reply_to = None \/ row.repost_of = None,
               Target(row) # None => Exists(Target(row)), row.repost_of # None
        PROVE  row.repost_of \in Ids /\ Exists(row.repost_of)
    BY <1>2 DEF Target, Rows
  <1>3. ASSUME NEW p \in Ids, posts'[p] # NoPost, posts'[p].repost_of # None
        PROVE  posts'[posts'[p].repost_of].repost_of = None
    <2>1. CASE Exists(p)
      <3>1. posts[p].repost_of \in Ids /\ Exists(posts[p].repost_of)
        BY <1>1, <1>2, <1>3, <2>1, ExistsIsRow DEF Targets
      <3> QED BY <1>1, <1>3, <2>1, <3>1 DEF RepostsAreOfOriginals
    <2>2. CASE ~Exists(p)
      <3>1. t.op = "create" /\ posts'[p] = t.row /\ CreateOK(t)
        BY <1>1, <1>3, <2>2 DEF Exists, TxOK
      <3>2. t.row.repost_of \in Ids /\ Exists(t.row.repost_of)
        BY <1>2, <1>3, <3>1 DEF CreateOK
      <3> QED BY <1>1, <1>3, <3>1, <3>2 DEF CreateOK
    <2> QED BY <2>1, <2>2
  <1> QED BY <1>3 DEF RepostsAreOfOriginals, Exists

LEMMA CommitPresent ==
  ASSUME TypeOK, TxInv, Targets, Present, NEW s \in Sessions, Commit(s) PROVE Present'
  <1> DEFINE t == tx[s]
             old == {p \in Ids : Exists(p)}
             new == {p \in Ids : posts'[p] # NoPost}
  <1>1. /\ t # NoTx /\ t \in OpenTx /\ TxOK(t) /\ UNCHANGED repair
        /\ \A p \in Ids : Exists(p) => posts'[p] # NoPost
        /\ \A p \in Ids : ~Exists(p) =>
              posts'[p] = IF t.op = "create" /\ t.post = p THEN t.row ELSE posts[p]
    BY CommitFrame DEF Exists
  <1>2. likes \subseteq Ids \X Users /\ mention \in [Ids -> {None, "open", "resolved"}]
        /\ repair \in [Replicas -> [leads : BOOLEAN, batch : SUBSET Ids]]
    BY DEF TypeOK
  <1>3. new \subseteq old \union {t.post}
    BY <1>1 DEF Exists
  <1>4. IsFiniteSet(new)
    <2>1. IsFiniteSet(old \union {t.post})
      BY FS_AddElement DEF Present
    <2> QED BY <1>3, <2>1, FS_Subset
  <1>5. \A r \in Replicas : \A p \in repair[r].batch : posts'[p] # NoPost
    BY <1>1, <1>2 DEF Present
  <1>6. CASE Refused(t)
    <2>1. UNCHANGED <<posts, likes, mention>>
      BY <1>6 DEF Commit, Refused, Committed
    <2> QED BY <1>1, <2>1 DEF Present, Exists
  <1>7. CASE ~Refused(t)
    <2>1. likes' \subseteq likes \union {<<t.post, t.by>>}
      BY <1>7, CommitWrites
    <2>2. IsFiniteSet(likes')
      <3>1. IsFiniteSet(likes \union {<<t.post, t.by>>})
        BY FS_AddElement DEF Present
      <3> QED BY <2>1, <3>1, FS_Subset
    <2>3. \A l \in likes' : posts'[l[1]] # NoPost
      <3>1. CASE t.liked /\ t.op = "like"
        <4>1. t.post \in Ids /\ Exists(t.post)
          BY <1>1, <3>1 DEF TxOK, LikeOK
        <4> QED BY <1>1, <1>2, <2>1, <4>1 DEF Present
      <3>2. CASE ~(t.liked /\ t.op = "like")
        <4>1. likes' \subseteq likes
          BY <1>7, <3>2, CommitWrites
        <4> QED BY <1>1, <1>2, <4>1 DEF Present
      <3> QED BY <3>1, <3>2
    <2>4. \A p \in Ids : mention'[p] # None => posts'[p] # NoPost
      <3>1. CASE t.op = "create"
        <4>1. t.post \in Ids /\ ~Exists(t.post) /\ t.row \in Rows
          BY <1>1, <3>1, Touches
        <4>2. posts'[t.post] # NoPost
          BY <1>1, <3>1, <4>1, RowIsSome
        <4>3. \A p \in Ids : p # t.post => mention'[p] = mention[p]
          BY <1>2, <1>7, <3>1, CommitWrites
        <4> QED BY <1>1, <4>2, <4>3 DEF Present
      <3>2. CASE t.op # "create"
        BY <1>1, <1>7, <3>2, CommitWrites DEF Present
      <3> QED BY <3>1, <3>2
    <2> QED BY <1>1, <1>4, <1>5, <2>2, <2>3, <2>4 DEF Present, Exists
  <1> QED BY <1>6, <1>7

\* A resolved mention is announced by the commit that writes it.
LEMMA CommitMentioned ==
  ASSUME TypeOK, TxInv, Targets, Present, MentionedOnce, NEW s \in Sessions, Commit(s)
  PROVE  MentionedOnce'
  <1> DEFINE t == tx[s]
             typ == "user.mentioned"
  <1>1. /\ t # NoTx /\ t \in OpenTx /\ TxOK(t)
        /\ \A p \in Ids : Exists(p) => posts'[p].author = posts[p].author
        /\ \A p \in Ids : ~Exists(p) =>
              posts'[p] = IF t.op = "create" /\ t.post = p THEN t.row ELSE posts[p]
    BY CommitFrame
  <1>2. mention \in [Ids -> {None, "open", "resolved"}]
    BY DEF TypeOK
  <1>3. CASE Refused(t)
    BY <1>3 DEF Commit, Refused, Committed, MentionedOnce
  <1>4. CASE ~Refused(t)
    <2>1. events' = EventsAfter(Emitted(t), t.post)
      BY <1>4, CommitWrites
    <2>2. typ \in EventTypes
      BY DEF EventTypes
    <2>3. ASSUME NEW p \in Ids
          PROVE  events'[<<typ, p>>] = IF typ \in Emitted(t) /\ p = t.post
                                       THEN events[<<typ, p>>] + 1 ELSE events[<<typ, p>>]
      BY <2>1, <2>2, EventsAre
    <2>4. ASSUME NEW p \in Ids
          PROVE  events'[<<typ, p>>] =
                   IF mention'[p] = "resolved" /\ posts'[p].author # Mentioned THEN 1 ELSE 0
      <3>0. events[<<typ, p>>] =
                   IF mention[p] = "resolved" /\ posts[p].author # Mentioned THEN 1 ELSE 0
        BY DEF MentionedOnce
      <3>1. CASE t.op = "create" /\ t.post = p
        <4>1. t.row.author = t.by /\ ~Exists(p) /\ CreateOK(t)
          BY <1>1, <3>1 DEF TxOK, CreateOK
        <4>2. mention[p] = None /\ mention'[p] = t.mention
          BY <1>2, <1>4, <3>1, <4>1, CommitWrites DEF Present
        <4>3. events[<<typ, p>>] = 0
          BY <3>0, <4>2 DEF None
        <4>4. posts'[p].author = t.by
          BY <1>1, <3>1, <4>1
        <4>5. typ \in Emitted(t) <=> t.mention = "resolved" /\ t.by # Mentioned
          BY <3>1 DEF Emitted
        <4>6. CASE t.mention = "resolved" /\ t.by # Mentioned
          <5>1. events'[<<typ, p>>] = events[<<typ, p>>] + 1
            BY <2>3, <3>1, <4>5, <4>6
          <5>2. events'[<<typ, p>>] = 1
            BY <4>3, <5>1
          <5> QED BY <4>2, <4>4, <4>6, <5>2
        <4>7. CASE ~(t.mention = "resolved" /\ t.by # Mentioned)
          BY <2>3, <4>2, <4>3, <4>4, <4>5, <4>7
        <4> QED BY <4>6, <4>7
      <3>2. CASE ~(t.op = "create" /\ t.post = p)
        <4>1. ~(typ \in Emitted(t) /\ p = t.post)
          BY <3>2 DEF Emitted
        <4>2. events'[<<typ, p>>] = events[<<typ, p>>]
          BY <2>3, <4>1
        <4>3. mention'[p] = mention[p]
          BY <1>2, <1>4, <3>2, CommitWrites
        <4>4. mention[p] # None => posts'[p].author = posts[p].author
          BY <1>1 DEF Present
        <4> QED BY <3>0, <4>2, <4>3, <4>4 DEF None
      <3> QED BY <3>1, <3>2
    <2> QED BY <2>4 DEF MentionedOnce
  <1> QED BY <1>3, <1>4

\* Only an author's own deletion, of a post nobody has deleted, is announced.
LEMMA CommitDeleted ==
  ASSUME TypeOK, TxInv, Targets, DeletedIsAnnounced, NEW s \in Sessions, Commit(s)
  PROVE  DeletedIsAnnounced'
  <1> DEFINE t == tx[s]
             typ == "post.deleted"
  <1>1. t # NoTx /\ t.at = "commit" /\ t \in OpenTx /\ TxOK(t)
    BY CommitFrame
  <1>2. CASE Refused(t)
    BY <1>2 DEF Commit, Refused, Committed, DeletedIsAnnounced, Exists
  <1>3. CASE ~Refused(t)
    <2>1. posts' = PostsAfter(t) /\ events' = EventsAfter(Emitted(t), t.post)
      BY <1>3, CommitWrites
    <2>2. typ \in EventTypes
      BY DEF EventTypes
    <2>3. ASSUME NEW p \in Ids
          PROVE  events'[<<typ, p>>] = IF typ \in Emitted(t) /\ p = t.post
                                       THEN events[<<typ, p>>] + 1 ELSE events[<<typ, p>>]
      BY <2>1, <2>2, EventsAre
    <2>4. typ \in Emitted(t) <=> t.op = "delete"
      BY <1>1 DEF Emitted, OpenTx
    <2>5. ASSUME NEW p \in Ids
          PROVE  events'[<<typ, p>>] =
                   IF posts'[p] # NoPost /\ posts'[p].deleted_by = "author" THEN 1 ELSE 0
      <3>0. events[<<typ, p>>] = IF Exists(p) /\ posts[p].deleted_by = "author" THEN 1 ELSE 0
        BY DEF DeletedIsAnnounced
      <3> DEFINE n == PostsAfter(t)[p]
      <3>9. posts'[p] = n
        BY <2>1
      <3>1. CASE Exists(p)
        <4>1. /\ n \in Rows
              /\ n.deleted_by = (IF p \in t.marks /\ posts[p].deleted_by = None
                                 THEN IF t.op = "cascade" THEN "erasure" ELSE "author"
                                 ELSE posts[p].deleted_by)
          BY <1>1, <3>1, RowsAfter
        <4> HIDE DEF n
        <4>2. n # NoPost
          BY <4>1, RowIsSome
        <4>3. CASE t.op = "delete"
          <5>1. DeleteOK(t)
            BY <1>1, <4>3 DEF TxOK
          <5>2. t.marks = {t.post} /\ Live(t.post)
            BY <1>1, <5>1 DEF DeleteOK
          <5>3. CASE p = t.post
            <6>1. posts[p].deleted_by = None /\ n.deleted_by = "author"
              BY <4>1, <4>3, <5>2, <5>3 DEF Live
            <6>2. events[<<typ, p>>] = 0
              BY <3>0, <6>1 DEF None
            <6>3. events'[<<typ, p>>] = events[<<typ, p>>] + 1
              BY <2>3, <2>4, <4>3, <5>3
            <6>4. events'[<<typ, p>>] = 1
              BY <6>2, <6>3
            <6> QED BY <3>9, <4>2, <6>1, <6>4
          <5>4. CASE p # t.post
            <6>1. n.deleted_by = posts[p].deleted_by
              BY <4>1, <5>2, <5>4
            <6>2. events'[<<typ, p>>] = events[<<typ, p>>]
              BY <2>3, <5>4
            <6> QED BY <3>0, <3>1, <3>9, <4>2, <6>1, <6>2
          <5> QED BY <5>3, <5>4
        <4>4. CASE t.op # "delete"
          <5>1. events'[<<typ, p>>] = events[<<typ, p>>]
            BY <2>3, <2>4, <4>4
          <5>2. p \in t.marks => t.op = "cascade"
            BY <1>1, <4>4 DEF TxOK, CreateOK, LikeOK, UnlikeOK, Rest
          <5>3. n.deleted_by = "author" <=> posts[p].deleted_by = "author"
            BY <4>1, <5>2 DEF None
          <5> QED BY <3>0, <3>1, <3>9, <4>2, <5>1, <5>3
        <4> QED BY <4>3, <4>4
      <3>2. CASE ~Exists(p)
        <4>1. n = IF t.op = "create" /\ t.post = p THEN t.row ELSE posts[p]
          BY <1>1, <3>2, RowsAfter
        <4> HIDE DEF n
        <4>2. ~(t.op = "delete" /\ p = t.post)
          BY <1>1, <3>2 DEF TxOK, DeleteOK
        <4>3. events'[<<typ, p>>] = 0
          <5>1. events'[<<typ, p>>] = events[<<typ, p>>]
            BY <2>3, <2>4, <4>2
          <5> QED BY <3>0, <3>2, <5>1
        <4>4. n = NoPost \/ n.deleted_by = None
          BY <1>1, <3>2, <4>1 DEF TxOK, CreateOK, Exists
        <4> QED BY <3>9, <4>3, <4>4 DEF None
      <3> QED BY <3>1, <3>2
    <2> QED BY <2>5 DEF DeletedIsAnnounced, Exists
  <1> QED BY <1>2, <1>3

\* An erased author's posts go with the commit of the cascade, and none come.
LEMMA CommitErasure ==
  ASSUME TypeOK, TxInv, Targets, Present, ErasureComplete, NEW s \in Sessions, Commit(s)
  PROVE  ErasureComplete'
  <1> DEFINE t == tx[s]
  <1>1. /\ t # NoTx /\ t.at = "commit" /\ t \in OpenTx /\ TxOK(t)
        /\ \A p \in Ids : Exists(p) =>
              /\ Exists(p)' /\ posts'[p].author = posts[p].author /\ (~Live(p) => ~Live(p)')
        /\ \A p \in Ids : ~Exists(p) =>
              posts'[p] = IF t.op = "create" /\ t.post = p THEN t.row ELSE posts[p]
    BY CommitFrame
  <1>2. handled \subseteq gone
    BY DEF TypeOK
  <1>3. ASSUME NEW u \in gone PROVE Own(u)' = Own(u)
    <2>1. t.op = "create" => t.row.author \notin gone
      BY <1>1 DEF TxOK, CreateOK
    <2>2. \A p \in Ids : ~Exists(p) /\ Exists(p)' => posts'[p].author # u
      BY <1>1, <2>1 DEF Exists
    <2> QED BY <1>1, <2>2 DEF Own
  <1>4. ASSUME NEW u \in handled', Cardinality(Own(u)') <= Batch * Rounds
        PROVE  \A p \in Own(u)' : ~Live(p)'
    <2>1. CASE u \in handled
      <3>1. Own(u)' = Own(u)
        BY <1>2, <1>3, <2>1
      <3>2. \A p \in Own(u) : ~Live(p)
        BY <1>4, <2>1, <3>1 DEF ErasureComplete, Own
      <3> QED BY <1>1, <3>1, <3>2 DEF Own
    <2>2. CASE u \notin handled
      <3>1. ~Refused(t)
        BY <1>4, <2>2 DEF Commit, Refused, Committed
      <3>2. t.op = "cascade" /\ u = t.by /\ posts' = PostsAfter(t)
        BY <1>4, <2>2, <3>1, CommitWrites
      <3>3. CascadeOK(t)
        BY <1>1, <3>2 DEF TxOK
      <3>4. Own(u)' = Own(u) /\ t.marks \subseteq Own(u)
        BY <1>3, <3>2, <3>3 DEF CascadeOK
      <3>5. \A p \in Own(u) : Live(p) => p \in t.marks
        <4>1. CASE Covers(t, t.marks)
          BY <3>2, <4>1 DEF Covers
        <4>2. CASE Cardinality(t.marks) >= Rounds * Batch
          <5>1. IsFiniteSet(Own(u)) /\ IsFiniteSet(t.marks)
                /\ Cardinality(t.marks) <= Cardinality(Own(u))
            BY <3>4, OwnFinite, FS_Subset
          <5>2. Cardinality(t.marks) \in Nat /\ Cardinality(Own(u)) \in Nat
            BY <5>1, FS_CardinalityType
          <5>3. Rounds \in Nat /\ Batch \in Nat
            BY PostsAssumption
          <5>4. Rounds * Batch = Batch * Rounds /\ Batch * Rounds \in Nat
            BY <5>3
          <5>5. Cardinality(Own(u)) <= Batch * Rounds
            BY <1>4, <3>4
          <5>6. Cardinality(t.marks) = Cardinality(Own(u))
            BY <4>2, <5>1, <5>2, <5>4, <5>5
          <5>7. t.marks = Own(u)
            BY <3>4, <5>1, <5>6, FS_Subset
          <5> QED BY <5>7
        <4> QED BY <1>1, <3>3, <4>1, <4>2 DEF CascadeOK
      <3>6. ASSUME NEW p \in Own(u) PROVE ~Live(p)'
        <4>1. CASE ~Live(p)
          BY <1>1, <4>1 DEF Own
        <4>2. CASE Live(p)
          <5>1. p \in Ids /\ Exists(p) /\ posts[p].deleted_by = None /\ p \in t.marks
            BY <3>5, <4>2 DEF Own, Live
          <5>2. PostsAfter(t)[p].deleted_by = "erasure"
            BY <1>1, <3>2, <5>1, RowsAfter
          <5> QED BY <3>2, <5>2 DEF Live, None
        <4> QED BY <4>1, <4>2
      <3> QED BY <3>4, <3>6
    <2> QED BY <2>1, <2>2
  <1> QED BY <1>4 DEF ErasureComplete, Own

-----------------------------------------------------------------------------
(* The counters.                                                           *)

LikesOf(p) == {l \in likes : l[1] = p}
Field == {"reply_to", "repost_of"}
CounterOf(f) == IF f = "reply_to" THEN "reply_count" ELSE "repost_count"

\* The counters of one post.
LikesRight(p) == Exists(p) => posts[p].counts["like_count"] = Cardinality(LikesOf(p))
PointsRight(p, f) == Live(p) => posts[p].counts[CounterOf(f)] = Cardinality(Pointing(f, p))

LEMMA CountersAre ==
  CountersMatch <=> \A p \in Ids : LikesRight(p) /\ \A f \in Field : PointsRight(p, f)
  BY DEF CountersMatch, LikesRight, PointsRight, LikesOf, Field, CounterOf

\* The new row of a create has no like and nothing points at it.
LEMMA CommitLikes ==
  ASSUME TypeOK, TxInv, Targets, Present, NEW s \in Sessions, Commit(s), ~Refused(tx[s]),
         NEW p \in Ids, LikesRight(p)
  PROVE  LikesRight(p)'
  <1> DEFINE t == tx[s]
             n == PostsAfter(t)[p]
             c == "like_count"
             x == <<p, t.by>>
  <1>1. /\ t # NoTx /\ t.at = "commit" /\ t \in OpenTx /\ TxOK(t)
        /\ likes' \subseteq Ids \X Users
    BY CommitFrame
  <1>2. /\ posts'[p] = n
        /\ likes' = IF ~t.liked THEN likes
                    ELSE IF t.op = "like" THEN likes \union {<<t.post, t.by>>}
                                          ELSE likes \ {<<t.post, t.by>>}
    BY CommitWrites
  <1>3. likes \subseteq Ids \X Users /\ IsFiniteSet(likes) /\ \A l \in likes : Exists(l[1])
    BY DEF TypeOK, Present
  <1>4. IsFiniteSet(LikesOf(p))
    <2>1. LikesOf(p) \subseteq likes
      BY DEF LikesOf
    <2> QED BY <1>3, <2>1, FS_Subset
  <1>5. c \in Counters
    BY DEF Counters
  <1>6. CASE ~Exists(p)
    <2>1. n = IF t.op = "create" /\ t.post = p THEN t.row ELSE posts[p]
      BY <1>1, <1>6, RowsAfter
    <2>2. t.liked => t.post # p
      BY <1>1, <1>6 DEF TxOK, CreateOK, DeleteOK, LikeOK, UnlikeOK, CascadeOK
    <2>3. LikesOf(p)' = {}
      BY <1>2, <1>3, <1>6, <2>2 DEF LikesOf
    <2>4. Exists(p)' => n.counts[c] = 0
      BY <1>1, <1>2, <1>5, <1>6, <2>1 DEF TxOK, CreateOK, Exists
    <2>5. Cardinality({}) = 0
      BY FS_EmptySet
    <2> QED BY <1>2, <2>3, <2>4, <2>5 DEF LikesRight
  <1>7. CASE Exists(p)
    <2>1. posts[p] \in Rows /\ posts[p].counts[c] \in Nat
      BY <1>5, <1>7, ExistsIsRow DEF Rows
    <2>2. posts[p].counts[c] = Cardinality(LikesOf(p))
      BY <1>7 DEF LikesRight
    <2>3. n.counts[c] = IF t.moved /\ t.to = p /\ c = Counter(t)
                        THEN Clamped(posts[p].counts[c], t.op \in {"create", "like"})
                        ELSE posts[p].counts[c]
      BY <1>1, <1>5, <1>7, RowsAfter
    <2> HIDE DEF n
    <2>4. c = Counter(t) <=> t.op \in {"like", "unlike"}
      BY DEF Counter
    <2>5. t.op \in {"like", "unlike"} => (t.moved <=> t.liked) /\ t.to = t.post
      BY <1>1 DEF TxOK, LikeOK, UnlikeOK
    <2>6. t.liked => t.op \in {"like", "unlike"}
      BY <1>1 DEF TxOK, CreateOK, DeleteOK, CascadeOK
    <2>7. CASE ~(t.liked /\ t.post = p)
      <3>1. LikesOf(p)' = LikesOf(p)
        BY <1>2, <2>7 DEF LikesOf
      <3>2. n.counts[c] = posts[p].counts[c]
        BY <2>3, <2>4, <2>5, <2>7
      <3> QED BY <1>2, <2>2, <3>1, <3>2 DEF LikesRight
    <2>8. CASE t.liked /\ t.post = p /\ t.op = "like"
      <3>1. LikesOf(p)' = LikesOf(p) \union {x} /\ x \notin LikesOf(p)
        BY <1>1, <1>2, <2>8 DEF LikesOf, TxOK, LikeOK
      <3>2. Cardinality(LikesOf(p) \union {x}) = Cardinality(LikesOf(p)) + 1
        BY <1>4, <3>1, FS_AddElement
      <3>3. n.counts[c] = posts[p].counts[c] + 1
        BY <2>3, <2>4, <2>5, <2>8 DEF Clamped
      <3> QED BY <1>2, <2>2, <3>1, <3>2, <3>3 DEF LikesRight
    <2>9. CASE t.liked /\ t.post = p /\ t.op = "unlike"
      <3>1. LikesOf(p)' = LikesOf(p) \ {x} /\ x \in LikesOf(p)
        BY <1>1, <1>2, <2>9 DEF LikesOf, TxOK, UnlikeOK
      <3>2. Cardinality(LikesOf(p) \ {x}) = Cardinality(LikesOf(p)) - 1
        BY <1>4, <3>1, FS_RemoveElement
      <3>3. posts[p].counts[c] > 0
        <4>1. LikesOf(p) # {}
          BY <3>1
        <4>2. Cardinality(LikesOf(p)) # 0
          BY <1>4, <4>1, FS_EmptySet
        <4> QED BY <2>1, <2>2, <4>2
      <3>4. n.counts[c] = posts[p].counts[c] - 1
        BY <2>3, <2>4, <2>5, <2>9, <3>3 DEF Clamped
      <3> QED BY <1>2, <2>2, <3>1, <3>2, <3>4 DEF LikesRight
    <2> QED BY <2>6, <2>7, <2>8, <2>9
  <1> QED BY <1>6, <1>7

\* A row points at one post, the one whose counter its transaction moves.
LEMMA PointsAt ==
  ASSUME NEW row \in Rows, row.reply_to = None \/ row.repost_of = None,
         NEW p \in Ids, NEW f \in Field, NEW t, t.op \in {"create", "delete"},
         t.row.reply_to = row.reply_to, t.row.repost_of = row.repost_of
  PROVE  /\ row[f] = p <=> Target(row) = p /\ Counter(t) = CounterOf(f)
         /\ row[f] = p => Target(row) # None
  <1>1. p # None
    BY PostsAssumption DEF None
  <1>2. CASE f = "reply_to"
    BY <1>1, <1>2 DEF Target, Counter, CounterOf
  <1>3. CASE f = "repost_of"
    BY <1>1, <1>3 DEF Target, Counter, CounterOf
  <1> QED BY <1>2, <1>3 DEF Field

LEMMA FieldIs ==
  ASSUME NEW row, NEW new, new.reply_to = row.reply_to, new.repost_of = row.repost_of,
         NEW f \in Field
  PROVE  new[f] = row[f]
  BY DEF Field

LEMMA PointingFinite ==
  ASSUME Present, NEW f, NEW p PROVE IsFiniteSet(Pointing(f, p))
  <1>1. Pointing(f, p) \subseteq {q \in Ids : Exists(q)}
    BY DEF Pointing
  <1> QED BY <1>1, FS_Subset DEF Present

LEMMA CommitPoints ==
  ASSUME TypeOK, TxInv, Targets, Present, NEW s \in Sessions, Commit(s), ~Refused(tx[s]),
         NEW p \in Ids, NEW f \in Field, PointsRight(p, f)
  PROVE  PointsRight(p, f)'
  <1> DEFINE t == tx[s]
             n == PostsAfter(t)[p]
             c == CounterOf(f)
             old == Pointing(f, p)
             new == Pointing(f, p)'
  <1>1. /\ t # NoTx /\ t.at = "commit" /\ t \in OpenTx /\ TxOK(t)
        /\ \A q \in Ids : Exists(q) =>
              /\ Exists(q)'
              /\ posts'[q].reply_to = posts[q].reply_to
              /\ posts'[q].repost_of = posts[q].repost_of
              /\ (~Live(q) => ~Live(q)')
        /\ \A q \in Ids : ~Exists(q) =>
              posts'[q] = IF t.op = "create" /\ t.post = q THEN t.row ELSE posts[q]
    BY CommitFrame
  <1>2. posts' = PostsAfter(t)
    BY CommitWrites
  <1>3. c \in Counters /\ c # "like_count"
    BY DEF CounterOf, Counters
  <1>4. \A q \in Ids : Exists(q) => posts'[q][f] = posts[q][f]
    BY <1>1, FieldIs
  <1>5. ASSUME NEW q \in Ids, Exists(q), posts[q][f] = p PROVE Exists(p) /\ p # q
    <2>1. posts[q] \in Rows /\ (posts[q].reply_to = None \/ posts[q].repost_of = None)
      BY <1>5, ExistsIsRow DEF Targets
    <2>2. Target(posts[q]) = p /\ p # None
      <3>1. p # None
        BY PostsAssumption DEF None
      <3>2. CASE f = "reply_to"
        BY <1>5, <2>1, <3>1, <3>2 DEF Target
      <3>3. CASE f = "repost_of"
        BY <1>5, <2>1, <3>1, <3>3 DEF Target
      <3> QED BY <3>1, <3>2, <3>3 DEF Field
    <2> QED BY <1>5, <2>2 DEF Targets
  <1>6. ASSUME t.op = "create"
        PROVE  /\ t.post \in Ids /\ ~Exists(t.post) /\ posts'[t.post] = t.row /\ posts'[t.post] # NoPost
               /\ t.row.deleted_by = None /\ (t.row[f] = p <=> t.to = p /\ Counter(t) = c)
               /\ (t.row[f] = p => Exists(p))
               /\ (t.row[f] = p /\ Live(p) => t.moved)
               /\ (t.moved /\ t.to = p => Live(p))
    <2>1. CreateOK(t)
      BY <1>1, <1>6 DEF TxOK
    <2>2. /\ t.post \in Ids /\ ~Exists(t.post) /\ t.row \in Rows /\ t.row.deleted_by = None
          /\ (t.row.reply_to = None \/ t.row.repost_of = None) /\ t.to = Target(t.row)
      BY <2>1 DEF CreateOK
    <2>3. posts'[t.post] = t.row /\ t.row # NoPost
      BY <1>1, <1>6, <2>2, RowIsSome
    <2>4. /\ t.row[f] = p <=> t.to = p /\ Counter(t) = c
          /\ t.row[f] = p => t.to # None
      BY <1>6, <2>2, PointsAt
    <2>5. /\ t.row[f] = p => Exists(p)
          /\ t.row[f] = p /\ Live(p) => t.moved
          /\ t.moved /\ t.to = p => Live(p)
      <3>1. /\ t.to # None => Exists(t.to)
            /\ t.moved => Live(t.to)
            /\ t.to # None /\ ~t.moved => ~Live(t.to)
        BY <1>1, <2>1 DEF CreateOK
      <3> QED BY <2>4, <3>1
    <2> QED BY <2>2, <2>3, <2>4, <2>5
  <1>7. ASSUME t.op = "delete"
        PROVE  /\ t.post \in Ids /\ Live(t.post) /\ t.marks = {t.post}
               /\ (posts[t.post][f] = p <=> t.to = p /\ Counter(t) = c)
               /\ (posts[t.post][f] = p => t.moved)
    <2>1. DeleteOK(t)
      BY <1>1, <1>7 DEF TxOK
    <2>2. /\ t.post \in Ids /\ Live(t.post) /\ t.marks = {t.post} /\ t.to = Target(posts[t.post])
          /\ t.row.reply_to = posts[t.post].reply_to /\ t.row.repost_of = posts[t.post].repost_of
          /\ (t.moved <=> t.to # None)
      BY <1>1, <2>1 DEF DeleteOK
    <2>3. posts[t.post] \in Rows
          /\ (posts[t.post].reply_to = None \/ posts[t.post].repost_of = None)
      BY <2>2, ExistsIsRow DEF Live, Targets
    <2>4. /\ posts[t.post][f] = p <=> t.to = p /\ Counter(t) = c
          /\ posts[t.post][f] = p => t.to # None
      BY <1>7, <2>2, <2>3, PointsAt
    <2> QED BY <2>2, <2>4
  <1>8. ASSUME NEW q \in Ids, Exists(q)
        PROVE  posts'[q].deleted_by = "author" <=>
                 (posts[q].deleted_by = "author" \/ (t.op = "delete" /\ q = t.post))
    <2>1. posts'[q].deleted_by = (IF q \in t.marks /\ posts[q].deleted_by = None
                                  THEN IF t.op = "cascade" THEN "erasure" ELSE "author"
                                  ELSE posts[q].deleted_by)
      BY <1>1, <1>2, <1>8, RowsAfter
    <2>2. t.op = "delete" => posts[t.post].deleted_by = None
      BY <1>7 DEF Live
    <2>3. t.op # "delete" /\ q \in t.marks => t.op = "cascade"
      BY <1>1 DEF TxOK, CreateOK, LikeOK, UnlikeOK, Rest
    <2> QED BY <1>7, <2>1, <2>2, <2>3 DEF None
  <1>9. CASE ~Exists(p)
    <2>1. CASE ~(t.op = "create" /\ t.post = p)
      <3>1. ~Exists(p)'
        BY <1>1, <1>9, <2>1 DEF Exists
      <3> QED BY <3>1 DEF PointsRight, Live
    <2>2. CASE t.op = "create" /\ t.post = p
      <3>1. t.row.counts[c] = 0
        BY <1>1, <1>3, <2>2 DEF TxOK, CreateOK
      <3>2. new = {}
        <4>1. \A q \in Ids : Exists(q) => posts'[q][f] # p
          BY <1>4, <1>5, <1>9
        <4>2. \A q \in Ids : ~Exists(q) /\ Exists(q)' => posts'[q][f] # p
          BY <1>1, <1>6, <1>9, <2>2 DEF Exists
        <4> QED BY <4>1, <4>2 DEF Pointing
      <3>3. posts'[p].counts[c] = 0
        BY <1>6, <2>2, <3>1
      <3>4. Cardinality({}) = 0
        BY FS_EmptySet
      <3> QED BY <3>2, <3>3, <3>4 DEF PointsRight
    <2> QED BY <2>1, <2>2
  <1>10. CASE Exists(p) /\ ~Live(p)
    BY <1>1, <1>10 DEF PointsRight
  <1>11. CASE Exists(p) /\ Live(p)
    <2>1. posts[p] \in Rows /\ posts[p].counts[c] \in Nat
      BY <1>3, <1>11, ExistsIsRow DEF Rows
    <2>2. posts[p].counts[c] = Cardinality(old) /\ IsFiniteSet(old)
      BY <1>11, PointingFinite DEF PointsRight
    <2>3. posts'[p].counts[c] = IF t.moved /\ t.to = p /\ c = Counter(t)
                        THEN Clamped(posts[p].counts[c], t.op \in {"create", "like"})
                        ELSE posts[p].counts[c]
      BY <1>1, <1>2, <1>3, <1>11, RowsAfter
    <2>4. CASE t.op = "create" /\ t.row[f] = p
      <3>1. new = old \union {t.post} /\ t.post \notin old
        <4>1. \A q \in Ids : Exists(q) => (q \in new <=> q \in old)
          BY <1>1, <1>4, <1>8, <2>4 DEF Pointing
        <4>2. \A q \in Ids : ~Exists(q) => (q \in new <=> q = t.post) /\ q \notin old
          <5>1. /\ t.post \in Ids /\ posts'[t.post] # NoPost /\ posts'[t.post][f] = p
                /\ posts'[t.post].deleted_by # "author"
            BY <1>6, <2>4 DEF Exists, None
          <5>2. \A q \in Ids : ~Exists(q) /\ q # t.post => posts'[q] = NoPost
            BY <1>1 DEF Exists
          <5> QED BY <5>1, <5>2 DEF Pointing, Exists
        <4>3. new \subseteq Ids /\ old \subseteq Ids /\ t.post \in Ids /\ ~Exists(t.post)
          BY <1>6, <2>4 DEF Pointing
        <4> QED BY <4>1, <4>2, <4>3
      <3>2. Cardinality(old \union {t.post}) = Cardinality(old) + 1
        BY <2>2, <3>1, FS_AddElement
      <3>3. posts'[p].counts[c] = posts[p].counts[c] + 1
        BY <1>6, <1>11, <2>3, <2>4 DEF Clamped
      <3> QED BY <2>2, <3>1, <3>2, <3>3 DEF PointsRight
    <2>5. CASE t.op = "delete" /\ posts[t.post][f] = p
      <3>0. t.post \in Ids /\ Exists(t.post) /\ posts[t.post].deleted_by = None
        BY <1>7, <2>5 DEF Live
      <3>1. new = old \ {t.post} /\ t.post \in old
        <4>1. \A q \in Ids : Exists(q) => (q \in new <=> q \in old /\ q # t.post)
          BY <1>1, <1>4, <1>8, <2>5 DEF Pointing
        <4>2. \A q \in Ids : ~Exists(q) => q \notin new /\ q \notin old
          BY <1>1, <2>5 DEF Pointing, Exists
        <4>3. new \subseteq Ids /\ old \subseteq Ids /\ t.post \in old
          BY <2>5, <3>0 DEF Pointing, None
        <4> QED BY <4>1, <4>2, <4>3
      <3>2. Cardinality(old \ {t.post}) = Cardinality(old) - 1
        BY <2>2, <3>1, FS_RemoveElement
      <3>3. posts[p].counts[c] > 0
        <4>1. Cardinality(old) # 0
          BY <2>2, <3>1, FS_EmptySet
        <4> QED BY <2>1, <2>2, <4>1
      <3>4. posts'[p].counts[c] = posts[p].counts[c] - 1
        BY <1>7, <2>3, <2>5, <3>3 DEF Clamped
      <3> QED BY <2>2, <3>1, <3>2, <3>4 DEF PointsRight
    <2>6. CASE ~(t.op = "create" /\ t.row[f] = p) /\ ~(t.op = "delete" /\ posts[t.post][f] = p)
      <3>1. new = old
        <4>1. \A q \in Ids : Exists(q) => (q \in new <=> q \in old)
          BY <1>1, <1>4, <1>8, <2>6 DEF Pointing
        <4>2. \A q \in Ids : ~Exists(q) => q \notin new /\ q \notin old
          BY <1>1, <2>6 DEF Pointing, Exists
        <4>3. new \subseteq Ids /\ old \subseteq Ids
          BY DEF Pointing
        <4> QED BY <4>1, <4>2, <4>3
      <3>2. ~(t.moved /\ t.to = p /\ c = Counter(t))
        <4>1. CASE t.op \in {"like", "unlike"}
          BY <1>3, <4>1 DEF Counter
        <4>2. CASE t.op = "cascade"
          BY <1>1, <4>2 DEF TxOK, CascadeOK
        <4> QED BY <1>1, <1>6, <1>7, <2>6, <4>1, <4>2 DEF TxOK
      <3>3. posts'[p].counts[c] = posts[p].counts[c]
        BY <2>3, <3>2
      <3> QED BY <2>2, <3>1, <3>3 DEF PointsRight
    <2> QED BY <2>4, <2>5, <2>6
  <1> QED BY <1>9, <1>10, <1>11

LEMMA CommitCounters ==
  ASSUME TypeOK, TxInv, Targets, Present, CountersMatch, NEW s \in Sessions, Commit(s)
  PROVE  CountersMatch'
  <1>1. CASE Refused(tx[s])
    <2>1. UNCHANGED <<posts, likes>>
      BY <1>1 DEF Commit, Refused, Committed
    <2> QED BY <2>1 DEF CountersMatch, Pointing, Exists, Live
  <1>2. CASE ~Refused(tx[s])
    <2>1. \A p \in Ids : LikesRight(p) /\ \A f \in Field : PointsRight(p, f)
      BY CountersAre
    <2>2. \A p \in Ids : LikesRight(p)'
      BY <1>2, <2>1, CommitLikes
    <2>3. \A p \in Ids : \A f \in Field : PointsRight(p, f)'
      BY <1>2, <2>1, CommitPoints
    <2> QED BY <2>2, <2>3 DEF CountersMatch, LikesRight, PointsRight, LikesOf, Field, CounterOf
  <1> QED BY <1>1, <1>2

LEMMA CommitStep ==
  ASSUME IInv, NEW s \in Sessions, Commit(s) PROVE IInv'
  <1>1. TypeOK /\ TxInv /\ Targets /\ RepostsAreOfOriginals /\ Present /\ CountersMatch
        /\ MentionedOnce /\ DeletedIsAnnounced /\ ErasureComplete
    BY DEF IInv, DbInv
  <1>2. TypeOK' /\ TxInv'
    BY <1>1, CommitType, CommitKeepsTx
  <1>3. Targets' /\ RepostsAreOfOriginals' /\ Present' /\ CountersMatch'
    BY <1>1, CommitTargets, CommitOriginals, CommitPresent, CommitCounters
  <1>4. MentionedOnce' /\ DeletedIsAnnounced' /\ ErasureComplete'
    BY <1>1, CommitMentioned, CommitDeleted, CommitErasure
  <1> QED BY <1>2, <1>3, <1>4 DEF IInv, DbInv

-----------------------------------------------------------------------------
(* The invariant.                                                          *)

LEMMA InitInv == Init => IInv
  <1> SUFFICES ASSUME Init PROVE IInv
    OBVIOUS
  <1> DEFINE row == NewRow(Author, None, None, FALSE)
  <1>1. /\ row \in Rows /\ row.author = Author /\ row.deleted_by = None
        /\ row.reply_to = None /\ row.repost_of = None /\ \A c \in Counters : row.counts[c] = 0
    <2>1. Author \in Users /\ None \in Ids \union {None} /\ FALSE \in BOOLEAN
      BY PostsAssumption
    <2> QED BY <2>1 DEF NewRow, Rows
  <1> HIDE DEF row
  <1>2. /\ posts = [p \in Ids |-> IF p = First THEN row ELSE NoPost] /\ likes = {}
        /\ mention = [p \in Ids |-> None]
        /\ events = [e \in EventTypes \X Ids |-> IF e = <<"post.created", First>> THEN 1 ELSE 0]
        /\ handled = {} /\ gone = {} /\ tx = [s \in Sessions |-> NoTx]
        /\ repair = [r \in Replicas |-> [leads |-> FALSE, batch |-> {}]]
        /\ lock = [c \in Conns |-> 0] /\ begun = [tx |-> 0, repair |-> 0]
    BY DEF Init, row
  <1>3. First \in Ids /\ None \notin Ids /\ row # NoPost
    BY <1>1, RowIsSome, PostsAssumption DEF None
  <1>4. \A p \in Ids : Exists(p) <=> p = First
    BY <1>2, <1>3 DEF Exists
  <1>5. posts[First] = row
    BY <1>2, <1>3
  <1>6. TypeOK
    <2>1. posts \in [Ids -> Rows \union {NoPost}]
      BY <1>1, <1>2
    <2>2. events \in [EventTypes \X Ids -> Nat]
      BY <1>2
    <2> QED BY <1>2, <2>1, <2>2 DEF TypeOK
  <1>7. TxInv
    BY <1>2 DEF TxInv, TxOK, Disjoint, HeldBy
  <1>8. Targets
    BY <1>1, <1>4, <1>5 DEF Targets, Target
  <1>13. RepostsAreOfOriginals
    BY <1>1, <1>4, <1>5 DEF RepostsAreOfOriginals
  <1>9. Present
    <2>1. {p \in Ids : Exists(p)} = {First}
      BY <1>3, <1>4
    <2>2. IsFiniteSet({First}) /\ IsFiniteSet({})
      BY FS_Singleton, FS_EmptySet
    <2> QED BY <1>2, <2>1, <2>2 DEF Present
  <1>10. CountersMatch
    <2>1. Cardinality({}) = 0
      BY FS_EmptySet
    <2>2. ASSUME NEW p \in Ids PROVE LikesRight(p)
      <3>1. LikesOf(p) = {}
        BY <1>2 DEF LikesOf
      <3> QED BY <1>1, <1>4, <1>5, <2>1, <3>1 DEF LikesRight, Counters
    <2>3. ASSUME NEW p \in Ids, NEW f \in Field PROVE PointsRight(p, f)
      <3>1. row[f] = None
        BY <1>1 DEF Field
      <3>2. Pointing(f, p) = {}
        BY <1>3, <1>4, <1>5, <3>1 DEF Pointing
      <3>3. CounterOf(f) \in Counters
        BY DEF CounterOf, Counters
      <3> QED BY <1>1, <1>4, <1>5, <2>1, <3>2, <3>3 DEF PointsRight, Live
    <2> QED BY <2>2, <2>3, CountersAre
  <1>11. MentionedOnce /\ DeletedIsAnnounced
    <2>1. \A p \in Ids : events[<<"user.mentioned", p>>] = 0 /\ events[<<"post.deleted", p>>] = 0
      BY <1>2 DEF EventTypes
    <2> QED BY <1>1, <1>2, <1>4, <1>5, <2>1 DEF MentionedOnce, DeletedIsAnnounced, None
  <1>12. ErasureComplete
    BY <1>2 DEF ErasureComplete
  <1> QED BY <1>6, <1>7, <1>8, <1>9, <1>10, <1>11, <1>12, <1>13 DEF IInv, DbInv

LEMMA NextInv == IInv /\ [Next]_vars => IInv'
  <1> SUFFICES ASSUME IInv, [Next]_vars PROVE IInv'
    OBVIOUS
  <1>1. ASSUME NEW s \in Sessions, Local(s) PROVE IInv'
    <2>1. TypeOK /\ TxInv /\ Targets /\ RepostsAreOfOriginals /\ Present /\ DbInv
      BY DEF IInv, DbInv
    <2>2. /\ TxInv' /\ tx' \in [Sessions -> OpenTx \union {NoTx}]
          /\ UNCHANGED <<posts, likes, mention, events, handled, repair, lock>>
          /\ gone \subseteq gone' /\ gone' \subseteq Users
          /\ begun' = begun \/ begun' = [begun EXCEPT !.tx = @ + 1]
      BY <1>1, <2>1, LocalStep
    <2>3. begun' \in [tx : Nat, repair : Nat]
      BY <2>1, <2>2, BegunTyped DEF TypeOK
    <2>4. TypeOK'
      BY <2>1, <2>2, <2>3 DEF TypeOK
    <2>5. DbInv'
      BY <2>1, <2>2, DbStays
    <2> QED BY <2>2, <2>4, <2>5 DEF IInv
  <1>2. ASSUME NEW s \in Sessions, Commit(s) PROVE IInv'
    BY <1>2, CommitStep
  <1>3. CASE Repairs
    BY <1>3, RepairStep
  <1>4. CASE UNCHANGED vars
    <2>1. TxInv' /\ tx' \in [Sessions -> OpenTx \union {NoTx}]
      BY <1>4, RepairKeepsTx DEF vars, IInv
    <2>2. TypeOK'
      BY <1>4 DEF vars, IInv, TypeOK
    <2>3. DbInv'
      BY <1>4, DbStays DEF vars, IInv
    <2> QED BY <2>1, <2>2, <2>3 DEF IInv
  <1> QED BY <1>1, <1>2, <1>3, <1>4, NextIs

LEMMA Invariance == Spec => []IInv
  BY InitInv, NextInv, PTL DEF Spec

\* Rows, transactions, counters, runs and the bounds' counts have their types
\* (TypeOK), whatever create, like, unlike, softDelete, the author cascade and
\* the mention repair do.
THEOREM TypeCorrect == Spec => []TypeOK
  BY Invariance, PTL DEF IInv

\* The counters of a post are the number of its likes and, while it is not
\* deleted, of the replies and reposts that point at it.
THEOREM CountersMatchCorrect == Spec => []CountersMatch
  <1>1. IInv => CountersMatch
    BY DEF IInv, DbInv
  <1> QED BY <1>1, Invariance, PTL

\* user.mentioned is published once for a mention that is resolved, by the
\* request or by one of the repairs, however many replicas repair.
THEOREM MentionedOnceCorrect == Spec => []MentionedOnce
  <1>1. IInv => MentionedOnce
    BY DEF IInv, DbInv
  <1> QED BY <1>1, Invariance, PTL

\* softDelete publishes post.deleted once for each post its author deleted,
\* and the author cascade never takes such a post.
THEOREM DeletedIsAnnouncedCorrect == Spec => []DeletedIsAnnounced
  <1>1. IInv => DeletedIsAnnounced
    BY DEF IInv, DbInv
  <1> QED BY <1>1, Invariance, PTL

\* Once user.erased is processed no post of the author is left, if they wrote
\* no more than Batch * Rounds: the cascade's batches reach them all.
THEOREM ErasureCompleteCorrect == Spec => []ErasureComplete
  <1>1. IInv => ErasureComplete
    BY DEF IInv, DbInv
  <1> QED BY <1>1, Invariance, PTL

\* A repost never points at a repost: resolveRepostTarget goes up one level,
\* and that is all there ever is.
THEOREM RepostsAreOfOriginalsCorrect == Spec => []RepostsAreOfOriginals
  <1>1. IInv => RepostsAreOfOriginals
    BY DEF IInv, DbInv
  <1> QED BY <1>1, Invariance, PTL

\* A like is published by a commit that held the row of a post that is not
\* deleted (likePost's FOR UPDATE).
THEOREM LikeNeedsPostCorrect == Spec => LikeNeedsPost
  <1> DEFINE A == \A p \in Ids : events'[<<"post.liked", p>>] > events[<<"post.liked", p>>]
                                   => Live(p)
             typ == "post.liked"
  <1>1. ASSUME IInv, Next, NEW p \in Ids, events'[<<typ, p>>] > events[<<typ, p>>] PROVE Live(p)
    <2>1. TypeOK /\ TxInv /\ Targets /\ RepostsAreOfOriginals /\ Present /\ typ \in EventTypes
      BY <1>1 DEF IInv, DbInv, EventTypes
    <2>2. events[<<typ, p>>] \in Nat
      BY <2>1 DEF TypeOK
    <2>3. events'[<<typ, p>>] # events[<<typ, p>>]
      BY <1>1, <2>2
    <2>4. ASSUME NEW s \in Sessions, Local(s) PROVE FALSE
      BY <2>1, <2>3, <2>4, LocalStep
    <2>5. ASSUME Repairs PROVE FALSE
      <3>1. ASSUME NEW types, NEW q, events' = EventsAfter(types, q), typ \notin types PROVE FALSE
        BY <2>1, <2>3, <3>1, EventsAre
      <3>2. \A q : events' # EventsAfter({"user.mentioned"}, q)
        BY <3>1
      <3> QED BY <2>3, <2>5, <3>2 DEF Repairs, Lead, Unlock, ResolveMention, SkipMention, Committed
    <2>6. ASSUME NEW s \in Sessions, Commit(s) PROVE Live(p)
      <3> DEFINE t == tx[s]
      <3>1. t # NoTx /\ t.at = "commit" /\ t \in OpenTx /\ TxOK(t)
        BY <2>1, <2>6, CommitFrame
      <3>2. ~Refused(t)
        BY <2>3, <2>6 DEF Commit, Refused, Committed
      <3>3. events' = EventsAfter(Emitted(t), t.post)
        BY <2>6, <3>2, CommitWrites
      <3>4. typ \in Emitted(t) /\ p = t.post
        BY <2>1, <2>3, <3>3, EventsAre
      <3>5. t.op = "like"
        BY <3>1, <3>4 DEF Emitted, OpenTx
      <3> QED BY <3>1, <3>4, <3>5 DEF TxOK, LikeOK
    <2> QED BY <1>1, <2>4, <2>5, <2>6, NextIs
  <1>2. IInv /\ [Next]_vars => [A]_vars
    BY <1>1
  <1> QED BY <1>2, Invariance, PTL DEF Spec, LikeNeedsPost
===============================================================================
