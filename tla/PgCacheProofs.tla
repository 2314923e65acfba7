---------------------------- MODULE PgCacheProofs ----------------------------
(***************************************************************************)
(* Theorems about MemCache and PgCache: both cache backends implement the  *)
(* map of TtlCache, for any keys, values and clock readings.               *)
(***************************************************************************)
EXTENDS PgCache, TLAPS

Map == [Keys -> Item \cup {NoItem}]

\* The backend in memory: what its undo log stands for.
MemInv ==
  /\ TypeOK
  /\ flushed => open /\ \A k \in Keys : xkeys[k] # NotSaved
  /\ ~flushed => \A k \in Keys : base[k] = IF xkeys[k] = NotSaved THEN keys[k] ELSE xkeys[k]
  /\ ~open => xkeys = EmptyLog /\ granted = {}
  /\ postgres => keys = Empty /\ base = Empty /\ xkeys = EmptyLog /\ ~flushed /\ granted = {}

\* The backend in PostgreSQL: rows that are not locked are as committed.
TableInv ==
  /\ rows \in Map /\ saved \in Map
  /\ \A k \in Keys \ locked : rows[k] = saved[k]
  /\ ~open => rows = saved /\ spent = {}
  /\ ~postgres => rows = Empty /\ saved = Empty /\ spent = {} /\ locked = {}

IInv == postgres \in BOOLEAN /\ MemInv /\ TableInv

-----------------------------------------------------------------------------
(* What a map answers. *)

LEMMA ItemFacts ==
  /\ \A item \in Item : item.exp \in Nat /\ item # NoItem /\ item # NotSaved
  /\ NoItem # NotSaved
BY SentinelAssumption, TimeAssumption DEF Item

\* What has not expired by a later time had not expired before.
LEMMA AnswersLater ==
  ASSUME NEW t \in Nat, NEW u \in Nat, t <= u, NEW item \in Item \cup {NoItem}
  PROVE  /\ SqlFound(item, u) = SqlFound(SqlFound(item, t), u)
         /\ Found(item, u) = Found(Found(item, t), u)
BY ItemFacts DEF SqlFound, Lives, Found, Fresh, Expired

\* An item that has expired by a time is not found later.
LEMMA GoneLater ==
  ASSUME NEW t \in Nat, NEW u \in Nat, t <= u, NEW item \in Item
  PROVE  /\ ~Lives(item, t) => SqlFound(item, u) = NoItem
         /\ Expired(item, t) => Found(item, u) = NoItem
BY ItemFacts DEF SqlFound, Lives, Found, Fresh, Expired

LEMMA AnswersOfEmpty == Answers(Empty) = Empty /\ SqlAnswers(Empty) = Empty
BY DEF Answers, SqlAnswers, Found, SqlFound, Empty

-----------------------------------------------------------------------------
(* The invariant. *)

LEMMA MemStep == ASSUME IInv, [EitherNext]_<<vars, table, postgres>> PROVE MemInv'
<1> USE DEF IInv, MemInv, TypeOK
<1> USE TimeAssumption, ItemFacts
<1>1. CASE postgres /\ SqlNext
  <2>1. UNCHANGED <<keys, flushed, xkeys, base, granted, postgres>>
    BY <1>1 DEF SqlNext, Tick, SqlBegin, SqlEnd, SqlCommit, SqlRollback, SqlFlush, SqlDel, SqlSet, Prune,
                Elsewhere
  <2>2. now' \in 0..MaxTime /\ open' \in BOOLEAN
    <3>1. CASE Tick
      BY <3>1 DEF Tick
    <3>2. CASE now' = now
      BY <1>1, <3>2 DEF SqlNext, Tick, SqlBegin, SqlEnd, SqlCommit, SqlRollback, SqlFlush, SqlDel, SqlSet, Prune
    <3> QED BY <1>1, <3>1, <3>2 DEF SqlNext, SqlBegin, SqlEnd, SqlCommit, SqlRollback, SqlFlush, SqlDel,
                                    SqlSet, Prune
  <2> QED BY <1>1, <2>1, <2>2 DEF Empty, EmptyLog
<1>2. CASE UNCHANGED <<vars, table, postgres>>
  BY <1>2 DEF vars
<1>3. CASE ~postgres /\ Next /\ UNCHANGED <<table, postgres>>
  <2>1. CASE Tick \/ Begin
    <3>1. CASE Tick
      <4>1. now' \in 0..MaxTime /\ UNCHANGED <<keys, open, flushed, xkeys, base, granted>>
        BY <3>1 DEF Tick
      <4> QED BY <1>3, <4>1
    <3>2. CASE Begin
      BY <1>3, <3>2 DEF Begin
    <3> QED BY <2>1, <3>1, <3>2
  <2>2. CASE Commit \/ Rollback
    <3>1. CASE Commit
      BY <1>3, <3>1 DEF Commit, Discard, EmptyLog
    <3>2. CASE Rollback
      <4>1. /\ keys' = [k \in Keys |-> IF xkeys[k] = NotSaved THEN keys[k] ELSE xkeys[k]]
            /\ base' = keys' /\ open' = FALSE /\ flushed' = FALSE /\ xkeys' = EmptyLog /\ granted' = {} /\ now' = now
        BY <1>3, <3>2 DEF Rollback, Discard
      <4>2. keys' \in [Keys -> Item \cup {NoItem}]
        BY <4>1
      <4>3. \A k \in Keys : xkeys'[k] = NotSaved
        BY <4>1 DEF EmptyLog
      <4>4. xkeys' \in [Keys -> Item \cup {NoItem, NotSaved}] /\ granted' \in SUBSET Keys
        BY ONLY <4>1 DEF EmptyLog
      <4>5. now' \in 0..MaxTime
        BY <4>1
      <4>6. TypeOK'
        BY ONLY <4>1, <4>2, <4>4, <4>5 DEF TypeOK
      <4>7. ~postgres'
        BY <1>3
      <4> QED BY ONLY <4>1, <4>3, <4>6, <4>7 DEF MemInv
    <3> QED BY <2>2, <3>1, <3>2
  <2>3. CASE Flush
    BY <1>3, <2>3 DEF Flush, Empty
  <2>4. ASSUME NEW k \in Keys, Del(k) \/ DelMissing(k) \/ \E item \in Item : Set(k, item) PROVE MemInv'
    BY <1>3, <2>4 DEF Del, DelMissing, Set, Backup
  <2>5. ASSUME NEW at \in 0..MaxTime, Reap(at) PROVE MemInv'
    BY <1>3, <2>5 DEF Reap, EmptyLog
  <2> QED BY <1>3, <2>1, <2>2, <2>3, <2>4, <2>5 DEF Next
<1> QED BY <1>1, <1>2, <1>3 DEF EitherNext

LEMMA TableStep == ASSUME IInv, [EitherNext]_<<vars, table, postgres>> PROVE TableInv'
<1> USE DEF IInv, TableInv, Map
<1>1. CASE ~postgres /\ Next /\ UNCHANGED <<table, postgres>>
  BY <1>1 DEF table, Empty
<1>2. CASE UNCHANGED <<vars, table, postgres>>
  BY <1>2 DEF vars, table
<1>3. CASE postgres /\ SqlNext
  <2>1. CASE Tick /\ UNCHANGED <<table, postgres>>
    BY <1>3, <2>1 DEF Tick, table
  <2>2. CASE SqlBegin \/ SqlCommit \/ SqlRollback
    BY <1>3, <2>2 DEF SqlBegin, SqlCommit, SqlRollback, SqlEnd, table, Elsewhere
  <2>3. CASE SqlFlush
    BY <1>3, <2>3 DEF SqlFlush, Elsewhere, Empty
  <2>4. ASSUME NEW k \in Keys, SqlDel(k) \/ \E item \in Item : SqlSet(k, item) PROVE TableInv'
    <3>1. CASE SqlDel(k)
      BY <1>3, <3>1 DEF SqlDel, Elsewhere
    <3>2. ASSUME NEW item \in Item, SqlSet(k, item) PROVE TableInv'
      BY <1>3, <3>2 DEF SqlSet, Elsewhere
    <3> QED BY <2>4, <3>1, <3>2
  <2>5. ASSUME NEW at \in 0..MaxTime, Prune(at) PROVE TableInv'
    BY <1>3, <2>5 DEF Prune, Elsewhere
  <2> QED BY <1>3, <2>1, <2>2, <2>3, <2>4, <2>5 DEF SqlNext
<1> QED BY <1>1, <1>2, <1>3 DEF EitherNext

LEMMA Invariant == EitherSpec => []IInv
<1>1. EitherInit => IInv
  <2> SUFFICES ASSUME EitherInit PROVE IInv
    OBVIOUS
  <2>1. Empty \in Map /\ EmptyLog \in [Keys -> Item \cup {NoItem, NotSaved}] /\ 0 \in 0..MaxTime
    BY TimeAssumption DEF Map, Empty, EmptyLog
  <2>2. TypeOK
    BY <2>1 DEF EitherInit, Init, TypeOK, Map
  <2>3. MemInv
    BY <2>2, ItemFacts DEF EitherInit, Init, MemInv, Empty, EmptyLog
  <2> QED BY <2>1, <2>3 DEF EitherInit, IInv, TableInv, Init
<1>2. IInv /\ [EitherNext]_<<vars, table, postgres>> => IInv'
  <2>1. IInv /\ [EitherNext]_<<vars, table, postgres>> => postgres' = postgres
    BY DEF EitherNext, SqlNext, SqlBegin, SqlCommit, SqlRollback, SqlEnd, SqlFlush, SqlDel, SqlSet, Prune,
           Elsewhere
  <2> QED BY <2>1, MemStep, TableStep DEF IInv
<1> QED BY <1>1, <1>2, PTL DEF EitherSpec

-----------------------------------------------------------------------------
(* The table implements the map. *)

\* Time removes entries from the answers, and from nothing else.
LEMMA AnswersTick ==
  ASSUME NEW map \in Map, now \in Nat, now' = now + 1
  PROVE  /\ [k \in Keys |-> SqlFound(map[k], now')] = SC!Left(SqlAnswers(map), now')
         /\ [k \in Keys |-> Found(map[k], now')] = TC!Left(Answers(map), now')
<1>1. now' \in Nat /\ now <= now'
  OBVIOUS
<1>2. \A k \in Keys : map[k] \in Item \cup {NoItem}
  BY DEF Map
<1>3. \A k \in Keys : SqlFound(map[k], now') = SqlFound(SqlFound(map[k], now), now')
  BY <1>1, <1>2, AnswersLater
<1>4. \A k \in Keys : Found(map[k], now') = Found(Found(map[k], now), now')
  BY <1>1, <1>2, AnswersLater
<1>5. SC!Left(SqlAnswers(map), now') = [k \in Keys |-> SqlFound(SqlFound(map[k], now), now')]
  BY DEF SC!Left, SqlAnswers, SqlFound
<1>6. TC!Left(Answers(map), now') = [k \in Keys |-> Found(Found(map[k], now), now')]
  BY DEF TC!Left, Answers, Found
<1> QED BY <1>3, <1>4, <1>5, <1>6

\* Every step of either backend, as one of the map the table stands for.
LEMMA TableSteps ==
  ASSUME IInv, IInv', [EitherNext]_<<vars, table, postgres>>
  PROVE  [SC!Next]_SC!vars
<1> DEFINE committed == SqlAnswers(saved)
           working   == SqlAnswers(rows)
<1>1. /\ now \in Nat /\ rows \in Map /\ saved \in Map
      /\ \A k \in Keys \ locked : rows[k] = saved[k]
      /\ ~postgres => rows = Empty /\ saved = Empty /\ spent = {}
  BY TimeAssumption DEF IInv, MemInv, TypeOK, TableInv
<1>2. ASSUME now' = now, rows' = rows, saved' = saved
      PROVE  SqlAnswers(rows)' = working /\ SqlAnswers(saved)' = committed
  BY <1>2 DEF SqlAnswers
<1>3. ASSUME UNCHANGED <<now, rows, saved, open, spent>> PROVE UNCHANGED SC!vars
  BY <1>2, <1>3 DEF SC!vars
<1>4. ASSUME Tick, rows' = rows, saved' = saved, spent' = spent PROVE SC!Tick
  <2>1. now' = now + 1 /\ open' = open
    BY <1>4 DEF Tick
  <2>2. SqlAnswers(rows)' = SC!Left(working, now') /\ SqlAnswers(saved)' = SC!Left(committed, now')
    BY <1>1, <1>4, <2>1, AnswersTick DEF SqlAnswers
  <2> QED BY <1>1, <1>4, <2>1, <2>2 DEF SC!Tick
<1>5. CASE ~postgres /\ Next /\ UNCHANGED <<table, postgres>>
  <2>1. rows' = rows /\ saved' = saved /\ spent' = spent
    BY <1>5 DEF table
  <2>2. CASE Tick
    BY <1>4, <2>1, <2>2 DEF SC!Next
  <2>3. CASE Begin
    <3>1. ~open /\ open' = TRUE /\ now' = now
      BY <2>3 DEF Begin
    <3> QED BY <1>2, <2>1, <3>1 DEF SC!Begin, SC!Next
  <2>4. CASE Commit \/ Rollback
    <3>1. open /\ open' = FALSE /\ now' = now
      BY <2>4 DEF Commit, Rollback, Discard
    <3>2. spent' = {} /\ rows = saved
      BY <1>1, <1>5, <2>1
    <3> QED BY <1>2, <2>1, <3>1, <3>2 DEF SC!End, SC!Commit, SC!Next
  <2>5. CASE Flush \/ (\E k \in Keys : Del(k) \/ DelMissing(k) \/ \E item \in Item : Set(k, item))
             \/ \E at \in 0..MaxTime : Reap(at)
    <3>1. now' = now /\ open' = open
      BY <2>5 DEF Flush, Del, DelMissing, Set, Reap
    <3> QED BY <1>3, <2>1, <3>1
  <2> QED BY <1>5, <2>2, <2>3, <2>4, <2>5 DEF Next
<1>6. CASE UNCHANGED <<vars, table, postgres>>
  BY <1>3, <1>6 DEF vars, table
<1>7. CASE postgres /\ SqlNext
  <2>1. CASE Tick /\ UNCHANGED <<table, postgres>>
    BY <1>4, <2>1 DEF SC!Next, table
  <2>2. CASE SqlBegin
    <3>1. ~open /\ open' = TRUE /\ now' = now /\ rows' = rows /\ saved' = saved /\ spent' = spent
      BY <2>2 DEF SqlBegin, table
    <3> QED BY <1>2, <3>1 DEF SC!Begin, SC!Next
  <2>3. CASE SqlCommit
    <3>1. open /\ open' = FALSE /\ now' = now /\ saved' = rows /\ rows' = rows /\ spent' = {}
      BY <2>3 DEF SqlCommit, SqlEnd
    <3>2. SqlAnswers(rows)' = working /\ SqlAnswers(saved)' = working
      BY <3>1 DEF SqlAnswers
    <3> QED BY <3>1, <3>2 DEF SC!End, SC!Commit, SC!Next
  <2>4. CASE SqlRollback
    <3>1. open /\ open' = FALSE /\ now' = now /\ saved' = saved /\ rows' = saved /\ spent' = {}
      BY <2>4 DEF SqlRollback, SqlEnd
    <3>2. SqlAnswers(rows)' = committed /\ SqlAnswers(saved)' = committed
      BY <3>1 DEF SqlAnswers
    <3> QED BY <3>1, <3>2 DEF SC!End, SC!Rollback, SC!Next
  <2>5. CASE SqlFlush
    <3>1. open /\ open' = open /\ now' = now /\ saved' = saved /\ rows' = Empty /\ spent' = spent
      BY <2>5 DEF SqlFlush
    <3>2. SqlAnswers(rows)' = [k \in Keys |-> NoItem] /\ SqlAnswers(saved)' = committed
      BY <3>1 DEF SqlAnswers, SqlFound, Empty
    <3> QED BY <3>1, <3>2 DEF SC!Flush, SC!Next
  <2>6. ASSUME NEW k \in Keys, SqlDel(k) PROVE SC!Next
    <3>1. /\ open /\ open' = open /\ now' = now /\ saved' = saved /\ spent' = spent \cup {k}
          /\ rows' = [rows EXCEPT ![k] = NoItem] /\ SqlFound(rows[k], now) # NoItem
      BY <2>6 DEF SqlDel
    <3>2. SqlAnswers(rows)' = [working EXCEPT ![k] = SqlFound(NoItem, now)]
      BY <1>1, <3>1 DEF SqlAnswers, Map
    <3>3. SqlFound(NoItem, now) = NoItem /\ working[k] # NoItem /\ SqlAnswers(saved)' = committed
      BY <3>1 DEF SqlFound, SqlAnswers
    <3>4. SC!Del(k)
      BY <3>1, <3>2, <3>3 DEF SC!Del
    <3> QED BY <3>4 DEF SC!Next
  <2>7. ASSUME NEW k \in Keys, NEW item \in Item, SqlSet(k, item) PROVE SC!Next
    <3>1. /\ open /\ open' = open /\ now' = now /\ saved' = saved /\ spent' = spent
          /\ rows' = [rows EXCEPT ![k] = item]
      BY <2>7 DEF SqlSet
    <3>2. SqlAnswers(rows)' = SC!Left([working EXCEPT ![k] = item], now)
      <4>1. SqlAnswers(rows)' = [j \in Keys |-> SqlFound(IF j = k THEN item ELSE rows[j], now)]
        BY <1>1, <3>1 DEF SqlAnswers, Map
      <4>2. SC!Left([working EXCEPT ![k] = item], now)
              = [j \in Keys |-> SqlFound(IF j = k THEN item ELSE SqlFound(rows[j], now), now)]
        BY DEF SC!Left, SqlAnswers, SqlFound
      <4>3. \A j \in Keys : SqlFound(SqlFound(rows[j], now), now) = SqlFound(rows[j], now)
        BY DEF SqlFound
      <4> QED BY <4>1, <4>2, <4>3
    <3>3. SqlAnswers(saved)' = committed
      BY <3>1 DEF SqlAnswers
    <3>4. SC!Set(k, item)
      BY <3>1, <3>2, <3>3 DEF SC!Set
    <3> QED BY <3>4 DEF SC!Next
  <2>8. ASSUME NEW at \in 0..MaxTime, Prune(at) PROVE UNCHANGED SC!vars
    <3> DEFINE gone == {k \in Keys \ locked : saved[k] # NoItem /\ ~Lives(saved[k], at)}
    <3>1. /\ now' = now /\ open' = open /\ spent' = spent /\ at \in Nat /\ at <= now
          /\ rows' = [k \in Keys |-> IF k \in gone THEN NoItem ELSE rows[k]]
          /\ saved' = [k \in Keys |-> IF k \in gone THEN NoItem ELSE saved[k]]
      BY <1>1, <2>8 DEF Prune
    <3>2. \A k \in gone : saved[k] \in Item /\ rows[k] = saved[k] /\ ~Lives(saved[k], at)
      BY <1>1 DEF Map
    <3>3. \A k \in gone : SqlFound(rows[k], now) = NoItem /\ SqlFound(saved[k], now) = NoItem
      BY <1>1, <3>1, <3>2, GoneLater
    <3>4. SqlFound(NoItem, now) = NoItem
      BY DEF SqlFound
    <3> HIDE DEF gone
    <3>5. SqlAnswers(rows)' = working /\ SqlAnswers(saved)' = committed
      BY <3>1, <3>3, <3>4 DEF SqlAnswers
    <3> QED BY <3>1, <3>5 DEF SC!vars
  <2> QED BY <1>7, <2>1, <2>2, <2>3, <2>4, <2>5, <2>6, <2>7, <2>8 DEF SqlNext
<1> QED BY <1>5, <1>6, <1>7 DEF EitherNext

\* The cache in PostgreSQL is a map whose entries vanish the moment they
\* expire, whatever it prunes and when, in which transactions are all or
\* nothing and Del grants a key only while it is there (cache.go:115-204).
THEOREM TableIsTtlCache == EitherSpec => TableImplementsTtlCache
<1>1. EitherInit => SC!Init
  BY AnswersOfEmpty DEF EitherInit, Init, SC!Init, Empty
<1>2. IInv /\ IInv' /\ [EitherNext]_<<vars, table, postgres>> => [SC!Next]_SC!vars
  BY TableSteps
<1> QED BY <1>1, <1>2, Invariant, PTL DEF EitherSpec, TableImplementsTtlCache, SC!Spec

-----------------------------------------------------------------------------
(* The map in memory implements it, too. *)

\* What a rollback may restore besides what the transaction began with.
Former == IF flushed THEN xkeys ELSE base

LEMMA MemSteps ==
  ASSUME IInv, IInv', [EitherNext]_<<vars, table, postgres>>
  PROVE  [TC!Next]_TC!vars
<1> DEFINE committed == Answers(base)
           working   == Answers(keys)
           fallback  == Answers(Former)
<1>1. /\ now \in Nat /\ keys \in Map /\ base \in Map /\ Former \in Map
      /\ flushed => open /\ \A k \in Keys : xkeys[k] # NotSaved
      /\ ~flushed => \A k \in Keys : base[k] = IF xkeys[k] = NotSaved THEN keys[k] ELSE xkeys[k]
      /\ ~open => xkeys = EmptyLog /\ granted = {}
  <2>1. flushed => xkeys \in Map
    BY DEF IInv, MemInv, TypeOK, Map
  <2> QED BY <2>1, TimeAssumption DEF IInv, MemInv, TypeOK, Map, Former
<1>2. /\ now' = now /\ keys' = keys => Answers(keys)' = working
      /\ now' = now /\ base' = base => Answers(base)' = committed
      /\ now' = now /\ Former' = Former => Answers(Former)' = fallback
  BY DEF Answers
<1>3. ASSUME UNCHANGED <<now, keys, base, Former, open, granted>> PROVE UNCHANGED TC!vars
  BY <1>2, <1>3 DEF TC!vars, Former
<1>4. ASSUME Tick, UNCHANGED <<keys, base, Former, granted>> PROVE TC!Tick
  <2>1. now' = now + 1 /\ open' = open
    BY <1>4 DEF Tick
  <2>2. /\ Answers(keys)' = TC!Left(working, now') /\ Answers(base)' = TC!Left(committed, now')
        /\ Answers(Former)' = TC!Left(fallback, now')
    BY <1>1, <1>4, <2>1, AnswersTick, ZenonT(30) DEF Answers
  <2> QED BY <1>1, <1>4, <2>1, <2>2 DEF TC!Tick, Former
<1>5. CASE postgres /\ SqlNext
  <2>1. UNCHANGED <<keys, flushed, xkeys, base, granted, postgres>>
    BY <1>5 DEF SqlNext, Tick, SqlBegin, SqlEnd, SqlCommit, SqlRollback, SqlFlush, SqlDel, SqlSet, Prune,
                Elsewhere
  <2>2. keys = Empty /\ base = Empty /\ Former = Empty /\ granted = {} /\ Former' = Former
    BY <1>5, <2>1 DEF IInv, MemInv, Former
  <2>3. CASE Tick
    BY <1>4, <2>1, <2>2, <2>3 DEF TC!Next
  <2>4. CASE SqlBegin
    <3>1. ~open /\ open' = TRUE /\ now' = now
      BY <2>4 DEF SqlBegin
    <3> QED BY <1>2, <2>1, <2>2, <3>1 DEF TC!Begin, TC!Next, Former
  <2>5. CASE SqlCommit \/ SqlRollback
    <3>1. open /\ open' = FALSE /\ now' = now
      BY <2>5 DEF SqlCommit, SqlRollback, SqlEnd
    <3> QED BY <1>2, <2>1, <2>2, <3>1 DEF TC!End, TC!Commit, TC!Next, Former
  <2>6. CASE SqlFlush \/ (\E k \in Keys : SqlDel(k) \/ \E item \in Item : SqlSet(k, item))
             \/ \E at \in 0..MaxTime : Prune(at)
    <3>1. now' = now /\ open' = open
      BY <2>6 DEF SqlFlush, SqlDel, SqlSet, Prune
    <3> QED BY <1>3, <2>1, <2>2, <3>1
  <2> QED BY <1>5, <2>3, <2>4, <2>5, <2>6 DEF SqlNext
<1>6. CASE UNCHANGED <<vars, table, postgres>>
  BY <1>3, <1>6 DEF vars, Former
<1>7. CASE ~postgres /\ Next
  <2>1. CASE Tick
    <3>1. UNCHANGED <<keys, base, Former, granted>>
      BY <2>1 DEF Tick, Former
    <3> QED BY <1>4, <2>1, <3>1 DEF TC!Next
  <2>2. CASE Begin
    <3>1. ~open /\ open' = TRUE /\ now' = now /\ keys' = keys /\ base' = base /\ Former' = Former
          /\ granted' = granted
      BY <2>2 DEF Begin, Former
    <3> QED BY <1>2, <3>1 DEF TC!Begin, TC!Next, Former
  <2>3. CASE Commit
    <3>1. open /\ open' = FALSE /\ now' = now /\ keys' = keys /\ base' = keys /\ Former' = keys
          /\ granted' = {}
      BY <2>3 DEF Commit, Discard, Former
    <3>2. Answers(keys)' = working /\ Answers(base)' = working /\ Answers(Former)' = working
      BY <3>1 DEF Answers
    <3> QED BY <3>1, <3>2 DEF TC!End, TC!Commit, TC!Next, Former
  <2>4. CASE Rollback
    <3>1. open /\ open' = FALSE /\ now' = now /\ base' = keys' /\ Former' = keys' /\ granted' = {}
      BY <2>4 DEF Rollback, Discard, Former
    <3>2. keys' = Former
      <4>1. keys' = [k \in Keys |-> IF xkeys[k] = NotSaved THEN keys[k] ELSE xkeys[k]]
        BY <2>4 DEF Rollback
      <4>2. \A k \in Keys : Former[k] = IF xkeys[k] = NotSaved THEN keys[k] ELSE xkeys[k]
        BY <1>1 DEF Former
      <4> QED BY <1>1, <4>1, <4>2 DEF Map
    <3>3. Answers(keys)' = fallback /\ Answers(base)' = fallback /\ Answers(Former)' = fallback
      BY <3>1, <3>2 DEF Answers
    <3> QED BY <3>1, <3>3 DEF TC!End, TC!Rollback, TC!Next, Former
  <2>5. CASE Flush
    <3>1. open /\ open' = open /\ now' = now /\ base' = base /\ granted' = granted /\ keys' = Empty
          /\ Former' = IF flushed THEN Former ELSE keys
      BY <2>5 DEF Flush, Former
    <3>2. Answers(keys)' = [k \in Keys |-> NoItem]
      BY <3>1 DEF Answers, Found, Empty
    <3>3. Answers(Former)' = fallback \/ Answers(Former)' = working
      BY <3>1 DEF Answers
    <3> QED BY <1>2, <3>1, <3>2, <3>3 DEF TC!Flush, TC!Next, Former
  <2>6. ASSUME NEW k \in Keys, Del(k) PROVE TC!Next
    <3>1. /\ open /\ open' = open /\ now' = now /\ base' = base /\ granted' = granted \cup {k}
          /\ keys' = [keys EXCEPT ![k] = NoItem] /\ Found(keys[k], now) # NoItem /\ Former' = Former
      BY <2>6 DEF Del, Backup, Former
    <3>2. Found(NoItem, now) = NoItem /\ working[k] # NoItem
      BY <3>1 DEF Found, Answers
    <3>3. Answers(keys)' = [working EXCEPT ![k] = NoItem]
      BY <1>1, <3>1, <3>2 DEF Answers, Map
    <3>4. TC!Del(k)
      BY <1>2, <3>1, <3>2, <3>3 DEF TC!Del, Former
    <3> QED BY <3>4 DEF TC!Next
  <2>7. ASSUME NEW k \in Keys, DelMissing(k) PROVE UNCHANGED TC!vars
    <3>1. /\ open' = open /\ now' = now /\ base' = base /\ granted' = granted
          /\ keys' = [keys EXCEPT ![k] = NoItem] /\ Found(keys[k], now) = NoItem /\ Former' = Former
      BY <2>7 DEF DelMissing, Backup, Former
    <3>2. Answers(keys)' = working
      BY <1>1, <3>1 DEF Answers, Map, Found
    <3> QED BY <1>2, <3>1, <3>2 DEF TC!vars, Former
  <2>8. ASSUME NEW k \in Keys, NEW item \in Item, Set(k, item) PROVE TC!Next
    <3>1. /\ open /\ open' = open /\ now' = now /\ base' = base /\ granted' = granted
          /\ keys' = [keys EXCEPT ![k] = item] /\ Former' = Former
      BY <2>8 DEF Set, Backup, Former
    <3>2. Answers(keys)' = TC!Left([working EXCEPT ![k] = item], now)
      <4>1. Answers(keys)' = [j \in Keys |-> Found(IF j = k THEN item ELSE keys[j], now)]
        BY <1>1, <3>1 DEF Answers, Map
      <4>2. TC!Left([working EXCEPT ![k] = item], now)
              = [j \in Keys |-> Found(IF j = k THEN item ELSE Found(keys[j], now), now)]
        BY DEF TC!Left, Answers, Found
      <4>3. \A j \in Keys : Found(Found(keys[j], now), now) = Found(keys[j], now)
        BY DEF Found
      <4> QED BY <4>1, <4>2, <4>3
    <3>3. TC!Set(k, item)
      BY <1>2, <3>1, <3>2 DEF TC!Set, Former
    <3> QED BY <3>3 DEF TC!Next
  <2>9. ASSUME NEW at \in 0..MaxTime, Reap(at) PROVE UNCHANGED TC!vars
    <3>1. /\ ~open /\ now' = now /\ open' = open /\ granted' = granted /\ flushed' = flushed
          /\ at \in Nat /\ at <= now /\ base' = keys'
          /\ keys' = [k \in Keys |-> IF keys[k] # NoItem /\ Expired(keys[k], at) THEN NoItem ELSE keys[k]]
      BY <1>1, <2>9 DEF Reap
    <3>2. ~flushed /\ keys = base /\ Former = base /\ Former' = base'
      BY <1>1, <3>1 DEF Former, EmptyLog, Map
    <3>3. \A k \in Keys : keys[k] # NoItem /\ Expired(keys[k], at) => Found(keys[k], now) = NoItem
      BY <1>1, <3>1, GoneLater DEF Map
    <3>4. Found(NoItem, now) = NoItem
      BY DEF Found
    <3>5. Answers(keys)' = working
      BY <3>1, <3>3, <3>4 DEF Answers
    <3> QED BY <3>1, <3>2, <3>5 DEF TC!vars, Former
  <2> QED BY <1>7, <2>1, <2>2, <2>3, <2>4, <2>5, <2>6, <2>7, <2>8, <2>9 DEF Next
<1> QED BY <1>5, <1>6, <1>7 DEF EitherNext

\* The cache in memory is the same map, but for what a flush does to a
\* rollback, however late its reaper is (cache.go:93-233).
THEOREM MemIsTtlCache == EitherSpec => ImplementsTtlCache
<1>1. EitherInit => TC!Init
  BY AnswersOfEmpty DEF EitherInit, Init, TC!Init, Empty
<1>2. IInv /\ IInv' /\ [EitherNext]_<<vars, table, postgres>> => [TC!Next]_TC!vars
  BY MemSteps
<1> QED BY <1>1, <1>2, Invariant, PTL DEF EitherSpec, ImplementsTtlCache, TC!Spec
=============================================================================
