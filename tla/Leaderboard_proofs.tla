-------------------------- MODULE Leaderboard_proofs --------------------------
(***************************************************************************)
(* Proofs about Leaderboard, for any players, races and results: what the  *)
(* concurrent FinishRace transactions leave in Postgres, what the readers  *)
(* make of it, and that the all-time board is Scoreboard.                  *)
(***************************************************************************)
EXTENDS Leaderboard, FiniteSetTheorems, TLAPS

LineType == [races : Nat, wins : Nat, best : Nat]

\* A transaction: the ranks and lines it has written are partial functions.
TxType ==
    [pc : {"none", "race", "next", "upsert"}, todo : SUBSET Result, cur : SUBSET Result,
     ranks : UNION {[S -> Nat] : S \in SUBSET Users},
     lines : UNION {[S -> LineType] : S \in SUBSET Users}]

Open(r) == tx[r].pc # "none"

\* A transaction deals with its race's results one by one; a closed one has written
\* nothing and only a race that is not finished has an open one.
TxOK ==
    /\ tx \in [Races -> TxType]
    /\ \A r \in Races :
        /\ tx[r].todo \subseteq Results[r] /\ tx[r].cur \subseteq tx[r].todo
        /\ tx[r].pc # "upsert" => tx[r].cur = {}
        /\ IF Open(r) THEN r \notin finished /\ DOMAIN tx[r].ranks = Rows[r] ELSE DOMAIN tx[r].lines = {}

\* A line is locked by the transaction that has written it and by no other.
LocksOK == \A r \in Races, u \in Users : lock[u] = r <=> u \in DOMAIN tx[r].lines

\* b is the best of the times S.
IsBest(b, S) == IF S = {} THEN b = NoTime ELSE b \in S /\ \A s \in S : b <= s

\* The line new is the line old with the results D added.
Adds(new, old, D) ==
    /\ new.races = old.races + Cardinality(D)
    /\ new.wins = old.wins + Cardinality({res \in D : res.rank = 1})
    /\ IsBest(new.best, ({old.best} \ {NoTime}) \cup ({res.time : res \in D} \ {NoTime}))

\* What the transaction of r has dealt with of user u.
Dealt(r, u) == {res \in Results[r] : res.user = u} \ tx[r].todo

\* Each line an open transaction sees is the committed one with what it has dealt
\* with so far: nobody else has added to a line in the meantime.
LinesOK == \A r \in Races : Open(r) => \A u \in Users : Adds(Line(r, u), board[u], Dealt(r, u))

\* f has a rank for each of the results S, and none that is not some result's.
Filled(r, f, S) == \A res \in S : res.user \in Rows[r] => f[res.user] # Null
Sourced(r, f) == \A u \in Rows[r] : f[u] # Null => \E res \in Results[r] : res.user = u /\ res.rank = f[u]

RanksOK ==
    /\ finishRank \in [Races -> UNION {[S -> Nat] : S \in SUBSET Users}]
    /\ \A r \in Races :
        /\ Sourced(r, finishRank[r])
        /\ status[r] = "finished" => Filled(r, finishRank[r], Results[r])
        /\ Open(r) => /\ Sourced(r, tx[r].ranks)
                      /\ Filled(r, tx[r].ranks, (Results[r] \ tx[r].todo) \cup tx[r].cur)

\* The message follows r.finished, which follows the commit.
PublishedLast == published \subseteq finished /\ \A r \in finished : status[r] = "finished"

\* A race has been committed once for each lost reply, and once more when finished.
CommitsOK == \A r \in Races : commits[r] <= (IF r \in finished THEN 1 ELSE 0) + lostReplies[r]

\* What a reader has seen is still true when it goes on, unless the week has passed.
Between ==
    [pc : {"counted"}, window : {"alltime", "weekly"}, page : Nat \ {0}, total : Nat, rolled : BOOLEAN]
ReaderOK ==
    /\ reader.pc = "counted" => reader \in Between /\ (reader.rolled \/ reader.total <= Counted(reader.window))
    /\ reader.pc = "race" => reader.race \in Races /\ (reader.finished => status[reader.race] = "finished")

Inv ==
    /\ TypeOK /\ TxOK /\ LocksOK /\ LinesOK /\ RanksOK /\ PublishedLast /\ CommitsOK
    /\ ReaderOK /\ WeeklyWinsCounted /\ FinishedShownWithRanks /\ ListedPagesFilled

-----------------------------------------------------------------------------
(* Results and lines.                                                       *)

\* The results of a race are finitely many and have their fields' types.
LEMMA ResultsType ==
    ASSUME NEW r \in Races
    PROVE  /\ \A res \in Results[r] : /\ res \in Result /\ res.user \in Users /\ res.rank \in Nat \ {0}
                                      /\ res.time \in Nat
           /\ Rows[r] \subseteq Users
           /\ \A D : D \subseteq Results[r] => IsFiniteSet(D) /\ Cardinality(D) \in Nat
<1>1. Results[r] \subseteq Result /\ IsFiniteSet(Results[r]) /\ Rows[r] \subseteq Users
  BY ResultsAssumption
<1>2. \A D : D \subseteq Results[r] => IsFiniteSet(D) /\ Cardinality(D) \in Nat
  BY <1>1, FS_Subset, FS_CardinalityType
<1>3. \A res \in Result : res.user \in Users /\ res.rank \in Nat \ {0} /\ res.time \in Nat
  BY DEF Result
<1> QED
  BY <1>1, <1>2, <1>3

\* A line is itself with no result added, and only with none.
LEMMA AddsNothing ==
    ASSUME NEW line \in LineType, NEW D, IsFiniteSet(D)
    PROVE  Adds(line, line, D) <=> D = {}
<1>1. line.races \in Nat /\ line.wins \in Nat /\ line.best \in Nat
  BY DEF LineType
<1>2. Cardinality(D) \in Nat /\ (Cardinality(D) = 0 <=> D = {})
  BY FS_CardinalityType, FS_EmptySet
<1>3. ASSUME D = {} PROVE Adds(line, line, D)
  <2>1. {res \in D : res.rank = 1} = {} /\ {res.time : res \in D} = {}
    BY <1>3
  <2>2. Cardinality({res \in D : res.rank = 1}) = 0
    BY <2>1, FS_EmptySet
  <2>3. IsBest(line.best, ({line.best} \ {NoTime}) \cup ({res.time : res \in D} \ {NoTime}))
    <3>1. ({line.best} \ {NoTime}) \cup ({res.time : res \in D} \ {NoTime}) = {line.best} \ {NoTime}
      BY <2>1
    <3>2. IsBest(line.best, {line.best} \ {NoTime})
      BY <1>1 DEF IsBest
    <3> QED
      BY <3>1, <3>2
  <2> QED
    BY <1>1, <1>2, <1>3, <2>2, <2>3 DEF Adds
<1>4. ASSUME Adds(line, line, D) PROVE D = {}
  BY <1>1, <1>2, <1>4 DEF Adds
<1> QED
  BY <1>3, <1>4

\* The best of the times with one more: what SQL's LEAST makes of the two.
LEMMA BestGrows ==
    ASSUME NEW S \in SUBSET Nat, NEW b \in Nat, IsBest(b, S), NoTime \notin S, NEW t \in Nat
    PROVE  IsBest(Best(b, t), S \cup ({t} \ {NoTime}))
<1>1. CASE t = NoTime
  BY <1>1 DEF IsBest, Best
<1>2. CASE t # NoTime /\ S = {}
  BY <1>2 DEF IsBest, Best, NoTime
<1>3. CASE t # NoTime /\ S # {}
  <2>1. b \in S /\ b # NoTime /\ \A s \in S : b <= s
    BY <1>3 DEF IsBest
  <2>2. Best(b, t) = IF t < b THEN t ELSE b
    BY <1>3, <2>1 DEF Best
  <2> QED
    BY <1>3, <2>1, <2>2 DEF IsBest
<1> QED
  BY <1>1, <1>2, <1>3

\* The upsert adds one result to a line.
LEMMA AddsOne ==
    ASSUME NEW new \in LineType, NEW old \in LineType, NEW D \in SUBSET Result, IsFiniteSet(D),
           NEW res \in Result, res \notin D, Adds(new, old, D)
    PROVE  Upserted(new, res) \in LineType /\ Adds(Upserted(new, res), old, D \cup {res})
<1> DEFINE up == Upserted(new, res)
           W(X) == {x \in X : x.rank = 1}
           S == ({old.best} \ {NoTime}) \cup ({x.time : x \in D} \ {NoTime})
<1>1. /\ new.races \in Nat /\ new.wins \in Nat /\ new.best \in Nat
      /\ old.races \in Nat /\ old.wins \in Nat /\ old.best \in Nat
      /\ \A x \in Result : x.rank \in Nat \ {0} /\ x.time \in Nat
  BY DEF LineType, Result
<1>2. up.races = new.races + 1 /\ up.wins = new.wins + Won(res) /\ up.best = Best(new.best, res.time)
  BY DEF Upserted
<1>3. Cardinality(D) \in Nat /\ Cardinality(D \cup {res}) = Cardinality(D) + 1
  BY FS_CardinalityType, FS_AddElement
<1>4. Cardinality(W(D)) \in Nat /\ Cardinality(W(D \cup {res})) = Cardinality(W(D)) + Won(res)
  <2>1. IsFiniteSet(W(D)) /\ res \notin W(D)
    BY FS_Subset
  <2>0. Cardinality(W(D)) \in Nat /\ Cardinality(W(D)) + 0 = Cardinality(W(D))
    BY <2>1, FS_CardinalityType
  <2>2. CASE res.rank = 1
    <3>1. W(D \cup {res}) = W(D) \cup {res}
      BY <2>2
    <3> QED
      BY <2>1, <2>2, <3>1, FS_CardinalityType, FS_AddElement DEF Won
  <2>3. CASE res.rank # 1
    <3>1. W(D \cup {res}) = W(D)
      BY <2>3
    <3> QED
      BY <2>0, <2>3, <3>1 DEF Won
  <2> QED
    BY <2>2, <2>3
<1>5. IsBest(up.best, S \cup ({res.time} \ {NoTime}))
  <2>1. S \in SUBSET Nat /\ NoTime \notin S
    BY <1>1
  <2>2. IsBest(new.best, S)
    BY DEF Adds
  <2> QED
    BY <1>1, <1>2, <2>1, <2>2, BestGrows
<1>6. S \cup ({res.time} \ {NoTime}) = ({old.best} \ {NoTime}) \cup ({x.time : x \in D \cup {res}} \ {NoTime})
  OBVIOUS
<1>7. Adds(up, old, D \cup {res})
  <2>1. IsBest(up.best, ({old.best} \ {NoTime}) \cup ({x.time : x \in D \cup {res}} \ {NoTime}))
    BY <1>5, <1>6
  <2>2. up.races = old.races + Cardinality(D \cup {res})
    BY <1>1, <1>2, <1>3 DEF Adds
  <2>3. up.wins = old.wins + Cardinality(W(D \cup {res}))
    <3>1. new.wins = old.wins + Cardinality(W(D)) /\ Won(res) \in Nat
      BY DEF Adds, Won
    <3> QED
      BY <1>1, <1>2, <1>4, <3>1
  <2> QED
    BY <2>1, <2>2, <2>3 DEF Adds
<1>8. up \in LineType
  <2>1. Won(res) \in Nat /\ Best(new.best, res.time) \in Nat
    BY <1>1 DEF Won, Best
  <2> QED
    BY <1>1, <2>1 DEF Upserted, LineType
<1> QED
  BY <1>7, <1>8

\* With every result of a user added a line is Scoreboard's.
LEMMA AddsRaised ==
    ASSUME NEW r \in Races, NEW u \in Users, NEW new \in LineType, NEW old \in LineType,
           Adds(new, old, {res \in Results[r] : res.user = u})
    PROVE  new = Board!Raised(old, r, u)
<1> DEFINE D == {res \in Results[r] : res.user = u}
           S == ({old.best} \ {NoTime}) \cup ({res.time : res \in D} \ {NoTime})
<1>1. D = Board!Of(r, u) /\ S = ({old.best} \ {Board!NoTime}) \cup Board!Times(r, u)
  BY DEF Board!Of, Board!Times, Board!NoTime, NoTime
<1>2. S \in SUBSET Nat
  BY ResultsType DEF LineType
<1>3. new.best = Board!BestOf(S)
  <2>1. IsBest(new.best, S)
    BY DEF Adds
  <2>2. CASE S = {}
    BY <2>1, <2>2 DEF IsBest, Board!BestOf, Board!NoTime, NoTime
  <2>3. CASE S # {}
    <3>1. new.best \in S /\ \A s \in S : new.best <= s
      BY <2>1, <2>3 DEF IsBest
    <3>2. \A t \in S : (\A s \in S : t <= s) => t = new.best
      <4> HIDE DEF S
      <4> TAKE t \in S
      <4> HAVE \A s \in S : t <= s
      <4>1. t \in Nat /\ new.best \in Nat /\ t <= new.best /\ new.best <= t
        BY <1>2, <3>1
      <4> QED
        BY <4>1
    <3> QED
      BY <2>3, <3>1, <3>2 DEF Board!BestOf
  <2> QED
    BY <2>2, <2>3
<1>4. new = [races |-> new.races, wins |-> new.wins, best |-> new.best]
  BY DEF LineType
<1>5. \A X : Board!Cardinality(X) = Cardinality(X)
  BY Zenon DEF Board!Cardinality, Cardinality
<1>6. /\ new.races = old.races + Cardinality(Board!Of(r, u))
      /\ new.wins = old.wins + Cardinality({res \in Board!Of(r, u) : res.rank = 1})
      /\ new.best = Board!BestOf(({old.best} \ {Board!NoTime}) \cup Board!Times(r, u))
  BY <1>1, <1>3 DEF Adds
<1> QED
  BY <1>4, <1>5, <1>6 DEF Board!Raised

-----------------------------------------------------------------------------
(* What each statement does to its transaction.                             *)

\* A transaction's writes are functions of users.
LEMMA TxFields ==
    ASSUME TxOK, NEW r \in Races
    PROVE  /\ tx[r] \in TxType
           /\ DOMAIN tx[r].ranks \subseteq Users /\ tx[r].ranks \in [DOMAIN tx[r].ranks -> Nat]
           /\ DOMAIN tx[r].lines \subseteq Users /\ tx[r].lines \in [DOMAIN tx[r].lines -> LineType]
<1>1. tx[r] \in TxType
  BY DEF TxOK
<1>2. PICK S \in SUBSET Users : tx[r].ranks \in [S -> Nat]
  BY <1>1 DEF TxType
<1>3. PICK T \in SUBSET Users : tx[r].lines \in [T -> LineType]
  BY <1>1 DEF TxType
<1> QED
  BY <1>1, <1>2, <1>3

\* An empty record of what was written.
LEMMA NothingWritten ==
    /\ DOMAIN <<>> = {} /\ <<>> \in [{} -> Nat] /\ <<>> \in [{} -> LineType]
    /\ <<>> \in UNION {[S -> Nat] : S \in SUBSET Users}
    /\ <<>> \in UNION {[S -> LineType] : S \in SUBSET Users}
<1>1. DOMAIN <<>> = {} /\ <<>> \in [{} -> Nat] /\ <<>> \in [{} -> LineType]
  OBVIOUS
<1>2. {} \in SUBSET Users
  OBVIOUS
<1> QED
  BY <1>1, <1>2

\* FinishRace opens a transaction, which sees the ranks that are committed.
LEMMA BeginTx ==
    ASSUME TypeOK, TxOK, NEW r \in Races, Begin(r)
    PROVE  /\ tx' \in [Races -> TxType] /\ \A s \in Races \ {r} : tx'[s] = tx[s]
           /\ tx'[r].pc = "race" /\ tx'[r].todo = Results[r] /\ tx'[r].cur = {}
           /\ tx'[r].ranks = finishRank[r] /\ DOMAIN tx'[r].lines = {}
<1>1. NoTx \in TxType
  BY NothingWritten DEF NoTx, TxType
<1>2. /\ Opened(r).pc = "race" /\ Opened(r).todo = Results[r] /\ Opened(r).cur = NoTx.cur
      /\ Opened(r).ranks = finishRank[r] /\ Opened(r).lines = NoTx.lines
  BY <1>1 DEF Opened, TxType
<1>3. NoTx.cur = {} /\ NoTx.lines = <<>>
  BY DEF NoTx
<1>4. Opened(r) \in TxType
  <2>1. finishRank[r] \in UNION {[S -> Nat] : S \in SUBSET Users}
    BY ResultsType DEF TypeOK
  <2>2. Results[r] \in SUBSET Result
    BY ResultsType
  <2> QED
    BY <1>1, <2>1, <2>2 DEF Opened, TxType
<1>5. tx \in [Races -> TxType] /\ tx' = [tx EXCEPT ![r] = Opened(r)]
  BY DEF TxOK, Begin
<1> QED
  BY <1>2, <1>3, <1>4, <1>5, NothingWritten

\* A transaction that has ended, either way, has nothing left.
LEMMA EndedTx ==
    ASSUME TxOK, NEW r \in Races, tx' = Ended(r)
    PROVE  /\ tx' \in [Races -> TxType] /\ \A s \in Races \ {r} : tx'[s] = tx[s]
           /\ tx'[r].pc = "none" /\ tx'[r].todo = {} /\ tx'[r].cur = {}
           /\ DOMAIN tx'[r].lines = {}
<1>1. NoTx \in TxType
  BY NothingWritten DEF NoTx, TxType
<1>2. NoTx.pc = "none" /\ NoTx.todo = {} /\ NoTx.cur = {} /\ DOMAIN NoTx.lines = {}
  BY NothingWritten DEF NoTx
<1>3. tx \in [Races -> TxType] /\ tx' = [tx EXCEPT ![r] = NoTx]
  BY DEF TxOK, Ended
<1> QED
  BY <1>1, <1>2, <1>3

\* The race's own statement writes nothing that another reads.
LEMMA UpdateRaceTx ==
    ASSUME TxOK, NEW r \in Races, UpdateRace(r)
    PROVE  /\ tx' \in [Races -> TxType] /\ \A s \in Races \ {r} : tx'[s] = tx[s]
           /\ tx'[r].pc = "next" /\ tx'[r].todo = tx[r].todo /\ tx'[r].cur = tx[r].cur
           /\ tx'[r].ranks = tx[r].ranks /\ tx'[r].lines = tx[r].lines
<1> DEFINE new == [tx[r] EXCEPT !.pc = "next"]
<1>1. tx[r] \in TxType /\ tx \in [Races -> TxType]
  BY DEF TxOK
<1>2. new \in TxType /\ new.pc = "next" /\ new.todo = tx[r].todo /\ new.cur = tx[r].cur
      /\ new.ranks = tx[r].ranks /\ new.lines = tx[r].lines
  BY <1>1 DEF TxType
<1>3. tx' = [tx EXCEPT ![r] = new]
  BY <1>1 DEF UpdateRace
<1> HIDE DEF new
<1> QED
  BY <1>1, <1>2, <1>3

\* The participant's statement writes the rank where there is a row.
LEMMA UpdateParticipantTx ==
    ASSUME TxOK, NEW r \in Races, NEW res \in Results[r], UpdateParticipant(r, res)
    PROVE  /\ tx' \in [Races -> TxType] /\ \A s \in Races \ {r} : tx'[s] = tx[s]
           /\ tx'[r].pc = "upsert" /\ tx'[r].todo = tx[r].todo /\ tx'[r].cur = {res}
           /\ tx'[r].ranks = [u \in DOMAIN tx[r].ranks |-> IF u = res.user THEN res.rank ELSE tx[r].ranks[u]]
           /\ tx'[r].lines = tx[r].lines
<1> DEFINE ranks == [u \in DOMAIN tx[r].ranks |-> IF u = res.user THEN res.rank ELSE tx[r].ranks[u]]
           new == [tx[r] EXCEPT !.pc = "upsert", !.cur = {res}, !.ranks = ranks]
<1>1. tx[r] \in TxType /\ tx \in [Races -> TxType]
  BY DEF TxOK
<1>2. tx' = [tx EXCEPT ![r] = new]
  BY <1>1 DEF UpdateParticipant
<1>3. ranks \in UNION {[S -> Nat] : S \in SUBSET Users} /\ {res} \in SUBSET Result
  BY TxFields, ResultsType
<1> HIDE DEF ranks
<1>4. new \in TxType /\ new.pc = "upsert" /\ new.todo = tx[r].todo /\ new.cur = {res}
      /\ new.ranks = ranks /\ new.lines = tx[r].lines
  BY <1>1, <1>3 DEF TxType
<1> HIDE DEF new
<1>5. /\ tx' \in [Races -> TxType] /\ \A s \in Races \ {r} : tx'[s] = tx[s]
      /\ tx'[r] = new
  BY <1>1, <1>2, <1>4
<1> QED
  BY <1>4, <1>5 DEF ranks

\* What an open transaction sees of the board are lines.
LEMMA LineIsLine ==
    ASSUME TypeOK, TxOK, NEW r \in Races, NEW u \in Users
    PROVE  Line(r, u) \in LineType /\ board[u] \in LineType
<1>1. board[u] \in LineType
  BY DEF TypeOK, LineType
<1>2. u \in DOMAIN tx[r].lines => tx[r].lines[u] \in LineType
  BY TxFields
<1> QED
  BY <1>1, <1>2 DEF Line

\* The upsert locks its user's line and writes it.
LEMMA UpsertLineTx ==
    ASSUME TypeOK, TxOK, LinesOK, NEW r \in Races, NEW res \in Results[r], UpsertLine(r, res)
    PROVE  /\ tx' \in [Races -> TxType] /\ \A s \in Races \ {r} : tx'[s] = tx[s]
           /\ Open(r) /\ res \in tx[r].todo
           /\ tx'[r].pc = "next" /\ tx'[r].todo = tx[r].todo \ {res} /\ tx'[r].cur = {}
           /\ tx'[r].ranks = tx[r].ranks
           /\ DOMAIN tx'[r].lines = DOMAIN tx[r].lines \cup {res.user}
           /\ tx'[r].lines[res.user] = Upserted(Line(r, res.user), res)
           /\ \A v \in DOMAIN tx[r].lines \ {res.user} : tx'[r].lines[v] = tx[r].lines[v]
           /\ Adds(Upserted(Line(r, res.user), res), board[res.user], Dealt(r, res.user) \cup {res})
<1> DEFINE u == res.user
           up == Upserted(Line(r, u), res)
           lines == [v \in DOMAIN tx[r].lines \cup {u} |-> IF v = u THEN up ELSE tx[r].lines[v]]
           new == [tx[r] EXCEPT !.pc = "next", !.todo = tx[r].todo \ {res}, !.cur = {}, !.lines = lines]
<1>1. tx[r] \in TxType /\ tx \in [Races -> TxType]
  BY DEF TxOK
<1>2. res \in tx[r].cur /\ tx' = [tx EXCEPT ![r] = new]
  BY <1>1 DEF UpsertLine
<1>3. res \in tx[r].todo /\ Open(r)
  BY <1>2 DEF TxOK, Open
<1>4. res \in Result /\ u \in Users
  BY ResultsType
<1>5. up \in LineType /\ Adds(up, board[u], Dealt(r, u) \cup {res})
  <2>1. Line(r, u) \in LineType /\ board[u] \in LineType
    BY <1>4, LineIsLine
  <2>2. Dealt(r, u) \subseteq Results[r] /\ res \notin Dealt(r, u)
    BY <1>3 DEF Dealt
  <2>3. Dealt(r, u) \in SUBSET Result /\ IsFiniteSet(Dealt(r, u))
    BY <2>2, ResultsType
  <2>4. Adds(Line(r, u), board[u], Dealt(r, u))
    BY <1>3, <1>4 DEF LinesOK
  <2> HIDE DEF u
  <2> QED
    BY <1>4, <2>1, <2>2, <2>3, <2>4, AddsOne
<1> HIDE DEF up
<1>6. lines \in UNION {[S -> LineType] : S \in SUBSET Users}
  <2>1. DOMAIN tx[r].lines \cup {u} \in SUBSET Users
    BY <1>4, TxFields
  <2>2. lines \in [DOMAIN tx[r].lines \cup {u} -> LineType]
    BY <1>5, TxFields
  <2> QED
    BY <2>1, <2>2
<1>7. /\ DOMAIN lines = DOMAIN tx[r].lines \cup {u} /\ lines[u] = up
      /\ \A v \in DOMAIN tx[r].lines \ {u} : lines[v] = tx[r].lines[v]
  OBVIOUS
<1> HIDE DEF lines
<1>8. new \in TxType /\ new.pc = "next" /\ new.todo = tx[r].todo \ {res} /\ new.cur = {}
      /\ new.ranks = tx[r].ranks /\ new.lines = lines
  BY <1>1, <1>6 DEF TxType
<1> HIDE DEF new
<1>9. /\ tx' \in [Races -> TxType] /\ \A s \in Races \ {r} : tx'[s] = tx[s]
      /\ tx'[r] = new
  BY <1>1, <1>2, <1>8
<1>10. /\ tx'[r].pc = "next" /\ tx'[r].todo = tx[r].todo \ {res} /\ tx'[r].cur = {}
       /\ tx'[r].ranks = tx[r].ranks /\ tx'[r].lines = lines
  BY <1>8, <1>9
<1>11. /\ DOMAIN tx'[r].lines = DOMAIN tx[r].lines \cup {u} /\ tx'[r].lines[u] = up
       /\ \A v \in DOMAIN tx[r].lines \ {u} : tx'[r].lines[v] = tx[r].lines[v]
  BY <1>7, <1>10
<1> QED
  BY <1>3, <1>5, <1>9, <1>10, <1>11 DEF up

\* After a rollback or a commit the lines are free for the others.
LEMMA UnlockFrees ==
    ASSUME TypeOK, TxOK, LocksOK, NEW r \in Races, tx' = Ended(r), lock' = Unlock(r)
    PROVE  LocksOK' /\ lock' \in [Users -> Races \cup {Unlocked}]
<1>1. lock \in [Users -> Races \cup {Unlocked}]
  BY DEF TypeOK
<1>2. \A u \in Users : lock'[u] = IF lock[u] = r THEN Unlocked ELSE lock[u]
  BY DEF Unlock
<1>3. DOMAIN tx'[r].lines = {} /\ \A s \in Races \ {r} : tx'[s] = tx[s]
  BY EndedTx
<1>4. ASSUME NEW s \in Races, NEW u \in Users
      PROVE  lock'[u] = s <=> u \in DOMAIN tx'[s].lines
  <2>1. CASE s = r
    BY <1>1, <1>2, <1>3, <2>1, UnlockedAssumption
  <2>2. CASE s # r
    BY <1>1, <1>2, <1>3, <2>2, UnlockedAssumption DEF LocksOK
  <2> QED
    BY <2>1, <2>2
<1>5. lock' \in [Users -> Races \cup {Unlocked}]
  BY <1>1 DEF Unlock
<1> QED
  BY <1>4, <1>5 DEF LocksOK

-----------------------------------------------------------------------------
(* The transactions, step by step.                                          *)

\* The steps that touch no transaction, lock or line.
QuietSteps ==
    \/ \E r \in Races : ReconcileParticipantResults(r) \/ WeekPasses(r)
    \/ Reader \/ UNCHANGED vars

\* Readers, the reconciliation and time change none of it.
LEMMA QuietKeeps ==
    ASSUME QuietSteps
    PROVE  UNCHANGED <<tx, lock, board, status, commits, finished, published, lostReplies, calls, faults>>
<1>1. CASE \E r \in Races : ReconcileParticipantResults(r) \/ WeekPasses(r)
  BY <1>1 DEF ReconcileParticipantResults, WeekPasses, roomVars, countVars
<1>2. CASE Reader
  BY <1>2 DEF Reader, TopCount, TopQuery, TopQueryFails, StatusRace, StatusParticipants, dataVars, roomVars, countVars
<1>3. CASE UNCHANGED vars
  BY <1>3 DEF vars, dataVars, roomVars, countVars
<1> QED
  BY <1>1, <1>2, <1>3 DEF QuietSteps

\* A step is one of a transaction, or quiet.
LEMMA StepCases ==
    ASSUME [Next]_vars
    PROVE  \/ \E r \in Races :
                \/ Begin(r) \/ UpdateRace(r) \/ Commit(r) \/ CommitReplyLost(r)
                \/ FinishFails(r) \/ DeadlockAborts(r)
                \/ \E res \in Results[r] : UpdateParticipant(r, res) \/ UpsertLine(r, res)
           \/ QuietSteps
BY DEF Next, Statement, QuietSteps

\* Each statement leaves the transactions in order.
LEMMA NextTx ==
    ASSUME TypeOK, TxOK, LinesOK, [Next]_vars
    PROVE  TxOK'
<1> DEFINE Good(s) ==
               /\ tx'[s].todo \subseteq Results[s] /\ tx'[s].cur \subseteq tx'[s].todo
               /\ tx'[s].pc # "upsert" => tx'[s].cur = {}
               /\ IF tx'[s].pc # "none" THEN s \notin finished' /\ DOMAIN tx'[s].ranks = Rows[s]
                  ELSE DOMAIN tx'[s].lines = {}
<1>0. \A s \in Races :
          /\ tx[s].todo \subseteq Results[s] /\ tx[s].cur \subseteq tx[s].todo
          /\ tx[s].pc # "upsert" => tx[s].cur = {}
          /\ IF tx[s].pc # "none" THEN s \notin finished /\ DOMAIN tx[s].ranks = Rows[s]
             ELSE DOMAIN tx[s].lines = {}
  BY DEF TxOK, Open
<1>1. ASSUME NEW r \in Races, Begin(r)
      PROVE  tx' \in [Races -> TxType] /\ \A s \in Races : Good(s)
  <2>1. r \notin finished /\ finished' = finished
    BY <1>1 DEF Begin, MayFinish, roomVars
  <2>2. DOMAIN finishRank[r] = Rows[r]
    BY DEF TypeOK
  <2> QED
    BY <1>0, <1>1, <2>1, <2>2, BeginTx
<1>2. ASSUME NEW r \in Races, UpdateRace(r)
      PROVE  tx' \in [Races -> TxType] /\ \A s \in Races : Good(s)
  <2>1. tx[r].pc = "race" /\ finished' = finished
    BY <1>2 DEF UpdateRace, roomVars
  <2> QED
    BY <1>0, <1>2, <2>1, UpdateRaceTx
<1>3. ASSUME NEW r \in Races, NEW res \in Results[r], UpdateParticipant(r, res)
      PROVE  tx' \in [Races -> TxType] /\ \A s \in Races : Good(s)
  <2>1. tx[r].pc = "next" /\ res \in tx[r].todo /\ finished' = finished
    BY <1>3 DEF UpdateParticipant, Eligible, roomVars
  <2>2. DOMAIN tx'[r].ranks = DOMAIN tx[r].ranks
    BY <1>3, UpdateParticipantTx
  <2> QED
    <3>1. /\ tx' \in [Races -> TxType] /\ \A s \in Races \ {r} : tx'[s] = tx[s]
          /\ tx'[r].pc = "upsert" /\ tx'[r].todo = tx[r].todo /\ tx'[r].cur = {res}
      BY <1>3, UpdateParticipantTx
    <3>2. Good(r)
      BY <1>0, <2>1, <2>2, <3>1
    <3>3. \A s \in Races \ {r} : Good(s)
      BY <1>0, <2>1, <3>1
    <3> QED
      BY <3>1, <3>2, <3>3
<1>4. ASSUME NEW r \in Races, NEW res \in Results[r], UpsertLine(r, res)
      PROVE  tx' \in [Races -> TxType] /\ \A s \in Races : Good(s)
  <2>1. finished' = finished
    BY <1>4 DEF UpsertLine, roomVars
  <2> QED
    <3>1. /\ tx' \in [Races -> TxType] /\ \A s \in Races \ {r} : tx'[s] = tx[s]
          /\ tx[r].pc # "none"
          /\ tx'[r].pc = "next" /\ tx'[r].todo = tx[r].todo \ {res} /\ tx'[r].cur = {}
          /\ tx'[r].ranks = tx[r].ranks
      BY <1>4, UpsertLineTx DEF Open
    <3>2. Good(r)
      BY <1>0, <2>1, <3>1
    <3>3. \A s \in Races \ {r} : Good(s)
      BY <1>0, <2>1, <3>1
    <3> QED
      BY <3>1, <3>2, <3>3
<1>5. ASSUME NEW r \in Races, tx' = Ended(r), finished' = finished \/ finished' = finished \cup {r}
      PROVE  tx' \in [Races -> TxType] /\ \A s \in Races : Good(s)
  BY <1>0, <1>5, EndedTx
<1>6. ASSUME NEW r \in Races, Commit(r) \/ CommitReplyLost(r) \/ FinishFails(r) \/ DeadlockAborts(r)
      PROVE  tx' = Ended(r) /\ (finished' = finished \/ finished' = finished \cup {r})
  BY <1>6 DEF Commit, CommitReplyLost, FinishFails, DeadlockAborts, CommitWrites, Rollback, roomVars
<1>7. ASSUME QuietSteps
      PROVE  tx' \in [Races -> TxType] /\ \A s \in Races : Good(s)
  BY <1>0, <1>7, QuietKeeps DEF TxOK
<1> HIDE DEF Good
<1>8. tx' \in [Races -> TxType] /\ \A s \in Races : Good(s)
  BY <1>1, <1>2, <1>3, <1>4, <1>5, <1>6, <1>7, StepCases
<1> QED
  BY <1>8 DEF Good, TxOK, Open

\* No step takes a line that another transaction has locked.
LEMMA NextLocks ==
    ASSUME TypeOK, TxOK, LinesOK, LocksOK, [Next]_vars
    PROVE  LocksOK' /\ lock' \in [Users -> Races \cup {Unlocked}]
<1>0. lock \in [Users -> Races \cup {Unlocked}]
  BY DEF TypeOK
<1>1. ASSUME lock' = lock, \A s \in Races : DOMAIN tx'[s].lines = DOMAIN tx[s].lines
      PROVE  LocksOK' /\ lock' \in [Users -> Races \cup {Unlocked}]
  BY <1>0, <1>1 DEF LocksOK
<1>2. ASSUME NEW r \in Races, Begin(r)
      PROVE  lock' = lock /\ \A s \in Races : DOMAIN tx'[s].lines = DOMAIN tx[s].lines
  <2>1. tx[r].pc = "none" /\ lock' = lock
    BY <1>2 DEF Begin, MayFinish
  <2>2. DOMAIN tx[r].lines = {}
    BY <2>1 DEF TxOK, Open
  <2> QED
    BY <1>2, <2>1, <2>2, BeginTx
<1>3. ASSUME NEW r \in Races, UpdateRace(r)
      PROVE  lock' = lock /\ \A s \in Races : DOMAIN tx'[s].lines = DOMAIN tx[s].lines
  BY <1>3, UpdateRaceTx DEF UpdateRace
<1>4. ASSUME NEW r \in Races, NEW res \in Results[r], UpdateParticipant(r, res)
      PROVE  lock' = lock /\ \A s \in Races : DOMAIN tx'[s].lines = DOMAIN tx[s].lines
  <2>1. lock' = lock
    BY <1>4 DEF UpdateParticipant
  <2> QED
    BY <1>4, <2>1, UpdateParticipantTx
<1>5. ASSUME NEW r \in Races, NEW res \in Results[r], UpsertLine(r, res)
      PROVE  LocksOK' /\ lock' \in [Users -> Races \cup {Unlocked}]
  <2> DEFINE u == res.user
  <2>1. u \in Users /\ lock[u] \in {Unlocked, r} /\ lock' = [lock EXCEPT ![u] = r]
    BY <1>5, ResultsType DEF UpsertLine
  <2>2. DOMAIN tx'[r].lines = DOMAIN tx[r].lines \cup {u} /\ \A s \in Races \ {r} : tx'[s] = tx[s]
    BY <1>5, UpsertLineTx
  <2> HIDE DEF u
  <2>3. ASSUME NEW s \in Races, NEW v \in Users
        PROVE  lock'[v] = s <=> v \in DOMAIN tx'[s].lines
    <3>1. lock[v] = s <=> v \in DOMAIN tx[s].lines
      BY DEF LocksOK
    <3>2. CASE v = u
      BY <1>0, <2>1, <2>2, <3>1, <3>2, UnlockedAssumption
    <3>3. CASE v # u
      BY <1>0, <2>1, <2>2, <3>1, <3>3
    <3> QED
      BY <3>2, <3>3
  <2> QED
    BY <1>0, <2>1, <2>3 DEF LocksOK
<1>6. ASSUME NEW r \in Races, Commit(r) \/ CommitReplyLost(r) \/ FinishFails(r) \/ DeadlockAborts(r)
      PROVE  LocksOK' /\ lock' \in [Users -> Races \cup {Unlocked}]
  <2>1. tx' = Ended(r) /\ lock' = Unlock(r)
    BY <1>6 DEF Commit, CommitReplyLost, FinishFails, DeadlockAborts, CommitWrites, Rollback
  <2> QED
    BY <2>1, UnlockFrees
<1>7. CASE QuietSteps
  BY <1>1, <1>7, QuietKeeps
<1> QED
  BY <1>1, <1>2, <1>3, <1>4, <1>5, <1>6, <1>7, StepCases

\* A commit adds all of its race's results to each line, on top of what is there.
LEMMA CommitAdds ==
    ASSUME TypeOK, TxOK, LinesOK, NEW r \in Races, MayCommit(r), CommitWrites(r)
    PROVE  /\ board' \in [Users -> LineType]
           /\ \A u \in Users : /\ board'[u] = Line(r, u)
                               /\ Adds(board'[u], board[u], {res \in Results[r] : res.user = u})
<1>1. \A u \in Users : board'[u] = Line(r, u) /\ Line(r, u) \in LineType
  BY LineIsLine DEF CommitWrites
<1>2. board' \in [Users -> LineType]
  BY LineIsLine DEF CommitWrites
<1>3. ASSUME NEW u \in Users
      PROVE  Adds(Line(r, u), board[u], {res \in Results[r] : res.user = u})
  <2>1. Dealt(r, u) = {res \in Results[r] : res.user = u}
    BY DEF Dealt, MayCommit
  <2>2. Open(r)
    BY DEF Open, MayCommit
  <2> QED
    BY <2>1, <2>2 DEF LinesOK
<1> QED
  BY <1>1, <1>2, <1>3

\* Nothing is ever taken off a line.
LEMMA AddsGrows ==
    ASSUME NEW r \in Races, NEW u \in Users, NEW new \in LineType, NEW old \in LineType,
           Adds(new, old, {res \in Results[r] : res.user = u})
    PROVE  /\ new.races >= old.races /\ new.wins >= old.wins
           /\ (\E res \in Results[r] : res.user = u /\ res.rank = 1) => new.wins >= old.wins + 1
<1> DEFINE D == {res \in Results[r] : res.user = u}
           W == {res \in D : res.rank = 1}
<1>1. new.races \in Nat /\ old.races \in Nat /\ new.wins \in Nat /\ old.wins \in Nat
  BY DEF LineType
<1>2. D \subseteq Results[r] /\ W \subseteq Results[r]
  OBVIOUS
<1>3. Cardinality(D) \in Nat /\ Cardinality(W) \in Nat /\ (Cardinality(W) = 0 <=> W = {})
  BY <1>2, ResultsType, FS_EmptySet
<1>4. new.races = old.races + Cardinality(D) /\ new.wins = old.wins + Cardinality(W)
  BY DEF Adds
<1>5. (\E res \in Results[r] : res.user = u /\ res.rank = 1) => W # {}
  OBVIOUS
<1> HIDE DEF D, W
<1> QED
  BY <1>1, <1>3, <1>4, <1>5

\* What a transaction has written stays an addition to the committed line: its lock
\* keeps the others from the lines it has written, and of the others it has dealt with
\* nothing.
LEMMA NextLines ==
    ASSUME TypeOK, TxOK, LocksOK, LinesOK, [Next]_vars
    PROVE  LinesOK'
<1> SUFFICES ASSUME NEW s \in Races, tx'[s].pc # "none", NEW u \in Users
             PROVE  Adds(Line(s, u)', board'[u], Dealt(s, u)')
  BY DEF LinesOK, Open
<1>0. Open(s) => Adds(Line(s, u), board[u], Dealt(s, u))
  BY DEF LinesOK
<1>1. Dealt(s, u)' = {res \in Results[s] : res.user = u} \ tx'[s].todo
  BY DEF Dealt
<1>2. Line(s, u)' = IF u \in DOMAIN tx'[s].lines THEN tx'[s].lines[u] ELSE board'[u]
  BY DEF Line
<1>3. ASSUME board' = board, Open(s), tx'[s].todo = tx[s].todo, tx'[s].lines = tx[s].lines
      PROVE  Adds(Line(s, u)', board'[u], Dealt(s, u)')
  BY <1>0, <1>3 DEF Line, Dealt
<1>4. ASSUME NEW r \in Races, Begin(r)
      PROVE  Adds(Line(s, u)', board'[u], Dealt(s, u)')
  <2>1. board' = board
    BY <1>4 DEF Begin, dataVars
  <2>2. CASE s = r
    <3>1. tx'[s].todo = Results[s] /\ DOMAIN tx'[s].lines = {}
      BY <1>4, <2>2, BeginTx
    <3>2. Dealt(s, u)' = {} /\ Line(s, u)' = board[u]
      BY <1>1, <1>2, <2>1, <3>1
    <3>3. board[u] \in LineType /\ IsFiniteSet({})
      BY FS_EmptySet, LineIsLine
    <3> QED
      BY <2>1, <3>2, <3>3, AddsNothing
  <2>3. CASE s # r
    BY <1>3, <1>4, <2>1, <2>3, BeginTx DEF Open
  <2> QED
    BY <2>2, <2>3
<1>5. ASSUME NEW r \in Races, UpdateRace(r)
      PROVE  Adds(Line(s, u)', board'[u], Dealt(s, u)')
  <2>1. board' = board /\ tx[r].pc = "race"
    BY <1>5 DEF UpdateRace, dataVars
  <2> QED
    BY <1>3, <1>5, <2>1, UpdateRaceTx DEF Open
<1>6. ASSUME NEW r \in Races, NEW res \in Results[r], UpdateParticipant(r, res)
      PROVE  Adds(Line(s, u)', board'[u], Dealt(s, u)')
  <2>1. board' = board /\ tx[r].pc = "next"
    BY <1>6 DEF UpdateParticipant, dataVars
  <2>2. \A x \in Races \ {r} : tx'[x] = tx[x]
    BY <1>6, UpdateParticipantTx
  <2>3. tx'[r].todo = tx[r].todo /\ tx'[r].lines = tx[r].lines
    BY <1>6, UpdateParticipantTx
  <2> QED
    BY <1>3, <2>1, <2>2, <2>3 DEF Open
<1>7. ASSUME NEW r \in Races, NEW res \in Results[r], UpsertLine(r, res)
      PROVE  Adds(Line(s, u)', board'[u], Dealt(s, u)')
  <2>1. board' = board
    BY <1>7 DEF UpsertLine, dataVars
  <2>2. /\ \A x \in Races \ {r} : tx'[x] = tx[x]
        /\ Open(r) /\ res \in tx[r].todo /\ tx'[r].todo = tx[r].todo \ {res}
        /\ DOMAIN tx'[r].lines = DOMAIN tx[r].lines \cup {res.user}
        /\ tx'[r].lines[res.user] = Upserted(Line(r, res.user), res)
        /\ \A v \in DOMAIN tx[r].lines \ {res.user} : tx'[r].lines[v] = tx[r].lines[v]
        /\ Adds(Upserted(Line(r, res.user), res), board[res.user], Dealt(r, res.user) \cup {res})
    BY <1>7, UpsertLineTx
  <2>3. CASE s # r
    BY <1>3, <2>1, <2>2, <2>3 DEF Open
  <2>4. CASE s = r /\ u = res.user
    <3>1. Dealt(s, u)' = Dealt(s, u) \cup {res}
      BY <1>1, <2>2, <2>4 DEF Dealt
    <3>2. Line(s, u)' = Upserted(Line(r, res.user), res)
      BY <1>2, <2>2, <2>4
    <3> QED
      BY <2>1, <2>2, <2>4, <3>1, <3>2
  <2>5. CASE s = r /\ u # res.user
    <3>1. Dealt(s, u)' = Dealt(s, u)
      BY <1>1, <2>2, <2>5 DEF Dealt
    <3>2. Line(s, u)' = Line(s, u)
      BY <1>2, <2>1, <2>2, <2>5 DEF Line
    <3> QED
      BY <1>0, <2>1, <2>2, <2>5, <3>1, <3>2
  <2> QED
    BY <2>3, <2>4, <2>5
<1>8. ASSUME NEW r \in Races, Commit(r) \/ CommitReplyLost(r)
      PROVE  Adds(Line(s, u)', board'[u], Dealt(s, u)')
  <2>1. MayCommit(r) /\ CommitWrites(r) /\ tx' = Ended(r)
    BY <1>8 DEF Commit, CommitReplyLost, CommitWrites
  <2>2. s # r /\ tx'[s] = tx[s] /\ Open(s)
    BY <2>1, EndedTx DEF Open
  <2>3. board'[u] = Line(r, u) /\ board'[u] \in LineType /\ board[u] \in LineType
    BY <2>1, CommitAdds, LineIsLine
  <2>4. Dealt(s, u)' = Dealt(s, u)
    BY <1>1, <2>2 DEF Dealt
  <2>5. CASE u \in DOMAIN tx[s].lines
    <3>1. u \notin DOMAIN tx[r].lines
      BY <2>2, <2>5 DEF LocksOK
    <3>2. board'[u] = board[u]
      BY <2>3, <3>1 DEF Line
    <3>3. Line(s, u)' = Line(s, u)
      BY <1>2, <2>2, <2>5 DEF Line
    <3> QED
      BY <1>0, <2>2, <2>4, <3>2, <3>3
  <2>6. CASE u \notin DOMAIN tx[s].lines
    <3>1. Adds(board[u], board[u], Dealt(s, u))
      BY <1>0, <2>2, <2>6 DEF Line
    <3>2. IsFiniteSet(Dealt(s, u))
      <4>1. Dealt(s, u) \subseteq Results[s]
        BY DEF Dealt
      <4> QED
        BY <4>1, ResultsType
    <3>3. Dealt(s, u) = {}
      BY <2>3, <3>1, <3>2, AddsNothing
    <3>4. Line(s, u)' = board'[u]
      BY <1>2, <2>2, <2>6
    <3>5. Adds(board'[u], board'[u], Dealt(s, u))
      BY <2>3, <3>2, <3>3, AddsNothing
    <3> QED
      BY <2>4, <3>4, <3>5
  <2> QED
    BY <2>5, <2>6
<1>9. ASSUME NEW r \in Races, FinishFails(r) \/ DeadlockAborts(r)
      PROVE  Adds(Line(s, u)', board'[u], Dealt(s, u)')
  <2>1. tx' = Ended(r) /\ board' = board
    BY <1>9 DEF FinishFails, DeadlockAborts, Rollback, dataVars
  <2>2. s # r /\ tx'[s] = tx[s] /\ Open(s)
    BY <2>1, EndedTx DEF Open
  <2> QED
    BY <1>3, <2>1, <2>2
<1>10. ASSUME QuietSteps
       PROVE  Adds(Line(s, u)', board'[u], Dealt(s, u)')
  <2>1. board' = board /\ tx' = tx
    BY <1>10, QuietKeeps
  <2> QED
    BY <1>3, <2>1 DEF Open
<1> QED
  BY <1>4, <1>5, <1>6, <1>7, <1>8, <1>9, <1>10, StepCases

-----------------------------------------------------------------------------
(* The ranks.                                                               *)

\* The consumer's reconciliation finds every rank set: its message is sent after the
\* commit, and the commit leaves no result without its rank.
LEMMA ReconcileNoop ==
    ASSUME TypeOK, RanksOK, PublishedLast, NEW r \in Races, ReconcileParticipantResults(r)
    PROVE  finishRank' = finishRank
<1>1. status[r] = "finished"
  BY DEF ReconcileParticipantResults, PublishedLast
<1>2. Filled(r, finishRank[r], Results[r]) /\ finishRank \in [Races -> UNION {[S -> Nat] : S \in SUBSET Users}]
  BY <1>1 DEF RanksOK
<1>3. finishRank[r] \in [Rows[r] -> Nat]
  BY DEF TypeOK
<1> DEFINE new == [u \in Rows[r] |-> IF finishRank[r][u] = Null /\ (\E res \in Results[r] : res.user = u)
                                     THEN FirstRank(r, u) ELSE finishRank[r][u]]
<1>4. finishRank' = [finishRank EXCEPT ![r] = new]
  BY DEF ReconcileParticipantResults
<1>5. \A u \in Rows[r] : (\E res \in Results[r] : res.user = u) => finishRank[r][u] # Null
  BY <1>2 DEF Filled
<1>6. new = finishRank[r]
  BY <1>3, <1>5
<1> QED
  BY <1>2, <1>4, <1>6

\* Only a commit changes what is committed, and only a commit puts a race back into
\* the weekly window.
LEMMA DataChange ==
    ASSUME TypeOK, RanksOK, PublishedLast, [Next]_vars
    PROVE  \/ UNCHANGED <<status, finishRank, board, commits>> /\ aged \subseteq aged'
           \/ \E r \in Races : MayCommit(r) /\ CommitWrites(r)
<1>1. ASSUME NEW r \in Races, Commit(r) \/ CommitReplyLost(r)
      PROVE  MayCommit(r) /\ CommitWrites(r)
  BY <1>1 DEF Commit, CommitReplyLost
<1>2. ASSUME NEW r \in Races, Begin(r) \/ UpdateRace(r) \/ FinishFails(r) \/ DeadlockAborts(r)
      PROVE  UNCHANGED <<status, finishRank, board, commits>> /\ aged \subseteq aged'
  BY <1>2 DEF Begin, UpdateRace, FinishFails, DeadlockAborts, dataVars
<1>3. ASSUME NEW r \in Races, NEW res \in Results[r], UpdateParticipant(r, res) \/ UpsertLine(r, res)
      PROVE  UNCHANGED <<status, finishRank, board, commits>> /\ aged \subseteq aged'
  BY <1>3 DEF UpdateParticipant, UpsertLine, dataVars
<1>4. ASSUME QuietSteps PROVE UNCHANGED <<status, finishRank, board, commits>> /\ aged \subseteq aged'
  <2>0. CASE \E r \in Races : WeekPasses(r)
    BY <2>0 DEF WeekPasses
  <2>1. CASE \E r \in Races : ReconcileParticipantResults(r)
    BY <2>1, ReconcileNoop DEF ReconcileParticipantResults
  <2>2. CASE Reader
    BY <2>2 DEF Reader, TopCount, TopQuery, TopQueryFails, StatusRace, StatusParticipants, dataVars
  <2>3. CASE UNCHANGED vars
    BY <2>3 DEF vars, dataVars
  <2> QED
    BY <1>4, <2>0, <2>1, <2>2, <2>3 DEF QuietSteps
<1> QED
  BY <1>1, <1>2, <1>3, <1>4, StepCases

\* No race leaves the weekly window but by the passing of time.
LEMMA WindowKeeps ==
    ASSUME [Next]_vars
    PROVE  aged' \subseteq aged \/ \E r \in Races : WeekPasses(r)
<1>1. ASSUME NEW r \in Races, Commit(r) \/ CommitReplyLost(r) PROVE aged' \subseteq aged
  BY <1>1 DEF Commit, CommitReplyLost, CommitWrites
<1>2. ASSUME NEW r \in Races, Begin(r) \/ UpdateRace(r) \/ FinishFails(r) \/ DeadlockAborts(r)
                              \/ ReconcileParticipantResults(r)
      PROVE  aged' \subseteq aged
  BY <1>2 DEF Begin, UpdateRace, FinishFails, DeadlockAborts, ReconcileParticipantResults, dataVars
<1>3. ASSUME NEW r \in Races, NEW res \in Results[r], UpdateParticipant(r, res) \/ UpsertLine(r, res)
      PROVE  aged' \subseteq aged
  BY <1>3 DEF UpdateParticipant, UpsertLine, dataVars
<1>4. ASSUME Reader PROVE aged' \subseteq aged
  BY <1>4 DEF Reader, TopCount, TopQuery, TopQueryFails, StatusRace, StatusParticipants, dataVars
<1>5. ASSUME UNCHANGED vars PROVE aged' \subseteq aged
  BY <1>5 DEF vars, dataVars
<1> QED
  BY <1>1, <1>2, <1>3, <1>4, <1>5, StepCases DEF QuietSteps

\* What a commit makes of them.
LEMMA CommitRanks ==
    ASSUME TypeOK, TxOK, RanksOK, NEW r \in Races, MayCommit(r), CommitWrites(r)
    PROVE  /\ finishRank' \in [Races -> UNION {[S -> Nat] : S \in SUBSET Users}]
           /\ finishRank'[r] = tx[r].ranks /\ status'[r] = "finished"
           /\ \A s \in Races \ {r} : finishRank'[s] = finishRank[s] /\ status'[s] = status[s]
           /\ Filled(r, tx[r].ranks, Results[r]) /\ Sourced(r, tx[r].ranks)
           /\ tx[r].ranks \in [Rows[r] -> Nat] /\ status' \in [Races -> {"active", "finished"}]
<1>1. /\ finishRank \in [Races -> UNION {[S -> Nat] : S \in SUBSET Users}]
      /\ finishRank' = [finishRank EXCEPT ![r] = tx[r].ranks]
  BY DEF RanksOK, CommitWrites
<1>2. status \in [Races -> {"active", "finished"}] /\ status' = [status EXCEPT ![r] = "finished"]
  BY DEF TypeOK, CommitWrites
<1>3. Open(r) /\ tx[r].todo = {}
  BY DEF Open, MayCommit
<1>4. (Results[r] \ tx[r].todo) \cup tx[r].cur = Results[r]
  BY <1>3 DEF TxOK
<1>5. Filled(r, tx[r].ranks, Results[r]) /\ Sourced(r, tx[r].ranks)
  BY <1>3, <1>4 DEF RanksOK
<1>6. tx[r].ranks \in [Rows[r] -> Nat]
  BY <1>3, TxFields DEF TxOK
<1>7. tx[r].ranks \in UNION {[S -> Nat] : S \in SUBSET Users}
  BY <1>6, ResultsType
<1>8. /\ finishRank' \in [Races -> UNION {[S -> Nat] : S \in SUBSET Users}]
      /\ finishRank'[r] = tx[r].ranks /\ \A s \in Races \ {r} : finishRank'[s] = finishRank[s]
  BY <1>1, <1>7
<1> QED
  BY <1>2, <1>5, <1>6, <1>8

\* A transaction's ranks come from the results it has dealt with, and the committed ones
\* from all of them.
LEMMA NextRanks ==
    ASSUME TypeOK, TxOK, LinesOK, RanksOK, PublishedLast, [Next]_vars
    PROVE  RanksOK'
<1> DEFINE Kept(s) == /\ Sourced(s, finishRank'[s])
                      /\ status'[s] = "finished" => Filled(s, finishRank'[s], Results[s])
           Written(s) == tx'[s].pc # "none" =>
                             /\ Sourced(s, tx'[s].ranks)
                             /\ Filled(s, tx'[s].ranks, (Results[s] \ tx'[s].todo) \cup tx'[s].cur)
<1>0. \A s \in Races :
          /\ Sourced(s, finishRank[s])
          /\ status[s] = "finished" => Filled(s, finishRank[s], Results[s])
          /\ tx[s].pc # "none" => /\ Sourced(s, tx[s].ranks)
                                  /\ Filled(s, tx[s].ranks, (Results[s] \ tx[s].todo) \cup tx[s].cur)
  BY DEF RanksOK, Open
<1>1. finishRank' \in [Races -> UNION {[S -> Nat] : S \in SUBSET Users}] /\ \A s \in Races : Kept(s)
  <2>1. CASE UNCHANGED <<status, finishRank, board, commits>>
    BY <1>0, <2>1 DEF RanksOK
  <2>2. ASSUME NEW r \in Races, MayCommit(r), CommitWrites(r)
        PROVE  finishRank' \in [Races -> UNION {[S -> Nat] : S \in SUBSET Users}] /\ \A s \in Races : Kept(s)
    <3>1. Kept(r)
      BY <2>2, CommitRanks
    <3>2. \A s \in Races \ {r} : Kept(s)
      BY <1>0, <2>2, CommitRanks
    <3> QED
      BY <2>2, <3>1, <3>2, CommitRanks
  <2> QED
    BY <2>1, <2>2, DataChange
<1>2. \A s \in Races : Written(s)
  <2>1. ASSUME NEW s \in Races, tx[s].pc # "none", tx'[s].ranks = tx[s].ranks,
               (Results[s] \ tx'[s].todo) \cup tx'[s].cur \subseteq (Results[s] \ tx[s].todo) \cup tx[s].cur
        PROVE  Written(s)
    BY <1>0, <2>1 DEF Filled
  <2>2. ASSUME NEW s \in Races, tx'[s] = tx[s] PROVE Written(s)
    BY <1>0, <2>2
  <2>3. ASSUME NEW r \in Races, Begin(r) PROVE \A s \in Races : Written(s)
    <3>1. tx'[r].todo = Results[r] /\ tx'[r].cur = {} /\ tx'[r].ranks = finishRank[r]
      BY <2>3, BeginTx
    <3>2. Written(r)
      BY <1>0, <3>1 DEF Filled
    <3> QED
      BY <2>2, <2>3, <3>2, BeginTx
  <2>4. ASSUME NEW r \in Races, UpdateRace(r) PROVE \A s \in Races : Written(s)
    <3>1. tx[r].pc = "race"
      BY <2>4 DEF UpdateRace
    <3> QED
      BY <2>1, <2>2, <2>4, <3>1, UpdateRaceTx
  <2>5. ASSUME NEW r \in Races, NEW res \in Results[r], UpdateParticipant(r, res)
        PROVE  \A s \in Races : Written(s)
    <3>1. tx[r].pc = "next" /\ tx[r].cur = {}
      BY <2>5 DEF UpdateParticipant, TxOK
    <3>2. /\ \A s \in Races \ {r} : tx'[s] = tx[s]
          /\ tx'[r].todo = tx[r].todo /\ tx'[r].cur = {res}
          /\ tx'[r].ranks = [u \in DOMAIN tx[r].ranks |-> IF u = res.user THEN res.rank ELSE tx[r].ranks[u]]
      BY <2>5, UpdateParticipantTx
    <3>3. DOMAIN tx[r].ranks = Rows[r]
      BY <3>1 DEF TxOK, Open
    <3>4. \A u \in Rows[r] : tx'[r].ranks[u] = IF u = res.user THEN res.rank ELSE tx[r].ranks[u]
      BY <3>2, <3>3
    <3>5. res.rank # Null
      BY ResultsType DEF Null
    <3>6. Sourced(r, tx'[r].ranks)
      <4> SUFFICES ASSUME NEW u \in Rows[r], tx'[r].ranks[u] # Null
                   PROVE  \E x \in Results[r] : x.user = u /\ x.rank = tx'[r].ranks[u]
        BY DEF Sourced
      <4>1. CASE u = res.user
        BY <3>4, <4>1
      <4>2. CASE u # res.user
        <5>1. tx'[r].ranks[u] = tx[r].ranks[u]
          BY <3>4, <4>2
        <5>2. Sourced(r, tx[r].ranks)
          BY <1>0, <3>1
        <5> QED
          BY <5>1, <5>2 DEF Sourced
      <4> QED
        BY <4>1, <4>2
    <3>7. Filled(r, tx'[r].ranks, (Results[r] \ tx'[r].todo) \cup tx'[r].cur)
      BY <1>0, <3>1, <3>2, <3>4, <3>5 DEF Filled
    <3> QED
      BY <2>2, <3>2, <3>6, <3>7
  <2>6. ASSUME NEW r \in Races, NEW res \in Results[r], UpsertLine(r, res)
        PROVE  \A s \in Races : Written(s)
    <3>1. /\ \A s \in Races \ {r} : tx'[s] = tx[s]
          /\ tx[r].pc # "none" /\ tx'[r].ranks = tx[r].ranks
          /\ tx'[r].todo = tx[r].todo \ {res} /\ tx'[r].cur = {}
      BY <2>6, UpsertLineTx DEF Open
    <3>2. res \in tx[r].cur
      BY <2>6 DEF UpsertLine
    <3>3. (Results[r] \ tx'[r].todo) \cup tx'[r].cur \subseteq (Results[r] \ tx[r].todo) \cup tx[r].cur
      BY <3>1, <3>2
    <3> QED
      BY <2>1, <2>2, <3>1, <3>3
  <2>7. ASSUME NEW r \in Races, Commit(r) \/ CommitReplyLost(r) \/ FinishFails(r) \/ DeadlockAborts(r)
        PROVE  \A s \in Races : Written(s)
    <3>1. tx' = Ended(r)
      BY <2>7 DEF Commit, CommitReplyLost, FinishFails, DeadlockAborts, CommitWrites, Rollback
    <3> QED
      BY <2>2, <3>1, EndedTx
  <2>8. ASSUME QuietSteps PROVE \A s \in Races : Written(s)
    BY <2>2, <2>8, QuietKeeps
  <2> HIDE DEF Written
  <2> QED
    BY <2>3, <2>4, <2>5, <2>6, <2>7, <2>8, StepCases
<1> QED
  BY <1>1, <1>2 DEF RanksOK, Open

\* r.finished, then the message; the commits and lost replies are counted.
LEMMA NextCommits ==
    ASSUME TypeOK, TxOK, PublishedLast, CommitsOK, [Next]_vars
    PROVE  PublishedLast' /\ CommitsOK'
<1>0. commits \in [Races -> Nat] /\ lostReplies \in [Races -> Nat] /\ status \in [Races -> {"active", "finished"}]
      /\ finished \subseteq Races
  BY DEF TypeOK
<1>1. CASE UNCHANGED <<status, finished, published, commits, lostReplies>>
  BY <1>1 DEF PublishedLast, CommitsOK
<1>2. ASSUME NEW r \in Races, Commit(r) PROVE PublishedLast' /\ CommitsOK'
  <2>1. r \notin finished
    BY <1>2 DEF Commit, MayCommit, TxOK, Open
  <2>2. /\ status' = [status EXCEPT ![r] = "finished"] /\ commits' = [commits EXCEPT ![r] = @ + 1]
        /\ lostReplies' = lostReplies /\ finished' = finished \cup {r}
        /\ published' \subseteq published \cup {r}
    BY <1>2 DEF Commit, CommitWrites, countVars
  <2>3. PublishedLast'
    BY <1>0, <2>2 DEF PublishedLast
  <2>4. CommitsOK'
    BY <1>0, <2>1, <2>2 DEF CommitsOK
  <2> QED
    BY <2>3, <2>4
<1>3. ASSUME NEW r \in Races, CommitReplyLost(r) PROVE PublishedLast' /\ CommitsOK'
  <2>1. r \notin finished
    BY <1>3 DEF CommitReplyLost, MayCommit, TxOK, Open
  <2>2. /\ status' = [status EXCEPT ![r] = "finished"] /\ commits' = [commits EXCEPT ![r] = @ + 1]
        /\ lostReplies' = [lostReplies EXCEPT ![r] = @ + 1] /\ UNCHANGED <<finished, published>>
    BY <1>3 DEF CommitReplyLost, CommitWrites, roomVars
  <2>3. PublishedLast'
    BY <1>0, <2>2 DEF PublishedLast
  <2>4. CommitsOK'
    BY <1>0, <2>1, <2>2 DEF CommitsOK
  <2> QED
    BY <2>3, <2>4
<1>4. ASSUME NEW r \in Races, Begin(r) \/ UpdateRace(r) \/ FinishFails(r) \/ DeadlockAborts(r)
      PROVE  UNCHANGED <<status, finished, published, commits, lostReplies>>
  BY <1>4 DEF Begin, UpdateRace, FinishFails, DeadlockAborts, dataVars, roomVars, countVars
<1>5. ASSUME NEW r \in Races, NEW res \in Results[r], UpdateParticipant(r, res) \/ UpsertLine(r, res)
      PROVE  UNCHANGED <<status, finished, published, commits, lostReplies>>
  BY <1>5 DEF UpdateParticipant, UpsertLine, dataVars, roomVars, countVars
<1> QED
  BY <1>1, <1>2, <1>3, <1>4, <1>5, QuietKeeps, StepCases

-----------------------------------------------------------------------------
(* Types.                                                                   *)

\* Every step keeps every variable's type.
LEMMA NextType ==
    ASSUME TypeOK, TxOK, LocksOK, LinesOK, RanksOK, PublishedLast, [Next]_vars
    PROVE  TypeOK'
<1>1. \A r \in Races : tx'[r].pc \in {"none", "race", "next", "upsert"} /\ tx'[r].todo \subseteq Results[r]
  BY NextTx DEF TxOK, TxType
<1>2. /\ lock' \in [Users -> Races \cup {Unlocked}]
      /\ \A u \in Users : lock'[u] # Unlocked => u \in DOMAIN tx'[lock'[u]].lines
  <2>1. LocksOK' /\ lock' \in [Users -> Races \cup {Unlocked}]
    BY NextLocks
  <2>2. ASSUME NEW u \in Users, lock'[u] # Unlocked PROVE u \in DOMAIN tx'[lock'[u]].lines
    <3>1. lock'[u] \in Races
      BY <2>1, <2>2
    <3> QED
      BY <2>1, <3>1 DEF LocksOK
  <2> QED
    BY <2>1, <2>2
<1>3. /\ status' \in [Races -> {"active", "finished"}]
      /\ \A r \in Races : finishRank'[r] \in [Rows[r] -> Nat]
      /\ board' \in [Users -> LineType] /\ commits' \in [Races -> Nat]
  <2>1. CASE UNCHANGED <<status, finishRank, board, commits>>
    BY <2>1 DEF TypeOK, LineType
  <2>2. ASSUME NEW r \in Races, MayCommit(r), CommitWrites(r)
        PROVE  /\ status' \in [Races -> {"active", "finished"}]
               /\ \A s \in Races : finishRank'[s] \in [Rows[s] -> Nat]
               /\ board' \in [Users -> LineType] /\ commits' \in [Races -> Nat]
    <3>1. \A s \in Races : finishRank'[s] \in [Rows[s] -> Nat]
      <4>1. finishRank'[r] \in [Rows[r] -> Nat]
        BY <2>2, CommitRanks
      <4>2. \A s \in Races \ {r} : finishRank'[s] \in [Rows[s] -> Nat]
        BY <2>2, CommitRanks DEF TypeOK
      <4> QED
        BY <4>1, <4>2
    <3>2. commits' \in [Races -> Nat]
      BY <2>2 DEF CommitWrites, TypeOK
    <3> QED
      BY <2>2, <3>1, <3>2, CommitRanks, CommitAdds
  <2> QED
    BY <2>1, <2>2, DataChange
<1>4. /\ finished' \subseteq Races /\ published' \subseteq Races /\ reconciled' \subseteq Races
      /\ lostReplies' \in [Races -> Nat] /\ calls' \in 0..MaxCalls /\ faults' \in 0..MaxFaults
  <2>0. /\ finished \subseteq Races /\ published \subseteq Races /\ reconciled \subseteq Races
        /\ lostReplies \in [Races -> Nat] /\ calls \in 0..MaxCalls /\ faults \in 0..MaxFaults
    BY DEF TypeOK
  <2> DEFINE Goal == /\ finished' \subseteq Races /\ published' \subseteq Races /\ reconciled' \subseteq Races
                     /\ lostReplies' \in [Races -> Nat] /\ calls' \in 0..MaxCalls /\ faults' \in 0..MaxFaults
  <2>1. ASSUME NEW r \in Races, Begin(r) \/ FinishFails(r)
        PROVE  Goal
    <3>1. UNCHANGED <<finished, published, reconciled, lostReplies>>
      BY <2>1 DEF Begin, FinishFails, roomVars
    <3>2. calls' \in 0..MaxCalls /\ faults' \in 0..MaxFaults
      BY <2>0, <2>1, BoundsAssumption DEF Begin, FinishFails
    <3> QED
      BY <2>0, <3>1, <3>2
  <2>2. ASSUME NEW r \in Races, UpdateRace(r) \/ DeadlockAborts(r)
        PROVE  Goal
    BY <2>0, <2>2 DEF UpdateRace, DeadlockAborts, roomVars, countVars
  <2>3. ASSUME NEW r \in Races, NEW res \in Results[r], UpdateParticipant(r, res) \/ UpsertLine(r, res)
        PROVE  Goal
    BY <2>0, <2>3 DEF UpdateParticipant, UpsertLine, roomVars, countVars
  <2>4. ASSUME NEW r \in Races, Commit(r)
        PROVE  Goal
    BY <2>0, <2>4 DEF Commit, countVars
  <2>5. ASSUME NEW r \in Races, CommitReplyLost(r)
        PROVE  Goal
    <3>1. UNCHANGED <<finished, published, reconciled, calls>>
      BY <2>5 DEF CommitReplyLost, roomVars
    <3>2. faults' \in 0..MaxFaults
      BY <2>0, <2>5, BoundsAssumption DEF CommitReplyLost
    <3>3. lostReplies' \in [Races -> Nat]
      BY <2>0, <2>5 DEF CommitReplyLost
    <3> QED
      BY <2>0, <3>1, <3>2, <3>3
  <2>6. ASSUME QuietSteps PROVE Goal
    <3>1. reconciled' \subseteq Races
      <4>1. CASE \E r \in Races : ReconcileParticipantResults(r) \/ WeekPasses(r)
        BY <2>0, <4>1 DEF ReconcileParticipantResults, WeekPasses
      <4>2. CASE Reader
        BY <2>0, <4>2 DEF Reader, TopCount, TopQuery, TopQueryFails, StatusRace, StatusParticipants
      <4>3. CASE UNCHANGED vars
        BY <2>0, <4>3 DEF vars
      <4> QED
        BY <2>6, <4>1, <4>2, <4>3 DEF QuietSteps
    <3> QED
      BY <2>0, <2>6, <3>1, QuietKeeps
  <2> HIDE DEF Goal
  <2>7. Goal
    BY <2>1, <2>2, <2>3, <2>4, <2>5, <2>6, StepCases
  <2> QED
    BY <2>7 DEF Goal
<1>5. aged' \subseteq Races
  <2>1. CASE aged' \subseteq aged
    BY <2>1 DEF TypeOK
  <2>2. CASE \E r \in Races : WeekPasses(r)
    BY <2>2 DEF TypeOK, WeekPasses
  <2> QED
    BY <2>1, <2>2, WindowKeeps
<1> QED
  BY <1>1, <1>2, <1>3, <1>4, <1>5 DEF TypeOK, LineType

-----------------------------------------------------------------------------
(* The readers.                                                             *)

\* No finished race is ever taken for an active one.
LEMMA FinishedStays ==
    ASSUME TypeOK, TxOK, RanksOK, PublishedLast, [Next]_vars
    PROVE  \A r \in Races : status[r] = "finished" => status'[r] = "finished"
<1>1. CASE UNCHANGED <<status, finishRank, board, commits>>
  BY <1>1
<1>2. ASSUME NEW r \in Races, MayCommit(r), CommitWrites(r)
      PROVE  \A s \in Races : status[s] = "finished" => status'[s] = "finished"
  BY <1>2, CommitRanks
<1> QED
  BY <1>1, <1>2, DataChange

\* Nobody listed in a window goes missing from it, but by the passing of time.
LEMMA CountedGrows ==
    ASSUME TypeOK, TxOK, LinesOK, RanksOK, PublishedLast, [Next]_vars,
           NEW window \in {"alltime", "weekly"}
    PROVE  /\ Counted(window) \in Nat /\ Counted(window)' \in Nat
           /\ window = "alltime" \/ ~(\E r \in Races : WeekPasses(r)) => Counted(window) <= Counted(window)'
<1> DEFINE S == Listed(window)
           T == Listed(window)'
<1>1. window = "alltime" => S \subseteq T
  <2>1. CASE UNCHANGED <<status, finishRank, board, commits>>
    BY <2>1 DEF Listed
  <2>2. ASSUME NEW r \in Races, MayCommit(r), CommitWrites(r), NEW u \in Users, board[u].races > 0
        PROVE  board'[u].races > 0
    <3>1. board'[u] \in LineType /\ board[u] \in LineType
      BY <2>2, CommitAdds, LineIsLine
    <3>2. Adds(board'[u], board[u], {res \in Results[r] : res.user = u})
      BY <2>2, CommitAdds
    <3>3. board'[u].races >= board[u].races
      BY <3>1, <3>2, AddsGrows
    <3> QED
      BY <2>2, <3>1, <3>3 DEF LineType
  <2> QED
    BY <2>1, <2>2, DataChange DEF Listed
<1>2. window = "weekly" /\ ~(\E r \in Races : WeekPasses(r)) => S \subseteq T
  <2> SUFFICES ASSUME window = "weekly", aged' \subseteq aged PROVE S \subseteq T
    BY WindowKeeps
  <2>1. \A r \in Races : InWeek(r) => InWeek(r)'
    BY FinishedStays DEF InWeek
  <2> QED
    BY <2>1 DEF Listed
<1>3. IsFiniteSet(S) /\ IsFiniteSet(T)
  <2>1. S \subseteq Users /\ T \subseteq Users
    BY DEF Listed
  <2> HIDE DEF S, T
  <2> QED
    BY <2>1, SetsAssumption, FS_Subset
<1>4. Counted(window) = Cardinality(S) /\ Counted(window)' = Cardinality(T)
  BY DEF Counted
<1>5. window = "alltime" \/ ~(\E r \in Races : WeekPasses(r)) => S \subseteq T
  BY <1>1, <1>2
<1> HIDE DEF S, T
<1> QED
  BY <1>3, <1>4, <1>5, FS_Subset, FS_CardinalityType

\* A page that ceil(total / PageSize) pages include starts before line total.
LEMMA PageStarts ==
    ASSUME NEW total \in Nat, total > 0, NEW page \in Nat \ {0}, page <= TotalPages(total)
    PROVE  (page - 1) * PageSize \in Nat /\ (page - 1) * PageSize < total
<1> DEFINE q == (total + PageSize - 1) \div PageSize
<1>1. PageSize \in Nat \ {0}
  BY BoundsAssumption
<1>2. q \in Nat /\ q * PageSize <= total + PageSize - 1
  BY <1>1
<1>3. q >= 1
  BY <1>1
<1>4. page <= q
  BY <1>2, <1>3 DEF TotalPages, Greatest
<1>5. (page - 1) * PageSize <= (q - 1) * PageSize
  BY <1>1, <1>2, <1>4
<1>6. (q - 1) * PageSize = q * PageSize - PageSize
  BY <1>1, <1>2
<1> QED
  BY <1>1, <1>2, <1>5, <1>6

\* What a reader read first still holds when it reads on: nothing is taken off the
\* board, and no finished race loses a rank.  What leaves the weekly window is noted.
LEMMA NextReader ==
    ASSUME Inv, [Next]_vars
    PROVE  ReaderOK' /\ FinishedShownWithRanks' /\ ListedPagesFilled'
<1>0. /\ TypeOK /\ TxOK /\ LinesOK /\ RanksOK /\ PublishedLast
      /\ ReaderOK /\ FinishedShownWithRanks /\ ListedPagesFilled
  BY DEF Inv
<1>1. \A window \in {"alltime", "weekly"} :
          /\ Counted(window) \in Nat /\ Counted(window)' \in Nat
          /\ window = "alltime" \/ ~(\E r \in Races : WeekPasses(r)) => Counted(window) <= Counted(window)'
  BY <1>0, CountedGrows
<1>2. \A r \in Races : status[r] = "finished" => status'[r] = "finished"
  BY <1>0, FinishedStays
<1>3. ASSUME reader' = reader, reader.pc # "counted" \/ ~(\E r \in Races : WeekPasses(r))
      PROVE  ReaderOK' /\ FinishedShownWithRanks' /\ ListedPagesFilled'
  <2>1. ReaderOK'
    <3>1. ASSUME reader.pc = "counted"
          PROVE  reader \in Between /\ (reader'.rolled \/ reader.total <= Counted(reader.window)')
      <4>1. reader \in Between /\ (reader.rolled \/ reader.total <= Counted(reader.window))
        BY <1>0, <3>1 DEF ReaderOK
      <4>2. reader.window \in {"alltime", "weekly"} /\ reader.total \in Nat
        BY <4>1 DEF Between
      <4>3. /\ Counted(reader.window) \in Nat /\ Counted(reader.window)' \in Nat
            /\ Counted(reader.window) <= Counted(reader.window)'
        BY <1>1, <1>3, <3>1, <4>2
      <4> QED
        BY <1>3, <4>1, <4>2, <4>3
    <3> QED
      BY <1>0, <1>2, <1>3, <3>1 DEF ReaderOK
  <2>2. FinishedShownWithRanks'
    BY <1>0, <1>3 DEF FinishedShownWithRanks
  <2>3. ListedPagesFilled'
    BY <1>0, <1>3 DEF ListedPagesFilled
  <2> QED
    BY <2>1, <2>2, <2>3
<1>4. ASSUME NEW window \in {"alltime", "weekly"}, NEW page \in 1..MaxPage,
             TopCount(window, page)
      PROVE  ReaderOK' /\ FinishedShownWithRanks' /\ ListedPagesFilled'
  <2>1. reader' = [pc |-> "counted", window |-> window, page |-> page, total |-> Counted(window), rolled |-> FALSE]
    BY <1>4 DEF TopCount
  <2>2. page \in Nat \ {0} /\ Counted(window) \in Nat
    BY <1>1, BoundsAssumption
  <2>3. reader' \in Between
    BY <2>1, <2>2 DEF Between
  <2>4. Counted(window)' = Counted(window)
    BY <1>4 DEF TopCount, dataVars, Counted, Listed, InWeek
  <2>5. reader'.pc = "counted" /\ (reader.total <= Counted(reader.window))'
    <3>1. reader'.pc = "counted" /\ reader'.total = Counted(window) /\ reader'.window = window
      BY <2>1
    <3>2. Counted(reader.window)' = Counted(window)'
      BY <3>1 DEF Counted, Listed
    <3> QED
      BY <2>2, <2>4, <3>1, <3>2
  <2> QED
    BY <2>3, <2>5 DEF ReaderOK, FinishedShownWithRanks, ListedPagesFilled
<1>5. ASSUME TopQuery
      PROVE  ReaderOK' /\ FinishedShownWithRanks' /\ ListedPagesFilled'
  <2>1. reader \in Between /\ (reader.rolled \/ reader.total <= Counted(reader.window))
    BY <1>0, <1>5 DEF TopQuery, ReaderOK
  <2>2. reader.total \in Nat /\ reader.page \in Nat \ {0} /\ Counted(reader.window) \in Nat
    BY <1>1, <2>1 DEF Between
  <2>3. /\ reader'.pc = "page" /\ reader'.rolled = reader.rolled
        /\ reader'.announced = (reader.total > 0 /\ reader.page <= TotalPages(reader.total))
        /\ reader'.entries = Least(PageSize, Greatest(0, Counted(reader.window) - Offset))
    BY <1>5 DEF TopQuery
  <2>4. ASSUME reader.total > 0, reader.page <= TotalPages(reader.total), ~reader.rolled
        PROVE  reader'.entries > 0
    <3>1. Offset \in Nat /\ Offset < reader.total
      BY <2>2, <2>4, PageStarts DEF Offset
    <3>2. Counted(reader.window) - Offset > 0
      BY <2>1, <2>2, <2>4, <3>1
    <3> QED
      BY <2>2, <2>3, <3>1, <3>2, BoundsAssumption DEF Least, Greatest
  <2>5. ListedPagesFilled'
    BY <2>3, <2>4 DEF ListedPagesFilled
  <2> QED
    BY <2>3, <2>5 DEF ReaderOK, FinishedShownWithRanks
<1>51. ASSUME TopQueryFails
       PROVE  ReaderOK' /\ FinishedShownWithRanks' /\ ListedPagesFilled'
  <2>1. reader'.pc = "failed"
    BY <1>51 DEF TopQueryFails
  <2> QED
    BY <2>1 DEF ReaderOK, FinishedShownWithRanks, ListedPagesFilled
<1>52. ASSUME NEW r \in Races, WeekPasses(r)
       PROVE  ReaderOK' /\ FinishedShownWithRanks' /\ ListedPagesFilled'
  <2>1. CASE reader.pc # "counted"
    BY <1>3, <1>52, <2>1 DEF WeekPasses
  <2>2. CASE reader.pc = "counted"
    <3>1. reader \in Between /\ (reader.rolled \/ reader.total <= Counted(reader.window))
      BY <1>0, <2>2 DEF ReaderOK
    <3>2. reader' \in Between /\ reader'.pc = "counted" /\ (reader'.rolled \/ (reader.total <= Counted(reader.window))')
      <4>1. CASE reader.window = "weekly"
        <5>1. reader' = [reader EXCEPT !.rolled = TRUE]
          BY <1>52, <2>2, <4>1 DEF WeekPasses
        <5> QED
          BY <2>2, <3>1, <5>1 DEF Between
      <4>2. CASE reader.window = "alltime"
        <5>1. reader' = reader
          BY <1>52, <4>2 DEF WeekPasses
        <5>2. reader.total \in Nat /\ (reader.rolled \/ reader.total <= Counted("alltime"))
          BY <3>1, <4>2 DEF Between
        <5>3. Counted("alltime") \in Nat /\ Counted("alltime")' \in Nat /\ Counted("alltime") <= Counted("alltime")'
          BY <1>1
        <5>4. Counted(reader.window)' = Counted("alltime")'
          BY <4>2, <5>1 DEF Counted, Listed
        <5> QED
          BY <2>2, <3>1, <5>1, <5>2, <5>3, <5>4
      <4> QED
        BY <3>1, <4>1, <4>2 DEF Between
    <3> QED
      BY <3>2 DEF ReaderOK, FinishedShownWithRanks, ListedPagesFilled
  <2> QED
    BY <2>1, <2>2
<1>6. ASSUME NEW r \in Races, StatusRace(r)
      PROVE  ReaderOK' /\ FinishedShownWithRanks' /\ ListedPagesFilled'
  <2>1. /\ reader'.pc = "race" /\ reader'.race = r /\ reader'.finished = (status[r] = "finished")
    BY <1>6 DEF StatusRace
  <2> QED
    BY <1>2, <2>1 DEF ReaderOK, FinishedShownWithRanks, ListedPagesFilled
<1>7. ASSUME StatusParticipants
      PROVE  ReaderOK' /\ FinishedShownWithRanks' /\ ListedPagesFilled'
  <2>1. reader.race \in Races /\ (reader.finished => status[reader.race] = "finished")
    BY <1>0, <1>7 DEF StatusParticipants, ReaderOK
  <2>2. /\ reader'.pc = "detail" /\ reader'.race = reader.race /\ reader'.finished = reader.finished
        /\ reader'.ranks = finishRank[reader.race]
    BY <1>7 DEF StatusParticipants
  <2>3. reader.finished => Filled(reader.race, finishRank[reader.race], Results[reader.race])
    BY <1>0, <2>1 DEF RanksOK
  <2>4. FinishedShownWithRanks'
    BY <2>2, <2>3 DEF FinishedShownWithRanks, Filled
  <2> QED
    BY <2>2, <2>4 DEF ReaderOK, ListedPagesFilled
<1>8. ASSUME NEW r \in Races, Begin(r) \/ UpdateRace(r) \/ Commit(r) \/ CommitReplyLost(r)
                              \/ FinishFails(r) \/ DeadlockAborts(r) \/ ReconcileParticipantResults(r)
      PROVE  reader' = reader
  BY <1>8 DEF Begin, UpdateRace, Commit, CommitReplyLost, FinishFails, DeadlockAborts, ReconcileParticipantResults
<1>9. ASSUME NEW r \in Races, NEW res \in Results[r], UpdateParticipant(r, res) \/ UpsertLine(r, res)
      PROVE  reader' = reader
  BY <1>9 DEF UpdateParticipant, UpsertLine
<1>10. UNCHANGED vars => reader' = reader
  BY DEF vars
<1> QED
  BY <1>3, <1>4, <1>5, <1>51, <1>52, <1>6, <1>7, <1>8, <1>9, <1>10, StepCases DEF QuietSteps, Reader

-----------------------------------------------------------------------------
(* The two boards.                                                          *)

\* A commit that gives a user a victory in the weekly window adds one to the all-time
\* line: the rank it stores comes from one of the results it counts.
LEMMA NextWins ==
    ASSUME Inv, [Next]_vars
    PROVE  WeeklyWinsCounted'
<1>0. TypeOK /\ TxOK /\ LinesOK /\ RanksOK /\ PublishedLast /\ WeeklyWinsCounted
  BY DEF Inv
<1> SUFFICES ASSUME NEW u \in Users PROVE WeeklyWins(u)' <= board'[u].wins
  BY DEF WeeklyWinsCounted
<1>1. WeeklyWins(u) <= board[u].wins
  BY <1>0 DEF WeeklyWinsCounted
<1>2. ASSUME UNCHANGED <<status, finishRank, board, commits>>, aged \subseteq aged'
      PROVE  WeeklyWins(u)' <= board'[u].wins
  <2> DEFINE W == {s \in Races : InWeek(s) /\ u \in Rows[s] /\ finishRank[s][u] = 1}
             V == {s \in Races : InWeek(s)' /\ u \in Rows[s] /\ finishRank'[s][u] = 1}
  <2>1. V \subseteq W /\ W \subseteq Races
    BY <1>2 DEF InWeek
  <2>2. WeeklyWins(u) = Cardinality(W) /\ WeeklyWins(u)' = Cardinality(V)
    BY DEF WeeklyWins
  <2>3. board[u].wins \in Nat
    BY <1>0 DEF TypeOK
  <2> HIDE DEF W, V
  <2>4. IsFiniteSet(W) /\ Cardinality(W) \in Nat
    BY <2>1, SetsAssumption, FS_Subset, FS_CardinalityType
  <2>5. Cardinality(V) \in Nat /\ Cardinality(V) <= Cardinality(W)
    BY <2>1, <2>4, FS_Subset, FS_CardinalityType
  <2> QED
    BY <1>1, <1>2, <2>2, <2>3, <2>4, <2>5
<1>3. ASSUME NEW r \in Races, MayCommit(r), CommitWrites(r)
      PROVE  WeeklyWins(u)' <= board'[u].wins
  <2> DEFINE W == {s \in Races : InWeek(s) /\ u \in Rows[s] /\ finishRank[s][u] = 1}
             V == {s \in Races : InWeek(s)' /\ u \in Rows[s] /\ finishRank'[s][u] = 1}
  <2>1. board'[u] \in LineType /\ board[u] \in LineType
        /\ Adds(board'[u], board[u], {res \in Results[r] : res.user = u})
    BY <1>0, <1>3, CommitAdds, LineIsLine
  <2>2. board[u].wins \in Nat /\ board'[u].wins \in Nat
    BY <2>1 DEF LineType
  <2>3. /\ finishRank'[r] = tx[r].ranks /\ Sourced(r, tx[r].ranks)
        /\ \A s \in Races \ {r} : finishRank'[s] = finishRank[s] /\ status'[s] = status[s]
    BY <1>0, <1>3, CommitRanks
  <2>4. V \subseteq W \cup {r}
    <3>1. aged' = aged \ {r}
      BY <1>3 DEF CommitWrites
    <3>2. \A s \in Races \ {r} : InWeek(s)' => InWeek(s)
      BY <2>3, <3>1 DEF InWeek
    <3> QED
      BY <2>3, <3>2
  <2>5. r \in V => board'[u].wins >= board[u].wins + 1
    <3>1. ASSUME r \in V PROVE \E res \in Results[r] : res.user = u /\ res.rank = 1
      <4>1. u \in Rows[r] /\ tx[r].ranks[u] = 1 /\ tx[r].ranks[u] # Null
        BY <2>3, <3>1 DEF Null
      <4> QED
        BY <2>3, <4>1 DEF Sourced
    <3> QED
      BY <2>1, <3>1, AddsGrows
  <2>6. board'[u].wins >= board[u].wins
    BY <2>1, AddsGrows
  <2>7. WeeklyWins(u) = Cardinality(W) /\ WeeklyWins(u)' = Cardinality(V)
    BY DEF WeeklyWins
  <2>8. W \subseteq Races /\ V \subseteq Races
    OBVIOUS
  <2> HIDE DEF W, V
  <2>9. IsFiniteSet(W) /\ IsFiniteSet(V) /\ Cardinality(W) \in Nat /\ Cardinality(V) \in Nat
    BY <2>8, SetsAssumption, FS_Subset, FS_CardinalityType
  <2>10. CASE r \in V
    <3>1. IsFiniteSet(W \cup {r}) /\ Cardinality(W \cup {r}) \in Nat /\ Cardinality(W \cup {r}) <= Cardinality(W) + 1
      <4>1. CASE r \in W
        <5>1. W \cup {r} = W
          BY <4>1
        <5>2. Cardinality(W) <= Cardinality(W) + 1
          BY <2>9
        <5> QED
          BY <2>9, <5>1, <5>2
      <4>2. CASE r \notin W
        <5>1. IsFiniteSet(W \cup {r}) /\ Cardinality(W \cup {r}) = Cardinality(W) + 1
          BY <2>9, <4>2, FS_AddElement
        <5> QED
          BY <2>9, <5>1
      <4> QED
        BY <4>1, <4>2
    <3>2. Cardinality(V) <= Cardinality(W \cup {r})
      BY <2>4, <3>1, FS_Subset
    <3> QED
      BY <1>1, <2>2, <2>5, <2>7, <2>9, <2>10, <3>1, <3>2
  <2>11. CASE r \notin V
    <3>1. V \subseteq W
      BY <2>4, <2>11
    <3>2. Cardinality(V) <= Cardinality(W)
      BY <2>9, <3>1, FS_Subset
    <3> QED
      BY <1>1, <2>2, <2>6, <2>7, <2>9, <3>2
  <2> QED
    BY <2>10, <2>11
<1> QED
  BY <1>0, <1>2, <1>3, DataChange

-----------------------------------------------------------------------------
(* The theorems.                                                            *)

\* At the start no race has ended, no transaction is open and nobody reads.
LEMMA InitInv ==
    ASSUME Init
    PROVE  Inv
<1>1. /\ tx = [r \in Races |-> NoTx] /\ NoTx \in TxType
      /\ NoTx.pc = "none" /\ NoTx.todo = {} /\ NoTx.cur = {} /\ DOMAIN NoTx.lines = {}
  BY NothingWritten DEF Init, NoTx, TxType
<1>2. \A r \in Races : tx[r] = NoTx
  BY <1>1
<1>3. /\ status = [r \in Races |-> "active"] /\ aged = {} /\ finishRank = [r \in Races |-> [u \in Rows[r] |-> Null]]
      /\ board = [u \in Users |-> EmptyLine] /\ lock = [u \in Users |-> Unlocked]
      /\ finished = {} /\ published = {} /\ reconciled = {} /\ reader = NoRead
      /\ commits = [r \in Races |-> 0] /\ lostReplies = [r \in Races |-> 0]
      /\ calls = 0 /\ faults = 0
  BY DEF Init
<1>4. TypeOK
  <2>1. \A r \in Races : finishRank[r] \in [Rows[r] -> Nat]
    BY <1>3 DEF Null
  <2>2. board \in [Users -> [races : Nat, wins : Nat, best : Nat]]
    BY <1>3 DEF EmptyLine, NoTime
  <2>3. \A r \in Races : tx[r].pc \in {"none", "race", "next", "upsert"} /\ tx[r].todo \subseteq Results[r]
    BY <1>1, <1>2
  <2>4. lock \in [Users -> Races \cup {Unlocked}] /\ \A u \in Users : lock[u] = Unlocked
    BY <1>3
  <2>5. calls \in 0..MaxCalls /\ faults \in 0..MaxFaults
    BY <1>3, BoundsAssumption
  <2> QED
    BY <1>3, <2>1, <2>2, <2>3, <2>4, <2>5 DEF TypeOK
<1>5. TxOK
  <2>1. tx \in [Races -> TxType]
    BY <1>1
  <2> QED
    BY <1>1, <1>2, <2>1 DEF TxOK, Open
<1>6. LocksOK
  BY <1>1, <1>2, <1>3, UnlockedAssumption DEF LocksOK
<1>7. LinesOK
  BY <1>1, <1>2 DEF LinesOK, Open
<1>8. RanksOK
  <2>1. finishRank \in [Races -> UNION {[S -> Nat] : S \in SUBSET Users}]
    <3>1. ASSUME NEW r \in Races PROVE [u \in Rows[r] |-> Null] \in UNION {[S -> Nat] : S \in SUBSET Users}
      BY ResultsType DEF Null
    <3> QED
      BY <1>3, <3>1
  <2>2. \A r \in Races : Sourced(r, finishRank[r])
    BY <1>3 DEF Sourced
  <2> QED
    BY <1>1, <1>2, <1>3, <2>1, <2>2 DEF RanksOK, Open
<1>9. PublishedLast /\ CommitsOK
  BY <1>3 DEF PublishedLast, CommitsOK
<1>10. ReaderOK /\ FinishedShownWithRanks /\ ListedPagesFilled
  BY <1>3 DEF NoRead, ReaderOK, FinishedShownWithRanks, ListedPagesFilled
<1>11. WeeklyWinsCounted
  <2>1. ASSUME NEW u \in Users PROVE WeeklyWins(u) = 0 /\ board[u].wins = 0
    <3>1. {r \in Races : InWeek(r) /\ u \in Rows[r] /\ finishRank[r][u] = 1} = {}
      BY <1>3 DEF InWeek
    <3> QED
      BY <1>3, <3>1, FS_EmptySet DEF WeeklyWins, EmptyLine
  <2> QED
    BY <2>1 DEF WeeklyWinsCounted
<1> QED
  BY <1>4, <1>5, <1>6, <1>7, <1>8, <1>9, <1>10, <1>11 DEF Inv

\* The conjuncts of Inv hold together and are kept together.
LEMMA Invariance == Spec => []Inv
<1>1. Inv /\ [Next]_vars => Inv'
  <2> SUFFICES ASSUME Inv, [Next]_vars PROVE Inv'
    OBVIOUS
  <2>1. TypeOK' /\ TxOK' /\ LocksOK' /\ LinesOK' /\ RanksOK'
    BY NextType, NextTx, NextLocks, NextLines, NextRanks DEF Inv
  <2>2. PublishedLast' /\ CommitsOK'
    BY NextCommits DEF Inv
  <2> QED
    BY <2>1, <2>2, NextReader, NextWins DEF Inv
<1> QED
  BY <1>1, InitInv, PTL DEF Spec

\* Every variable keeps its type, and a line is locked by a transaction that has
\* written it, for any races, results and faults.
THEOREM LeaderboardTypeCorrect == Spec => []TypeOK
<1>1. Inv => TypeOK
  BY DEF Inv
<1> QED
  BY <1>1, Invariance, PTL

\* A race is added to the board once, and once more only for each commit whose reply
\* was lost (room.go's finishRace keeps r.finished unset after an error).
THEOREM RacesCountOnce == Spec => []CountedOnce
<1>1. Inv => CountedOnce
  <2> SUFFICES ASSUME Inv PROVE CountedOnce
    OBVIOUS
  <2>1. commits \in [Races -> Nat] /\ lostReplies \in [Races -> Nat] /\ CommitsOK
    BY DEF Inv, TypeOK
  <2> QED
    BY <2>1 DEF CommitsOK, CountedOnce
<1> QED
  BY <1>1, Invariance, PTL

\* Whoever is listed with victories in the weekly window has at least as many in the
\* all-time one.
THEOREM WeeklyWinsAreCounted == Spec => []WeeklyWinsCounted
<1>1. Inv => WeeklyWinsCounted
  BY DEF Inv
<1> QED
  BY <1>1, Invariance, PTL

\* A race that GetRaceWithParticipants shows as finished is shown with everybody's rank,
\* although it reads the race and its participants separately.
THEOREM FinishedRacesShowRanks == Spec => []FinishedShownWithRanks
<1>1. Inv => FinishedShownWithRanks
  BY DEF Inv
<1> QED
  BY <1>1, Invariance, PTL

\* GetTop never announces a page that it then finds empty, in either window and for any
\* page size, although races end between the count and the page; only a race that leaves
\* the weekly window between the two can empty one, as now() moves on in between.
THEOREM ListedPagesAreFilled == Spec => []ListedPagesFilled
<1>1. Inv => ListedPagesFilled
  BY DEF Inv
<1> QED
  BY <1>1, Invariance, PTL

\* The consumer's ReconcileParticipantResults never changes a rank.
THEOREM ReconcileIsNoop == Spec => ReconcileChangesNothing
<1>1. Inv /\ [Next]_vars =>
          [\A r \in Races : ReconcileParticipantResults(r) => UNCHANGED finishRank]_vars
  BY ReconcileNoop DEF Inv
<1> QED
  BY <1>1, Invariance, PTL DEF Spec, ReconcileChangesNothing

\* However FinishRace transactions interleave, fail, deadlock and lose their replies,
\* the all-time board moves only by whole races, each added on top of what is there: it
\* implements Scoreboard.
THEOREM BoardIsScoreboard == Spec => ImplementsScoreboard
<1>1. Init => Board!Init
  BY DEF Init, Board!Init, EmptyLine, Board!EmptyLine, NoTime, Board!NoTime
<1>2. Inv /\ [Next]_vars => [Board!Next]_<<board, commits>>
  <2> SUFFICES ASSUME Inv, [Next]_vars PROVE Board!Next \/ UNCHANGED <<board, commits>>
    OBVIOUS
  <2>1. ASSUME NEW r \in Races, MayCommit(r), CommitWrites(r) PROVE Board!AddRace(r)
    <3>1. /\ board' \in [Users -> LineType]
          /\ \A u \in Users : Adds(board'[u], board[u], {res \in Results[r] : res.user = u})
      BY <2>1, CommitAdds DEF Inv
    <3>2. \A u \in Users : board[u] \in LineType
      BY LineIsLine, <2>1 DEF Inv
    <3>3. \A u \in Users : board'[u] = Board!Raised(board[u], r, u)
      BY <3>1, <3>2, AddsRaised
    <3>4. board' = [u \in Users |-> Board!Raised(board[u], r, u)]
      BY <3>1, <3>3
    <3>5. commits' = [commits EXCEPT ![r] = @ + 1]
      BY <2>1 DEF CommitWrites
    <3> QED
      BY <3>4, <3>5 DEF Board!AddRace
  <2> QED
    BY <2>1, DataChange DEF Inv, Board!Next
<1> QED
  BY <1>1, <1>2, Invariance, PTL DEF Spec, ImplementsScoreboard, Board!Spec

==============================================================================
