--------------------------- MODULE ArchiveProofs ---------------------------
(***************************************************************************)
(* For every set of games and moves, every length, page limit and engine    *)
(* that judges positions by the moves that led to them: reviews are those   *)
(* of one line, the list of recent games is in order, and paging loses only *)
(* neighbours of the last game of a page. PagingInv follows a page from the *)
(* request to the list while games go on being created and finished.        *)
(***************************************************************************)
EXTENDS Archive, SequenceTheorems, FiniteSetTheorems, TLAPS

\* Moves are lines, whether they are the game's or the copy in the review.
ReviewInv ==
  /\ line \in [Game -> Line]
  /\ review # None =>
       /\ review = [game |-> review.game, line |-> review.line,
                    marks |-> review.marks, loaded |-> review.loaded]
       /\ review.line \in Line
       /\ review.marks \in Seq({None} \cup Int)
       /\ Len(review.marks) <= Len(review.line)
  /\ ReviewIsFaithful

LEMMA LineFacts ==
  ASSUME NEW l \in Line
  PROVE  l \in Seq(Move) /\ Len(l) \in 0..MaxPly
<1>1. PICK n \in 0..MaxPly : l \in [1..n -> Move]
  BY DEF Line
<1> QED
  BY <1>1, SeqDef, WorthAssumption

LEMMA SeqIsLine ==
  ASSUME NEW l \in Seq(Move), Len(l) <= MaxPly
  PROVE  l \in Line
<1>1. Len(l) \in 0..MaxPly /\ l \in [1..Len(l) -> Move]
  BY LenProperties, WorthAssumption
<1> QED
  BY <1>1 DEF Line

LEMMA PrefixIsLine ==
  ASSUME NEW l \in Line, NEW n \in 0..Len(l)
  PROVE  SubSeq(l, 1, n) \in Line /\ Len(SubSeq(l, 1, n)) = n
<1>1. l \in Seq(Move) /\ Len(l) \in 0..MaxPly
  BY LineFacts
<1>2. \A i \in 1..n : l[i] \in Move
  BY <1>1, ElementOfSeq
<1>3. 1 \in Int /\ n \in Int /\ (IF 1 <= n THEN n - 1 + 1 ELSE 0) = n
  BY <1>1
<1>4. SubSeq(l, 1, n) \in Seq(Move)
  BY <1>2, <1>3, SubSeqProperties
<1>5. Len(SubSeq(l, 1, n)) = n
  BY <1>2, <1>3, SubSeqProperties
<1>6. Len(SubSeq(l, 1, n)) <= MaxPly
  BY <1>1, <1>5, WorthAssumption
<1> QED
  BY <1>4, <1>5, <1>6, SeqIsLine

\* The sign is changed twice or not at all.
LEMMA ScoreIsWorth ==
  ASSUME NEW l \in Line
  PROVE  FromEngine(EngineScore(l), l) = Worth[l] /\ Worth[l] \in Int
<1>1. Worth[l] \in Int
  BY WorthAssumption
<1> QED
  BY <1>1 DEF FromEngine, EngineScore

LEMMA InitReview == Init => ReviewInv
<1> SUFFICES ASSUME Init PROVE ReviewInv
  OBVIOUS
<1>1. <<>> \in Line
  <2>1. <<>> \in Seq(Move) /\ Len(<<>>) <= MaxPly
    BY EmptySeq, WorthAssumption
  <2> QED
    BY <2>1, SeqIsLine
<1> QED
  BY <1>1 DEF Init, ReviewInv, ReviewIsFaithful

LEMMA NewMark ==
  ASSUME ReviewInv, AnalysePly
  PROVE  ReviewInv'
<1> DEFINE n == Len(review.marks)
           played == SubSeq(review.line, 1, n + 1)
           mark == FromEngine(EngineScore(played), played)
<1>1. /\ review # None /\ ~review.loaded /\ line' = line
      /\ n < Len(review.line) /\ review.line \in Line
      /\ review.marks \in Seq({None} \cup Int) /\ n \in Nat
      /\ review' = [review EXCEPT !.marks = Append(@, mark)]
      /\ review = [game |-> review.game, line |-> review.line,
                   marks |-> review.marks, loaded |-> review.loaded]
      /\ \A i \in 1..n : review.marks[i] \in {None, Worth[SubSeq(review.line, 1, i)]}
  BY LenProperties DEF AnalysePly, ReviewInv, ReviewIsFaithful, backendVars
<1>2. n + 1 \in 0..Len(review.line) /\ Len(review.line) \in Nat
  BY <1>1, LineFacts
<1>3. mark = Worth[played] /\ mark \in Int
  BY <1>1, <1>2, PrefixIsLine, ScoreIsWorth
<1> HIDE DEF mark, played
<1>4. /\ review' = [game |-> review.game, line |-> review.line,
                    marks |-> Append(review.marks, mark), loaded |-> review.loaded]
  BY <1>1
<1>5. /\ Append(review.marks, mark) \in Seq({None} \cup Int)
      /\ Len(Append(review.marks, mark)) = n + 1
      /\ \A i \in 1..n : Append(review.marks, mark)[i] = review.marks[i]
      /\ Append(review.marks, mark)[n + 1] = mark
  BY <1>1, <1>3, AppendProperties
<1>6. \A i \in 1..(n + 1) :
        Append(review.marks, mark)[i] \in {None, Worth[SubSeq(review.line, 1, i)]}
  <2>1. \A i \in 1..(n + 1) : i \in 1..n \/ i = n + 1
    BY <1>1
  <2> QED
    BY <1>1, <1>3, <1>5, <2>1 DEF played
<1>7. ReviewIsFaithful'
  BY <1>1, <1>4, <1>5, <1>6 DEF ReviewIsFaithful
<1>8. /\ review'.game = review.game /\ review'.line = review.line
      /\ review'.marks = Append(review.marks, mark)
      /\ review'.loaded = review.loaded
  BY <1>4
<1>9. n + 1 <= Len(review.line)
  BY <1>1, <1>2
<1>10. line \in [Game -> Line]
  BY DEF ReviewInv
<1> HIDE DEF n
<1> QED
  BY <1>1, <1>4, <1>5, <1>7, <1>8, <1>9, <1>10 DEF ReviewInv

LEMMA LoadedReview ==
  ASSUME ReviewInv, NEW g \in Game, LoadReview(g)
  PROVE  ReviewInv'
<1> DEFINE n == Len(line[g])
<1>1. line[g] \in Line /\ line' = line /\ n \in Nat
  BY LineFacts DEF ReviewInv, LoadReview, backendVars
<1>2. PICK analysed \in SUBSET (1..n) :
        review' = [game |-> g, line |-> line[g], loaded |-> TRUE,
                   marks |-> [i \in 1..n |->
                                IF i \in analysed THEN Worth[SubSeq(line[g], 1, i)]
                                                 ELSE None]]
  BY DEF LoadReview
<1> DEFINE marks == [i \in 1..n |->
                       IF i \in analysed THEN Worth[SubSeq(line[g], 1, i)] ELSE None]
<1>3. \A i \in 1..n : Worth[SubSeq(line[g], 1, i)] \in Int
  <2>1. \A i \in 1..n : i \in 0..Len(line[g])
    BY <1>1
  <2> QED
    BY <1>1, <2>1, PrefixIsLine, WorthAssumption
<1>4. marks \in [1..n -> {None} \cup Int]
  BY <1>3
<1>5. marks \in Seq({None} \cup Int) /\ Len(marks) = n
  BY <1>1, <1>4, SeqDef
<1>6. \A i \in 1..n : marks[i] \in {None, Worth[SubSeq(line[g], 1, i)]}
  OBVIOUS
<1>7. review' = [game |-> g, line |-> line[g], loaded |-> TRUE, marks |-> marks]
  BY <1>2
<1> HIDE DEF marks
<1>8. ReviewIsFaithful'
  BY <1>5, <1>6, <1>7 DEF ReviewIsFaithful
<1> QED
  BY <1>1, <1>5, <1>7, <1>8 DEF ReviewInv

LEMMA StepReview ==
  ASSUME ReviewInv, [Next]_vars
  PROVE  ReviewInv'
<1>1. CASE line' \in [Game -> Line] /\ UNCHANGED review
  BY <1>1 DEF ReviewInv, ReviewIsFaithful
<1>2. CASE UNCHANGED <<line, review>>
  BY <1>1, <1>2 DEF ReviewInv
<1>3. ASSUME NEW g \in Game, NEW m \in Move, PlayMove(g, m)
      PROVE  ReviewInv'
  <2>1. line[g] \in Seq(Move) /\ line \in [Game -> Line]
    BY LineFacts DEF ReviewInv
  <2>2. Append(line[g], m) \in Seq(Move) /\ Len(Append(line[g], m)) <= MaxPly
    BY <1>3, <2>1, AppendProperties, WorthAssumption DEF PlayMove
  <2>3. Append(line[g], m) \in Line
    BY <2>2, SeqIsLine
  <2>4. line' \in [Game -> Line] /\ UNCHANGED review
    BY <1>3, <2>1, <2>3 DEF PlayMove
  <2> QED
    BY <1>1, <2>4
<1>4. ASSUME NEW g \in Game, TakeBack(g)
      PROVE  ReviewInv'
  <2>1. line[g] \in Line /\ line \in [Game -> Line] /\ line[g] # <<>>
    BY <1>4 DEF ReviewInv, TakeBack
  <2>2. Len(line[g]) - 1 \in 0..Len(line[g])
    BY <2>1, LineFacts, EmptySeq
  <2>3. Front(line[g]) \in Line
    BY <2>1, <2>2, PrefixIsLine DEF Front
  <2>4. line' \in [Game -> Line] /\ UNCHANGED review
    BY <1>4, <2>1, <2>3 DEF TakeBack, storeVars
  <2> QED
    BY <1>1, <2>4
<1>5. ASSUME NEW g \in Game, StartReview(g)
      PROVE  ReviewInv'
  <2>1. /\ review' = [game |-> g, line |-> line[g], marks |-> <<>>, loaded |-> FALSE]
        /\ line' = line /\ line[g] \in Line
    BY <1>5 DEF StartReview, backendVars, ReviewInv
  <2>2. /\ <<>> \in Seq({None} \cup Int) /\ Len(<<>>) = 0 /\ Len(line[g]) \in Nat
    BY <2>1, LineFacts, EmptySeq
  <2> QED
    BY <2>1, <2>2 DEF ReviewInv, ReviewIsFaithful
<1>6. CASE FinishReview
  <2>1. /\ review # None /\ line' = line /\ Len(review.marks) = Len(review.line)
        /\ review' = [review EXCEPT !.loaded = TRUE]
        /\ review = [game |-> review.game, line |-> review.line,
                     marks |-> review.marks, loaded |-> review.loaded]
    BY <1>6 DEF FinishReview, backendVars, ReviewInv
  <2>2. review' = [game |-> review.game, line |-> review.line,
                   marks |-> review.marks, loaded |-> TRUE]
    BY <2>1
  <2> QED
    BY <2>1, <2>2 DEF ReviewInv, ReviewIsFaithful
<1>7. CASE DropReview
  BY <1>7 DEF DropReview, backendVars, ReviewInv, ReviewIsFaithful
<1>8. CASE \/ Tick \/ (\E g \in Game : Create(g) \/ Finish(g))
           \/ RefreshGameHistory \/ LoadMoreGameHistory \/ Answer \/ Receive
  BY <1>2, <1>8 DEF Tick, Create, Finish, RefreshGameHistory, LoadMoreGameHistory, Ask,
                    Answer, Receive, backendVars
<1>9. CASE UNCHANGED vars
  BY <1>2, <1>9 DEF vars, backendVars
<1>10. \A g \in Reviewed : g \in Game
  BY ReviewedAssumption
<1> QED
  BY <1>3, <1>4, <1>5, <1>6, <1>7, <1>8, <1>9, <1>10, NewMark, LoadedReview DEF Next

\* A review speaks of the line it was made of and gives each position its worth
\* to White, whatever is played or taken back in the meantime.
THEOREM ReviewsAreFaithful == Spec => []ReviewIsFaithful
<1>1. ReviewInv => ReviewIsFaithful
  BY DEF ReviewInv
<1> QED
  BY InitReview, StepReview, <1>1, PTL DEF Spec

-----------------------------------------------------------------------------
(***************************************************************************)
(* The pages of the history: the list and the page on its way to it are     *)
(* both newest first, and the page is wholly behind the cursor, which is    *)
(* behind the list.                                                        *)
(***************************************************************************)

\* The store asks for what is behind its list.
RequestIsCursor ==
  request # None /\ request.before # None
    => cursor # None /\ request.before = cursor

\* The cursor is behind every game of the list, so the next page is too.
CursorIsBehind ==
  cursor # None => \A g \in ToSet(recent) : cursor < created[g]

\* What the properties remember are games that are over.
SinceIsOver == since \subseteq over /\ ends \subseteq over

\* Newest first, and no game twice.
NewestFirst(games) ==
  \A i, j \in 1..Len(games) : i < j =>
    /\ games[i] # games[j]
    /\ created[games[i]] >= created[games[j]]

\* A page of the games `seen` before a cursor, and the next cursor.
PageIsNext(page, before, seen) ==
  /\ \A i \in 1..Len(page.games) :
       page.games[i] \in seen /\ Before(page.games[i], before)
  /\ NewestFirst(page.games)
  /\ page.next # None =>
       /\ Len(page.games) # 0
       /\ page.next = created[page.games[Len(page.games)]] - 1
  /\ \A h \in seen : Before(h, before) =>
       \/ \E i \in 1..Len(page.games) : page.games[i] = h
       \/ /\ page.next # None
          /\ \/ Before(h, page.next)
             \/ Beside(h, page.games[Len(page.games)])

\* A page on its way is the one that was asked for, of the games over then.
ReplyIsNext ==
  reply # None =>
    /\ request # None
    /\ reply.over \subseteq over
    /\ request.before # None => since \subseteq reply.over
    /\ reply.page # None => PageIsNext(reply.page, request.before, reply.over)

ReviewIsOfGame ==
  review # None => review.game \in Reviewed /\ review.loaded \in BOOLEAN

PagingInv ==
  /\ TypeOK /\ ReviewInv /\ ReviewIsOfGame /\ IsFiniteSet(over)
  /\ RequestIsCursor /\ CursorIsBehind /\ SinceIsOver /\ ReplyIsNext
  /\ RecentIsOrdered /\ SkipsOnlyNeighbours

\* Games that are over stay what they are.
HistoryGrows ==
  /\ provider' = provider
  /\ over \subseteq over'
  /\ \A h \in over : created'[h] = created[h]

\* A sequence of the backend has each finished game before the cursor once.
LEMMA NewestFacts ==
  ASSUME TypeOK, IsFiniteSet(over), NEW before, NEW s \in Newest(before)
  PROVE  /\ s \in Seq(Game)
         /\ NewestFirst(s)
         /\ \A i \in 1..Len(s) : s[i] \in over /\ Before(s[i], before)
         /\ \A h \in over : Before(h, before) => \E i \in 1..Len(s) : s[i] = h
<1> DEFINE games == {g \in over : Before(g, before)}
           n == Cardinality(games)
<1>1. IsFiniteSet(games) /\ n \in Nat
  <2>1. games \in SUBSET over
    OBVIOUS
  <2>2. IsFiniteSet(games)
    BY <2>1, FS_Subset
  <2> HIDE DEF games
  <2> QED
    BY <2>2, FS_CardinalityType
<1>2. /\ s \in [1..n -> games]
      /\ \A i, j \in 1..n : i # j => s[i] # s[j]
      /\ \A i, j \in 1..Len(s) : i < j => created[s[i]] >= created[s[j]]
  BY DEF Newest, SetToSeqs
<1>3. \A g \in games : g \in over /\ g \in Game /\ Before(g, before)
  BY DEF TypeOK
<1>4. \A h \in over : Before(h, before) => h \in games
  OBVIOUS
<1> HIDE DEF games, n
<1>5. s \in Seq(games) /\ Len(s) = n
  BY <1>1, <1>2, SeqDef
<1>6. games \subseteq Game
  BY <1>3
<1>7. s \in Seq(Game)
  BY <1>5, <1>6, SeqMonotonic
<1>8. \A i \in 1..n : s[i] \in games
  BY <1>2
<1>9. \A h \in games : \E i \in 1..n : s[i] = h
  <2>1. s \in Injection(1..n, games)
    BY <1>2 DEF Injection, IsInjective
  <2>2. IsFiniteSet(1..n) /\ Cardinality(1..n) = n
    BY <1>1, FS_Interval
  <2>3. s \in Surjection(1..n, games)
    BY <1>1, <2>1, <2>2, FS_Injection DEF n
  <2> QED
    BY <2>3 DEF Surjection
<1>10. NewestFirst(s)
  BY <1>1, <1>2, <1>5 DEF NewestFirst
<1> QED
  BY <1>3, <1>4, <1>5, <1>7, <1>8, <1>9, <1>10

LEMMA TakeFacts ==
  ASSUME NEW s \in Seq(Game), NEW n \in Nat
  PROVE  /\ Take(s, n) \in Seq(Game)
         /\ Len(Take(s, n)) = IF Len(s) < n THEN Len(s) ELSE n
         /\ \A i \in 1..Len(Take(s, n)) : i \in 1..Len(s) /\ Take(s, n)[i] = s[i]
<1> DEFINE m == IF Len(s) < n THEN Len(s) ELSE n
<1>1. m \in 0..Len(s) /\ Len(s) \in Nat
  BY LenProperties
<1>2. \A i \in 1..m : i \in 1..Len(s) /\ s[i] \in Game
  BY <1>1, ElementOfSeq
<1>3. Take(s, n) = SubSeq(s, 1, m)
  BY DEF Take
<1> HIDE DEF m
<1>4. /\ SubSeq(s, 1, m) \in Seq(Game)
      /\ Len(SubSeq(s, 1, m)) = IF 1 <= m THEN m - 1 + 1 ELSE 0
      /\ \A i \in 1..m - 1 + 1 : SubSeq(s, 1, m)[i] = s[1 + i - 1]
  BY <1>1, <1>2, SubSeqProperties
<1>5. Len(SubSeq(s, 1, m)) = m
  BY <1>1, <1>4
<1>6. \A i \in 1..m : SubSeq(s, 1, m)[i] = s[i]
  <2>1. \A i \in 1..m : i \in 1..m - 1 + 1 /\ 1 + i - 1 = i
    BY <1>1
  <2> QED
    BY <1>4, <2>1
<1> QED
  BY <1>2, <1>3, <1>4, <1>5, <1>6 DEF m

\* What the backend answers is a page of the games that are over.
LEMMA PageFacts ==
  ASSUME TypeOK, IsFiniteSet(over),
         NEW before \in {None} \cup 0..MaxTime, NEW s \in Newest(before)
  PROVE  /\ PageOf(s) \in Page /\ Len(PageOf(s).games) <= PageLimit
         /\ PageIsNext(PageOf(s), before, over)
<1> DEFINE games == Take(s, PageLimit)
           next == NextCursor(s)
           m == Len(games)
<1>1. /\ s \in Seq(Game) /\ Len(s) \in Nat /\ NewestFirst(s)
      /\ \A i \in 1..Len(s) : s[i] \in over /\ Before(s[i], before)
      /\ \A h \in over : Before(h, before) => \E i \in 1..Len(s) : s[i] = h
  BY NewestFacts, LenProperties
<1>2. /\ games \in Seq(Game) /\ m = (IF Len(s) < PageLimit THEN Len(s) ELSE PageLimit)
      /\ \A i \in 1..m : i \in 1..Len(s) /\ games[i] = s[i]
  BY <1>1, TakeFacts, LimitAssumption
<1>3. PageOf(s) = [games |-> games, next |-> next]
  BY DEF PageOf
<1>4. next = IF Len(s) > PageLimit THEN created[s[PageLimit]] - 1 ELSE None
  BY DEF NextCursor
<1>5. /\ PageOf(s).games = games /\ PageOf(s).next = next
  BY <1>3
<1>6. \A h \in over : created[h] \in 1..MaxTime
  BY TimeAssumption DEF TypeOK
<1>7. m \in Nat /\ m <= PageLimit
  BY <1>1, <1>2, LimitAssumption
<1> HIDE DEF games, next
<1>8. CASE Len(s) > PageLimit
  <2>1. m = PageLimit /\ m \in 1..Len(s) /\ games[m] = s[m] /\ s[m] \in over
    BY <1>1, <1>2, <1>8, LimitAssumption
  <2>2. next = created[games[m]] - 1 /\ next \in 0..MaxTime
    BY <1>4, <1>6, <1>8, <2>1, TimeAssumption
  <2>3. ASSUME NEW h \in over, Before(h, before)
        PROVE  \/ \E i \in 1..m : games[i] = h
               \/ next # None /\ (Before(h, next) \/ Beside(h, games[m]))
    <3>1. PICK i \in 1..Len(s) : s[i] = h
      BY <1>1, <2>3
    <3>2. CASE i <= m
      <4>1. i \in 1..m
        BY <1>1, <1>7, <3>2
      <4> QED
        BY <1>2, <3>1, <4>1
    <3>3. CASE i > m
      <4>1. created[games[m]] >= created[h]
        BY <1>1, <2>1, <3>1, <3>3 DEF NewestFirst
      <4>2. created[h] \in Int /\ created[games[m]] \in Int
        BY <1>6, <2>1
      <4>3. created[h] = created[games[m]] \/ created[h] = created[games[m]] - 1
              \/ created[h] < created[games[m]] - 1
        BY <4>1, <4>2
      <4>4. provider \in {"lichess", "stockfish"}
        BY DEF TypeOK
      <4>5. next # None
        BY <2>2, NoneAssumption
      <4> QED
        BY <2>2, <4>2, <4>3, <4>4, <4>5 DEF Before, Beside
    <3> QED
      BY <1>1, <1>7, <3>2, <3>3
  <2> QED
    <3>1. PageOf(s) \in Page
      BY <1>2, <1>3, <2>2 DEF Page
    <3>2. NewestFirst(games)
      BY <1>1, <1>2 DEF NewestFirst
    <3>3. \A i \in 1..m : games[i] \in over /\ Before(games[i], before)
      BY <1>1, <1>2
    <3>4. m # 0
      BY <2>1, LimitAssumption
    <3> QED
      BY <1>5, <1>7, <2>2, <2>3, <3>1, <3>2, <3>3, <3>4 DEF PageIsNext
<1>9. CASE ~(Len(s) > PageLimit)
  <2>1. m = Len(s) /\ next = None
    BY <1>1, <1>2, <1>4, <1>9, LimitAssumption
  <2>2. PageOf(s) \in Page
    BY <1>2, <1>3, <2>1 DEF Page
  <2>3. NewestFirst(games)
    BY <1>1, <1>2 DEF NewestFirst
  <2>4. \A i \in 1..m : games[i] \in over /\ Before(games[i], before)
    BY <1>1, <1>2
  <2>5. \A h \in over : Before(h, before) => \E i \in 1..m : games[i] = h
    BY <1>1, <1>2, <2>1
  <2> QED
    BY <1>5, <1>7, <2>1, <2>2, <2>3, <2>4, <2>5 DEF PageIsNext
<1> QED
  BY <1>8, <1>9

\* The game of a page that is named by an index, and the last one.
LEMMA PageGames ==
  ASSUME NEW page \in Page, NEW before, NEW seen \in SUBSET Game,
         PageIsNext(page, before, seen)
  PROVE  /\ page.games \in Seq(Game) /\ Len(page.games) \in Nat
         /\ ToSet(page.games) = {page.games[i] : i \in 1..Len(page.games)}
         /\ ToSet(page.games) \subseteq seen
         /\ page.next \in {None} \cup 0..MaxTime
         /\ page.next # None => /\ Len(page.games) \in 1..Len(page.games)
                                /\ page.games # <<>>
                                /\ Last(page.games) = page.games[Len(page.games)]
         /\ LastOf(page) \subseteq seen
<1>1. /\ page.games \in Seq(Game) /\ Len(page.games) \in Nat
      /\ DOMAIN page.games = 1..Len(page.games)
      /\ page.next \in {None} \cup 0..MaxTime
  BY LenProperties DEF Page
<1>2. ToSet(page.games) = {page.games[i] : i \in 1..Len(page.games)}
  BY <1>1 DEF ToSet
<1>3. \A i \in 1..Len(page.games) : page.games[i] \in seen
  BY DEF PageIsNext
<1>4. page.next # None => Len(page.games) # 0
  BY DEF PageIsNext
<1>5. page.games # <<>> => Len(page.games) \in 1..Len(page.games)
  BY <1>1, EmptySeq
<1>6. Len(page.games) # 0 => page.games # <<>>
  BY EmptySeq
<1>7. LastOf(page) \subseteq seen
  BY <1>3, <1>5 DEF LastOf, Last
<1> QED
  BY <1>1, <1>2, <1>3, <1>4, <1>5, <1>6, <1>7 DEF Last

LEMMA ListGames ==
  ASSUME TypeOK
  PROVE  ToSet(recent) = {recent[i] : i \in 1..Len(recent)} /\ Len(recent) \in Nat
BY LenProperties DEF ToSet, TypeOK

\* A page stays one of the games it was made of.
LEMMA PageStays ==
  ASSUME TypeOK, HistoryGrows, NEW page \in Page, NEW before, NEW seen \in SUBSET over,
         PageIsNext(page, before, seen)
  PROVE  PageIsNext(page, before, seen)'
<1> DEFINE n == Len(page.games)
<1>1. \A i \in 1..n : page.games[i] \in seen /\ page.games[i] \in over
  BY DEF PageIsNext
<1>2. n # 0 => n \in 1..n
  BY LenProperties DEF Page
<1>3. \A h \in seen : created'[h] = created[h]
  BY DEF HistoryGrows
<1>4. \A b : \A h \in seen : Before(h, b)' <=> Before(h, b)
  BY <1>3 DEF Before, HistoryGrows
<1>5. \A h, g \in seen : Beside(h, g)' <=> Beside(h, g)
  BY <1>3 DEF Beside, HistoryGrows
<1>6. /\ \A i \in 1..n : page.games[i] \in seen /\ Before(page.games[i], before)'
  BY <1>1, <1>4 DEF PageIsNext
<1>7. NewestFirst(page.games)'
  BY <1>1, <1>3 DEF PageIsNext, NewestFirst
<1>8. page.next # None =>
        n # 0 /\ page.next = created'[page.games[n]] - 1
  BY <1>1, <1>2, <1>3 DEF PageIsNext
<1>9. \A h \in seen : Before(h, before)' =>
        \/ \E i \in 1..n : page.games[i] = h
        \/ /\ page.next # None
           /\ \/ Before(h, page.next)'
              \/ Beside(h, page.games[n])'
  BY <1>1, <1>2, <1>4, <1>5, <1>8 DEF PageIsNext
<1> QED
  BY <1>6, <1>7, <1>8, <1>9 DEF PageIsNext

\* What the backend does does not disturb the list.
LEMMA ListStays ==
  ASSUME PagingInv, HistoryGrows, UNCHANGED <<recent, cursor, ends, since>>
  PROVE  CursorIsBehind' /\ SinceIsOver' /\ RecentIsOrdered' /\ SkipsOnlyNeighbours'
<1>1. TypeOK /\ CursorIsBehind /\ SinceIsOver /\ RecentIsOrdered /\ SkipsOnlyNeighbours
  BY DEF PagingInv
<1>2. /\ \A i \in 1..Len(recent) : recent[i] \in over
      /\ ToSet(recent) \subseteq over
  BY <1>1, ListGames DEF RecentIsOrdered
<1>3. /\ \A h \in over : created'[h] = created[h]
      /\ over \subseteq over' /\ provider' = provider
  BY DEF HistoryGrows
<1>4. CursorIsBehind'
  BY <1>1, <1>2, <1>3 DEF CursorIsBehind
<1>5. SinceIsOver'
  BY <1>1, <1>3 DEF SinceIsOver
<1>6. RecentIsOrdered'
  BY <1>1, <1>2, <1>3 DEF RecentIsOrdered
<1>7. SkipsOnlyNeighbours'
  <2>1. \A h \in since : h \in over
    BY <1>1 DEF SinceIsOver
  <2>2. \A g \in ends : g \in over
    BY <1>1 DEF SinceIsOver
  <2>3. \A h \in since : Before(h, cursor) => Before(h, cursor)'
    BY <1>3, <2>1 DEF Before
  <2>4. \A h \in since, g \in ends : Beside(h, g) => Beside(h, g)'
    BY <1>3, <2>1, <2>2 DEF Beside
  <2> QED
    BY <1>1, <2>3, <2>4 DEF SkipsOnlyNeighbours
<1> QED
  BY <1>4, <1>5, <1>6, <1>7

LEMMA QuietStore ==
  ASSUME PagingInv, HistoryGrows, UNCHANGED storeVars
  PROVE  /\ RequestIsCursor' /\ CursorIsBehind' /\ SinceIsOver' /\ ReplyIsNext'
         /\ RecentIsOrdered' /\ SkipsOnlyNeighbours'
<1>1. UNCHANGED <<recent, cursor, ends, since>> /\ UNCHANGED <<request, reply>>
  BY DEF storeVars
<1>2. RequestIsCursor'
  BY <1>1 DEF PagingInv, RequestIsCursor
<1>3. ReplyIsNext'
  <2> SUFFICES ASSUME reply # None PROVE ReplyIsNext'
    BY <1>1 DEF ReplyIsNext
  <2>1. /\ request # None /\ reply.over \subseteq over
        /\ request.before # None => since \subseteq reply.over
        /\ reply.page # None => PageIsNext(reply.page, request.before, reply.over)
    BY DEF PagingInv, ReplyIsNext
  <2>2. reply.page \in Page \cup {None}
    BY DEF PagingInv, TypeOK
  <2>3. TypeOK
    BY DEF PagingInv
  <2> DEFINE page == reply.page
             before == request.before
             seen == reply.over
  <2>4. reply.page # None => PageIsNext(page, before, seen)'
    <3> SUFFICES ASSUME reply.page # None PROVE PageIsNext(page, before, seen)'
      OBVIOUS
    <3>1. page \in Page /\ seen \in SUBSET over /\ PageIsNext(page, before, seen)
      BY <2>1, <2>2
    <3>2. PICK p, b, o : p = page /\ b = before /\ o = seen
      OBVIOUS
    <3>3. PageIsNext(p, b, o)'
      BY <2>3, <3>1, <3>2, PageStays
    <3> QED
      BY <1>1, <3>2, <3>3 DEF PageIsNext
  <2> QED
    BY <1>1, <2>1, <2>4 DEF ReplyIsNext, HistoryGrows
<1> QED
  BY <1>1, <1>2, <1>3, ListStays

\* A page of which no game is in the list is appended as it is.
LEMMA MergeIsAppend ==
  ASSUME NEW known, NEW games \in Seq(Game),
         \A i \in 1..Len(games) : games[i] \notin ToSet(known)
  PROVE  Merge(known, games) = known \o games
<1> DEFINE n == Len(games)
           new == {i \in 1..n : games[i] \notin ToSet(known)}
           place == [i \in new |-> Cardinality({j \in new : j <= i})]
<1>1. n \in Nat /\ games \in [1..n -> Game]
  BY LenProperties
<1>2. new = 1..n
  OBVIOUS
<1>3. Cardinality(1..n) = n
  BY <1>1, FS_Interval
<1>4. \A i \in 1..n : place[i] = i
  <2> SUFFICES ASSUME NEW i \in 1..n PROVE place[i] = i
    OBVIOUS
  <2>1. {j \in new : j <= i} = 1..i
    BY <1>1, <1>2
  <2>2. i \in Int /\ Cardinality(1..i) = i
    BY <1>1, FS_Interval
  <2>3. place[i] = Cardinality({j \in new : j <= i})
    BY <1>2
  <2> QED
    BY <2>1, <2>2, <2>3
<1>5. Unlisted(known, games)
        = [k \in 1..Cardinality(new) |-> games[CHOOSE i \in new : place[i] = k]]
  BY DEF Unlisted
<1> HIDE DEF new, place
<1>6. \A k \in 1..n : (CHOOSE i \in new : place[i] = k) = k
  BY <1>2, <1>4
<1>7. [k \in 1..n |-> games[CHOOSE i \in new : place[i] = k]] = games
  BY <1>1, <1>6
<1>8. Unlisted(known, games) = games
  BY <1>2, <1>3, <1>5, <1>7
<1> QED
  BY <1>8 DEF Merge

\* A first page replaces the list.
LEMMA FirstPage ==
  ASSUME PagingInv, Receive, reply.page # None, request.before = None
  PROVE  CursorIsBehind' /\ SinceIsOver' /\ RecentIsOrdered' /\ SkipsOnlyNeighbours'
<1> DEFINE page == reply.page
           n == Len(page.games)
<1>1. /\ reply # None /\ cursor' = page.next /\ recent' = page.games
      /\ ends' = LastOf(page) /\ since' = reply.over
      /\ UNCHANGED <<provider, created, over>>
  BY DEF Receive, backendVars
<1>2. /\ reply.over \subseteq over /\ PageIsNext(page, None, reply.over)
  BY <1>1 DEF PagingInv, ReplyIsNext
<1>3. page \in Page /\ over \subseteq Game
  BY <1>1 DEF PagingInv, TypeOK
<1>4. /\ page.games \in Seq(Game) /\ n \in Nat
      /\ ToSet(page.games) = {page.games[i] : i \in 1..n}
      /\ ToSet(page.games) \subseteq reply.over
      /\ page.next \in {None} \cup 0..MaxTime
      /\ page.next # None =>
           n \in 1..n /\ page.games # <<>> /\ Last(page.games) = page.games[n]
      /\ LastOf(page) \subseteq reply.over
  <2>1. reply.over \in SUBSET Game
    BY <1>2, <1>3
  <2> QED
    BY <1>2, <1>3, <2>1, PageGames
<1>5. \A h \in over : created[h] \in 0..MaxTime
  BY <1>3 DEF PagingInv, TypeOK
<1>6. CursorIsBehind'
  <2> SUFFICES ASSUME page.next # None, NEW g \in ToSet(page.games)
               PROVE  page.next < created[g]
    BY <1>1 DEF CursorIsBehind
  <2>1. PICK i \in 1..n : g = page.games[i]
    BY <1>4
  <2>2. page.next = created[page.games[n]] - 1 /\ n \in 1..n
    BY <1>2, <1>4 DEF PageIsNext
  <2>3. /\ created[page.games[n]] \in 0..MaxTime /\ created[g] \in 0..MaxTime
    BY <1>2, <1>4, <1>5, <2>1, <2>2
  <2>4. i = n \/ created[g] >= created[page.games[n]]
    BY <1>2, <1>4, <2>1, <2>2 DEF PageIsNext, NewestFirst
  <2> QED
    BY <2>1, <2>2, <2>3, <2>4
<1>7. SinceIsOver'
  BY <1>1, <1>2, <1>4 DEF SinceIsOver
<1>8. RecentIsOrdered'
  BY <1>1, <1>2, <1>4 DEF RecentIsOrdered, PageIsNext, NewestFirst
<1>9. SkipsOnlyNeighbours'
  <2> SUFFICES ASSUME NEW h \in reply.over, h \notin ToSet(page.games)
               PROVE  \/ page.next # None /\ Before(h, page.next)
                      \/ \E g \in LastOf(page) : Beside(h, g)
    BY <1>1 DEF SkipsOnlyNeighbours, Before, Beside
  <2>1. Before(h, None)
    BY DEF Before
  <2>2. /\ page.next # None
        /\ Before(h, page.next) \/ Beside(h, page.games[n])
    BY <1>2, <1>4, <2>1 DEF PageIsNext
  <2>3. page.games[n] \in LastOf(page)
    BY <1>4, <2>2 DEF LastOf
  <2> QED
    BY <2>2, <2>3
<1> QED
  BY <1>6, <1>7, <1>8, <1>9

\* A later page goes on behind the list.
LEMMA LaterPage ==
  ASSUME PagingInv, Receive, reply.page # None, request.before # None
  PROVE  /\ recent' \in Seq(Game)
         /\ CursorIsBehind' /\ SinceIsOver' /\ RecentIsOrdered' /\ SkipsOnlyNeighbours'
<1> DEFINE page == reply.page
           n == Len(page.games)
           k == Len(recent)
<1>1. /\ reply # None /\ cursor' = page.next /\ recent' = Merge(recent, page.games)
      /\ ends' = ends \cup LastOf(page) /\ since' = since
      /\ UNCHANGED <<provider, created, over>>
  BY DEF Receive, backendVars
<1>2. /\ request # None /\ request.before = cursor /\ cursor # None
      /\ reply.over \subseteq over /\ since \subseteq reply.over
      /\ PageIsNext(page, cursor, reply.over)
  BY <1>1 DEF PagingInv, ReplyIsNext, RequestIsCursor
<1>3. /\ page \in Page /\ over \subseteq Game /\ recent \in Seq(Game)
      /\ cursor \in 0..MaxTime /\ TypeOK
  BY <1>1, <1>2 DEF PagingInv, TypeOK
<1>4. /\ page.games \in Seq(Game) /\ n \in Nat
      /\ ToSet(page.games) = {page.games[i] : i \in 1..n}
      /\ ToSet(page.games) \subseteq reply.over
      /\ page.next \in {None} \cup 0..MaxTime
      /\ page.next # None =>
           n \in 1..n /\ page.games # <<>> /\ Last(page.games) = page.games[n]
      /\ LastOf(page) \subseteq reply.over
  <2>1. reply.over \in SUBSET Game
    BY <1>2, <1>3
  <2> QED
    BY <1>2, <1>3, <2>1, PageGames
<1>5. \A h \in over : created[h] \in 0..MaxTime
  BY <1>3 DEF TypeOK
<1>6. k \in Nat /\ ToSet(recent) = {recent[i] : i \in 1..k} /\ ToSet(recent) \subseteq over
  BY <1>3, ListGames DEF PagingInv, RecentIsOrdered
<1>7. \A i \in 1..n : page.games[i] \in over /\ created[page.games[i]] <= cursor
  BY <1>2, <1>3, <1>5 DEF PageIsNext, Before
<1>8. \A i \in 1..k : recent[i] \in over /\ cursor < created[recent[i]]
  BY <1>2, <1>6 DEF PagingInv, CursorIsBehind
<1>9. \A i \in 1..n : page.games[i] \notin ToSet(recent)
  BY <1>3, <1>5, <1>6, <1>7, <1>8
<1>10. recent' = recent \o page.games
  <2>1. PICK games : games = page.games
    OBVIOUS
  <2>2. Merge(recent, games) = recent \o games
    BY <1>4, <1>9, <2>1, MergeIsAppend
  <2> QED
    BY <1>1, <2>1, <2>2
<1> HIDE DEF page
<1>11. /\ recent' \in Seq(Game) /\ Len(recent') = k + n
       /\ \A i \in 1..k : recent'[i] = recent[i]
       /\ \A i \in 1..n : recent'[k + i] = page.games[i]
  <2>1. /\ recent' \in Seq(Game) /\ Len(recent') = k + n
        /\ \A i \in 1..(k + n) : recent'[i] =
             IF i <= k THEN recent[i] ELSE page.games[i - k]
    BY <1>3, <1>4, <1>10, ConcatProperties
  <2>2. \A i \in 1..k : i \in 1..(k + n) /\ i <= k
    BY <1>4, <1>6
  <2>3. \A i \in 1..n : k + i \in 1..(k + n) /\ ~(k + i <= k) /\ (k + i) - k = i
    BY <1>4, <1>6
  <2> QED
    BY <2>1, <2>2, <2>3
<1>12. \A i \in 1..(k + n) : i \in 1..k \/ \E j \in 1..n : i = k + j
  <2>1. \A i \in 1..(k + n) : i \in 1..k \/ (i - k \in 1..n /\ i = k + (i - k))
    BY <1>4, <1>6
  <2> QED
    BY <2>1
<1>13. ToSet(recent') = ToSet(recent) \cup ToSet(page.games)
  <2>1. ToSet(recent') = {recent'[i] : i \in 1..(k + n)}
    BY <1>11, LenProperties DEF ToSet
  <2>2. \A i \in 1..k : i \in 1..(k + n)
    BY <1>4, <1>6
  <2>3. \A i \in 1..n : k + i \in 1..(k + n)
    BY <1>4, <1>6
  <2>4. ASSUME NEW g \in ToSet(recent') PROVE g \in ToSet(recent) \cup ToSet(page.games)
    <3>1. PICK i \in 1..(k + n) : g = recent'[i]
      BY <2>1, <2>4
    <3>2. CASE i \in 1..k
      BY <1>6, <1>11, <3>1, <3>2
    <3>3. ASSUME NEW j \in 1..n, i = k + j PROVE g \in ToSet(page.games)
      BY <1>4, <1>11, <3>1, <3>3
    <3> QED
      BY <1>12, <3>2, <3>3
  <2>5. ASSUME NEW g \in ToSet(recent) PROVE g \in ToSet(recent')
    BY <1>6, <1>11, <2>1, <2>2, <2>5
  <2>6. ASSUME NEW g \in ToSet(page.games) PROVE g \in ToSet(recent')
    <3>1. PICK i \in 1..n : g = page.games[i]
      BY <1>4, <2>6
    <3>2. recent'[k + i] = g /\ k + i \in 1..(k + n)
      BY <1>11, <2>3, <3>1
    <3> QED
      BY <2>1, <3>2
  <2> QED
    BY <2>4, <2>5, <2>6
<1>14. page.next # None => /\ page.next = created[page.games[n]] - 1
                           /\ n \in 1..n
                           /\ page.next < cursor
                           /\ \A i \in 1..n : page.next < created[page.games[i]]
  <2> SUFFICES ASSUME page.next # None
               PROVE  /\ page.next = created[page.games[n]] - 1
                      /\ n \in 1..n
                      /\ page.next < cursor
                      /\ \A i \in 1..n : page.next < created[page.games[i]]
    OBVIOUS
  <2>1. page.next = created[page.games[n]] - 1 /\ n \in 1..n
    BY <1>2, <1>4 DEF PageIsNext
  <2>2. \A i \in 1..n : created[page.games[i]] \in 0..MaxTime
    BY <1>5, <1>7
  <2>3. \A i \in 1..n : i = n \/ created[page.games[i]] >= created[page.games[n]]
    BY <1>2, <1>4, <2>1 DEF PageIsNext, NewestFirst
  <2>4. \A i \in 1..n : page.next < created[page.games[i]]
    BY <2>1, <2>2, <2>3
  <2>5. page.next < cursor
    BY <1>3, <1>7, <2>1, <2>2
  <2> QED
    BY <2>1, <2>4, <2>5
<1>15. CursorIsBehind'
  <2> SUFFICES ASSUME page.next # None, NEW g \in ToSet(recent')
               PROVE  page.next < created[g]
    BY <1>1 DEF CursorIsBehind, page
  <2>1. CASE g \in ToSet(recent)
    BY <1>3, <1>4, <1>5, <1>6, <1>8, <1>14, <2>1
  <2>2. CASE g \in ToSet(page.games)
    BY <1>4, <1>14, <2>2
  <2> QED
    BY <1>13, <2>1, <2>2
<1>16. SinceIsOver'
  BY <1>1, <1>2, <1>4 DEF SinceIsOver, PagingInv, page
<1>17. RecentIsOrdered'
  <2>1. ASSUME NEW i \in 1..(k + n), NEW j \in 1..(k + n), i < j
        PROVE  recent'[i] # recent'[j] /\ created[recent'[i]] >= created[recent'[j]]
    <3>1. CASE j \in 1..k
      <4>1. i \in 1..k
        BY <1>6, <2>1, <3>1
      <4>2. recent[i] # recent[j] /\ created[recent[i]] >= created[recent[j]]
        BY <2>1, <3>1, <4>1 DEF PagingInv, RecentIsOrdered
      <4> QED
        BY <1>11, <3>1, <4>1, <4>2
    <3>2. ASSUME NEW b \in 1..n, j = k + b
          PROVE  recent'[i] # recent'[j] /\ created[recent'[i]] >= created[recent'[j]]
      <4>1. CASE i \in 1..k
        <5>1. /\ recent'[i] = recent[i] /\ recent'[j] = page.games[b]
              /\ recent[i] \in over /\ page.games[b] \in over
              /\ cursor < created[recent[i]] /\ created[page.games[b]] <= cursor
          BY <1>7, <1>8, <1>11, <3>2, <4>1 DEF page
        <5>2. created[recent[i]] \in Int /\ created[page.games[b]] \in Int /\ cursor \in Int
          BY <1>3, <1>5, <5>1
        <5> QED
          BY <5>1, <5>2
      <4>2. ASSUME NEW a \in 1..n, i = k + a
            PROVE  recent'[i] # recent'[j] /\ created[recent'[i]] >= created[recent'[j]]
        <5>1. a < b
          BY <1>6, <2>1, <3>2, <4>2
        <5>2. /\ page.games[a] # page.games[b]
              /\ created[page.games[a]] >= created[page.games[b]]
          BY <1>2, <5>1 DEF PageIsNext, NewestFirst, page
        <5> QED
          BY <1>11, <3>2, <4>2, <5>2
      <4> QED
        BY <1>12, <4>1, <4>2
    <3> QED
      BY <1>12, <3>1, <3>2
  <2>2. ToSet(recent') \subseteq over
    BY <1>2, <1>4, <1>6, <1>13
  <2> QED
    BY <1>1, <1>11, <2>1, <2>2 DEF RecentIsOrdered
<1>18. SkipsOnlyNeighbours'
  <2> SUFFICES ASSUME NEW h \in since, h \notin ToSet(recent')
               PROVE  \/ page.next # None /\ Before(h, page.next)
                      \/ \E g \in ends \cup LastOf(page) : Beside(h, g)
    BY <1>1 DEF SkipsOnlyNeighbours, Before, Beside, page
  <2>1. h \notin ToSet(recent) /\ h \notin ToSet(page.games) /\ h \in reply.over
    BY <1>2, <1>13
  <2>2. Before(h, cursor) \/ \E g \in ends : Beside(h, g)
    BY <2>1 DEF PagingInv, SkipsOnlyNeighbours
  <2>3. CASE Before(h, cursor)
    <3>1. /\ page.next # None
          /\ Before(h, page.next) \/ Beside(h, page.games[n])
      BY <1>2, <1>4, <2>1, <2>3 DEF PageIsNext, page
    <3>2. page.games[n] \in LastOf(page)
      BY <1>4, <3>1 DEF LastOf
    <3> QED
      BY <3>1, <3>2
  <2> QED
    BY <2>2, <2>3
<1> QED
  BY <1>11, <1>15, <1>16, <1>17, <1>18

BackendTypes ==
  /\ provider \in {"lichess", "stockfish"}
  /\ now \in Time
  /\ created \in [Game -> 0..MaxTime]
  /\ over \subseteq {g \in Game : created[g] # 0}

StoreTypes ==
  /\ request \in {None} \cup [before : {None} \cup 0..MaxTime]
  /\ reply \in {None} \cup [page : Page \cup {None}, over : SUBSET Game]
  /\ reply # None =>
       /\ request # None
       /\ reply.page # None => Len(reply.page.games) <= PageLimit
  /\ recent \in Seq(Game)
  /\ cursor \in {None} \cup 0..MaxTime
  /\ ends \subseteq Game
  /\ since \subseteq Game

LEMMA TypeParts ==
  ASSUME BackendTypes', StoreTypes', ReviewInv', ReviewIsOfGame'
  PROVE  TypeOK'
<1>1. review' \in {None} \cup
        [game : Reviewed, line : Line, marks : Seq({None} \cup Int), loaded : BOOLEAN]
  BY DEF ReviewInv, ReviewIsOfGame
<1> QED
  BY <1>1 DEF BackendTypes, StoreTypes, ReviewInv, TypeOK

LEMMA InitPaging == Init => PagingInv
<1> SUFFICES ASSUME Init PROVE PagingInv
  OBVIOUS
<1>1. ReviewInv
  BY InitReview
<1>2. <<>> \in Seq(Game) /\ Len(<<>>) = 0 /\ ToSet(<<>>) = {}
  BY EmptySeq DEF ToSet
<1>3. TypeOK /\ ReviewIsOfGame
  BY <1>1, <1>2, TimeAssumption DEF Init, TypeOK, Time, ReviewInv, ReviewIsOfGame
<1>4. IsFiniteSet(over)
  BY FS_EmptySet DEF Init
<1>5. RequestIsCursor /\ CursorIsBehind /\ SinceIsOver /\ ReplyIsNext
  BY DEF Init, RequestIsCursor, CursorIsBehind, SinceIsOver, ReplyIsNext
<1>6. RecentIsOrdered /\ SkipsOnlyNeighbours
  BY <1>2 DEF Init, RecentIsOrdered, SkipsOnlyNeighbours
<1> QED
  BY <1>1, <1>3, <1>4, <1>5, <1>6 DEF PagingInv

\* The steps that leave the store alone.
BackendStep ==
  \/ Tick
  \/ \E g \in Game : Create(g) \/ Finish(g)
  \/ \E g \in Reviewed :
       \/ \E m \in Move : PlayMove(g, m)
       \/ TakeBack(g)
       \/ StartReview(g)
       \/ LoadReview(g)
  \/ AnalysePly \/ FinishReview \/ DropReview
  \/ UNCHANGED vars

LEMMA BackendKeeps ==
  ASSUME PagingInv, BackendStep
  PROVE  BackendTypes' /\ HistoryGrows /\ IsFiniteSet(over') /\ UNCHANGED storeVars
<1>1. TypeOK /\ IsFiniteSet(over)
  BY DEF PagingInv
<1>2. BackendTypes
  BY <1>1 DEF TypeOK, BackendTypes
<1>3. CASE UNCHANGED <<provider, now, created, over, storeVars>>
  BY <1>1, <1>2, <1>3 DEF BackendTypes, HistoryGrows
<1>4. CASE Tick
  <2>1. UNCHANGED <<provider, created, over, storeVars>> /\ now' \in Time
    BY <1>2, <1>4, TimeAssumption DEF Tick, BackendTypes, Time
  <2> QED
    BY <1>1, <1>2, <2>1 DEF BackendTypes, HistoryGrows
<1>5. ASSUME NEW g \in Game, Create(g)
      PROVE  BackendTypes' /\ HistoryGrows /\ IsFiniteSet(over') /\ UNCHANGED storeVars
  <2>1. /\ UNCHANGED <<provider, now, over, storeVars>>
        /\ created[g] = 0 /\ created' = [created EXCEPT ![g] = now]
        /\ now \in 1..MaxTime
    BY <1>2, <1>5 DEF Create, BackendTypes, Time
  <2>2. created' \in [Game -> 0..MaxTime]
    BY <1>2, <2>1, TimeAssumption DEF BackendTypes
  <2>3. \A h \in over : h \in Game /\ created[h] # 0 /\ created'[h] = created[h]
    BY <1>2, <2>1 DEF BackendTypes
  <2>4. over' \subseteq {h \in Game : created'[h] # 0}
    BY <2>1, <2>3
  <2> QED
    BY <1>1, <1>2, <2>1, <2>2, <2>3, <2>4 DEF BackendTypes, HistoryGrows
<1>6. ASSUME NEW g \in Game, Finish(g)
      PROVE  BackendTypes' /\ HistoryGrows /\ IsFiniteSet(over') /\ UNCHANGED storeVars
  <2>1. /\ UNCHANGED <<provider, now, created, storeVars>>
        /\ created[g] # 0 /\ over' = over \cup {g}
    BY <1>6 DEF Finish, Ongoing
  <2>2. IsFiniteSet(over')
    BY <1>1, <2>1, FS_AddElement
  <2> QED
    BY <1>2, <2>1, <2>2 DEF BackendTypes, HistoryGrows
<1>7. ASSUME NEW g \in Game, NEW m \in Move, PlayMove(g, m)
      PROVE  UNCHANGED <<provider, now, created, over, storeVars>>
  BY <1>7 DEF PlayMove
<1>8. ASSUME NEW g \in Game, TakeBack(g) \/ StartReview(g) \/ LoadReview(g)
      PROVE  UNCHANGED <<provider, now, created, over, storeVars>>
  BY <1>8 DEF TakeBack, StartReview, LoadReview, backendVars
<1>9. CASE AnalysePly \/ FinishReview \/ DropReview \/ UNCHANGED vars
  <2>1. UNCHANGED <<provider, now, created, over, storeVars>>
    BY <1>9 DEF AnalysePly, FinishReview, DropReview, vars, backendVars
  <2> QED
    BY <1>3, <2>1
<1>10. \A g \in Reviewed : g \in Game
  BY ReviewedAssumption
<1> QED
  BY <1>3, <1>4, <1>5, <1>6, <1>7, <1>8, <1>9, <1>10 DEF BackendStep

LEMMA StepReviewed ==
  ASSUME PagingInv, [Next]_vars
  PROVE  ReviewIsOfGame'
<1>1. ReviewIsOfGame
  BY DEF PagingInv
<1>2. CASE UNCHANGED review
  BY <1>1, <1>2 DEF ReviewIsOfGame
<1>3. ASSUME NEW g \in Reviewed, StartReview(g) \/ LoadReview(g)
      PROVE  ReviewIsOfGame'
  <2>1. \E marks : \E loaded \in BOOLEAN :
          review' = [game |-> g, line |-> line[g], marks |-> marks, loaded |-> loaded]
    BY <1>3 DEF StartReview, LoadReview
  <2> QED
    BY <2>1 DEF ReviewIsOfGame
<1>4. CASE AnalysePly \/ FinishReview
  <2>1. review # None /\ review = [game |-> review.game, line |-> review.line,
                                   marks |-> review.marks, loaded |-> review.loaded]
    BY <1>4 DEF PagingInv, ReviewInv, AnalysePly, FinishReview
  <2>2. review'.game = review.game /\ review'.loaded \in BOOLEAN
    BY <1>1, <1>4, <2>1 DEF AnalysePly, FinishReview, ReviewIsOfGame
  <2> QED
    BY <1>1, <2>1, <2>2 DEF ReviewIsOfGame
<1>5. CASE DropReview
  BY <1>5 DEF DropReview, ReviewIsOfGame
<1>6. ASSUME NEW g \in Reviewed, (\E m \in Move : PlayMove(g, m)) \/ TakeBack(g)
      PROVE  UNCHANGED review
  BY <1>6 DEF PlayMove, TakeBack
<1>7. CASE \/ Tick \/ (\E g \in Game : Create(g) \/ Finish(g))
           \/ RefreshGameHistory \/ LoadMoreGameHistory \/ Answer \/ Receive
           \/ UNCHANGED vars
  BY <1>2, <1>7 DEF Tick, Create, Finish, RefreshGameHistory, LoadMoreGameHistory, Ask,
                    Answer, Receive, vars
<1> QED
  BY <1>2, <1>3, <1>4, <1>5, <1>6, <1>7 DEF Next

LEMMA AskPaging ==
  ASSUME PagingInv, RefreshGameHistory \/ LoadMoreGameHistory
  PROVE  /\ StoreTypes' /\ RequestIsCursor' /\ ReplyIsNext'
         /\ UNCHANGED <<provider, backendVars, recent, cursor, ends, since>>
<1>1. PICK b \in {None} \cup 0..MaxTime :
        /\ Ask(b)
        /\ b # None => cursor # None /\ b = cursor
  BY DEF RefreshGameHistory, LoadMoreGameHistory, PagingInv, TypeOK
<1>2. /\ request = None /\ request' = [before |-> b]
      /\ UNCHANGED <<provider, backendVars, reply, recent, cursor, ends, since>>
  BY <1>1 DEF Ask
<1>3. reply = None
  BY <1>2 DEF PagingInv, TypeOK
<1>4. StoreTypes'
  BY <1>2, <1>3 DEF PagingInv, TypeOK, StoreTypes
<1>5. RequestIsCursor'
  BY <1>1, <1>2 DEF RequestIsCursor
<1>6. ReplyIsNext'
  BY <1>2, <1>3 DEF ReplyIsNext
<1> QED
  BY <1>2, <1>4, <1>5, <1>6

LEMMA AnswerPaging ==
  ASSUME PagingInv, Answer
  PROVE  /\ StoreTypes' /\ RequestIsCursor' /\ ReplyIsNext'
         /\ UNCHANGED <<provider, backendVars, recent, cursor, ends, since>>
<1>1. /\ request # None
      /\ UNCHANGED <<provider, backendVars, request, recent, cursor, ends, since>>
  BY DEF Answer
<1>2. PICK p :
        /\ reply' = [page |-> p, over |-> over]
        /\ p = None \/ \E s \in Newest(request.before) : p = PageOf(s)
  BY DEF Answer
<1>3. TypeOK /\ IsFiniteSet(over)
  BY DEF PagingInv
<1>4. request.before \in {None} \cup 0..MaxTime
  BY <1>1, <1>3 DEF TypeOK
<1>5. p # None =>
        p \in Page /\ Len(p.games) <= PageLimit /\ PageIsNext(p, request.before, over)
  BY <1>2, <1>3, <1>4, PageFacts
<1>6. StoreTypes'
  <2>1. over \in SUBSET Game
    BY <1>3 DEF TypeOK
  <2>2. reply' \in [page : Page \cup {None}, over : SUBSET Game]
    BY <1>2, <1>5, <2>1
  <2>3. reply'.page = p
    BY <1>2
  <2>4. request' # None
    BY <1>1
  <2>5. reply' # None => /\ request' # None
                         /\ reply'.page # None => Len(reply'.page.games) <= PageLimit
    BY <1>5, <2>3, <2>4
  <2> QED
    BY <1>1, <1>3, <2>2, <2>5 DEF TypeOK, StoreTypes
<1>7. RequestIsCursor'
  BY <1>1 DEF PagingInv, RequestIsCursor
<1>8. ReplyIsNext'
  <2>1. since \subseteq over
    BY DEF PagingInv, SinceIsOver
  <2>2. over' = over /\ HistoryGrows
    BY <1>1 DEF backendVars, HistoryGrows
  <2>3. p # None => PageIsNext(p, request.before, over)'
    <3> SUFFICES ASSUME p # None PROVE PageIsNext(p, request.before, over)'
      OBVIOUS
    <3>1. PICK b, o : b = request.before /\ o = over
      OBVIOUS
    <3>2. PageIsNext(p, b, o)'
      BY <1>3, <1>5, <2>2, <3>1, PageStays
    <3> QED
      BY <1>1, <2>2, <3>1, <3>2 DEF PageIsNext
  <2>4. reply'.page = p /\ reply'.over = over
    BY <1>2
  <2> QED
    BY <1>1, <2>1, <2>2, <2>3, <2>4 DEF ReplyIsNext
<1> QED
  BY <1>1, <1>6, <1>7, <1>8

LEMMA ReceivePaging ==
  ASSUME PagingInv, Receive
  PROVE  /\ StoreTypes' /\ RequestIsCursor' /\ ReplyIsNext'
         /\ CursorIsBehind' /\ SinceIsOver' /\ RecentIsOrdered' /\ SkipsOnlyNeighbours'
         /\ UNCHANGED <<provider, backendVars>>
<1>1. /\ reply # None /\ request' = None /\ reply' = None
      /\ UNCHANGED <<provider, backendVars>>
  BY DEF Receive
<1>2. RequestIsCursor' /\ ReplyIsNext'
  BY <1>1 DEF RequestIsCursor, ReplyIsNext
<1>3. TypeOK
  BY DEF PagingInv
<1>4. CASE reply.page = None
  <2>1. UNCHANGED <<recent, cursor, ends, since>> /\ HistoryGrows
    BY <1>4 DEF Receive, backendVars, HistoryGrows
  <2>2. StoreTypes'
    BY <1>1, <1>3, <2>1 DEF TypeOK, StoreTypes
  <2> QED
    BY <1>1, <1>2, <2>1, <2>2, ListStays
<1>5. CASE reply.page # None
  <2>1. /\ reply.page \in Page /\ cursor' = reply.page.next /\ reply.over \subseteq Game
        /\ request # None
    BY <1>1, <1>3, <1>5 DEF Receive, TypeOK
  <2>2. cursor' \in {None} \cup 0..MaxTime
    BY <2>1 DEF Page
  <2>3. LastOf(reply.page) \subseteq Game
    <3>1. reply.page.games \in Seq(Game)
      BY <2>1 DEF Page
    <3>2. reply.page.games # <<>> =>
            Len(reply.page.games) \in 1..Len(reply.page.games)
      BY <3>1, EmptySeq
    <3>3. reply.page.games # <<>> => reply.page.games[Len(reply.page.games)] \in Game
      BY <3>1, <3>2, ElementOfSeq
    <3> QED
      BY <3>3 DEF LastOf, Last
  <2>4. CASE request.before = None
    <3>1. /\ recent' = reply.page.games /\ ends' = LastOf(reply.page)
          /\ since' = reply.over
      BY <1>5, <2>4 DEF Receive
    <3>2. StoreTypes'
      BY <1>1, <2>1, <2>2, <2>3, <3>1 DEF StoreTypes, Page
    <3> QED
      BY <1>1, <1>2, <1>5, <2>4, <3>2, FirstPage
  <2>5. CASE request.before # None
    <3>1. ends' = ends \cup LastOf(reply.page) /\ since' = since
      BY <1>5, <2>5 DEF Receive
    <3>2. recent' \in Seq(Game)
      BY <1>5, <2>5, LaterPage
    <3>3. StoreTypes'
      BY <1>1, <1>3, <2>2, <2>3, <3>1, <3>2 DEF StoreTypes, TypeOK
    <3> QED
      BY <1>1, <1>2, <1>5, <2>5, <3>3, LaterPage
  <2> QED
    BY <2>4, <2>5
<1> QED
  BY <1>4, <1>5

LEMMA StepPaging ==
  ASSUME PagingInv, [Next]_vars
  PROVE  PagingInv'
<1>1. ReviewInv'
  BY StepReview DEF PagingInv
<1>2. ReviewIsOfGame'
  BY StepReviewed
<1>3. TypeOK /\ BackendTypes /\ StoreTypes /\ IsFiniteSet(over)
  BY DEF PagingInv, TypeOK, BackendTypes, StoreTypes
<1>4. UNCHANGED <<provider, backendVars>> =>
        BackendTypes' /\ HistoryGrows /\ IsFiniteSet(over')
  BY <1>3 DEF backendVars, BackendTypes, HistoryGrows
<1>5. /\ BackendTypes' /\ StoreTypes' /\ IsFiniteSet(over')
      /\ RequestIsCursor' /\ CursorIsBehind' /\ SinceIsOver' /\ ReplyIsNext'
      /\ RecentIsOrdered' /\ SkipsOnlyNeighbours'
  <2>1. CASE BackendStep
    <3>1. BackendTypes' /\ HistoryGrows /\ IsFiniteSet(over') /\ UNCHANGED storeVars
      BY <2>1, BackendKeeps
    <3>2. StoreTypes'
      BY <1>3, <3>1 DEF storeVars, StoreTypes
    <3> QED
      BY <3>1, <3>2, QuietStore
  <2>2. CASE RefreshGameHistory \/ LoadMoreGameHistory
    <3>1. UNCHANGED <<recent, cursor, ends, since>>
      BY <2>2, AskPaging
    <3> QED
      BY <1>4, <2>2, <3>1, AskPaging, ListStays
  <2>3. CASE Answer
    <3>1. UNCHANGED <<recent, cursor, ends, since>>
      BY <2>3, AnswerPaging
    <3> QED
      BY <1>4, <2>3, <3>1, AnswerPaging, ListStays
  <2>4. CASE Receive
    BY <1>4, <2>4, ReceivePaging
  <2> QED
    BY <2>1, <2>2, <2>3, <2>4 DEF Next, BackendStep
<1>6. TypeOK'
  BY <1>1, <1>2, <1>5, TypeParts
<1> QED
  BY <1>1, <1>2, <1>5, <1>6 DEF PagingInv

\* Every state of the archive is well typed, and its list, cursor, request and
\* page belong together, whatever is created and finished between two pages.
THEOREM PagesFollowTheList == Spec => []PagingInv
BY InitPaging, StepPaging, PTL DEF Spec

\* Every variable has its type, and no page is longer than what was asked for.
THEOREM ArchiveTypes == Spec => []TypeOK
<1>1. PagingInv => TypeOK
  BY DEF PagingInv
<1> QED
  BY <1>1, PagesFollowTheList, PTL

\* The list of recent games is newest first, has no game twice, and has only
\* games that are over, however refreshes and pages alternate.
THEOREM ListIsOrdered == Spec => []RecentIsOrdered
<1>1. PagingInv => RecentIsOrdered
  BY DEF PagingInv
<1> QED
  BY <1>1, PagesFollowTheList, PTL

\* Paging never loses a game that was over when it began, except beside the
\* last game of a page.
THEOREM PagesSkipOnlyNeighbours == Spec => []SkipsOnlyNeighbours
<1>1. PagingInv => SkipsOnlyNeighbours
  BY DEF PagingInv
<1> QED
  BY <1>1, PagesFollowTheList, PTL

=============================================================================
