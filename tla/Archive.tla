------------------------------ MODULE Archive ------------------------------
(***************************************************************************)
(* Finished games: the pages of the game history, from the backend to the   *)
(* list of the native store, and the review of a game.                     *)
(*                                                                         *)
(* Both backends answer a history request with the newest finished games    *)
(* before a cursor, and with the next cursor: the creation time of the last *)
(* game minus one.  They differ in what "before" means.  A review is a      *)
(* document at Lichess and the work of a fresh engine for the local backend.*)
(***************************************************************************)
EXTENDS Integers, Sequences, FiniteSets, SequencesExt

CONSTANTS
  Game,
  Reviewed,       \* the games that may be reviewed, a subset of Game
  Odd,            \* games whose record map_game refuses
  PageLimit,      \* GameHistoryRequest::limit
  MaxTime,        \* bound on the clock
  Move,
  MaxPly,         \* bound on the length of a game
  Worth,          \* line -> what its last position is worth to White
  None

ASSUME LimitAssumption == PageLimit \in Nat \ {0}
ASSUME TimeAssumption == MaxTime \in Nat \ {0}
ASSUME ReviewedAssumption == Reviewed \subseteq Game
ASSUME NoneAssumption == None \notin Game \cup Int

VARIABLES
  provider,       \* "lichess" or "stockfish"
  now,            \* the clock of the backend
  created,        \* creation time of each game, 0 before
  over,           \* finished games
  line,           \* moves of each game
  request,        \* the store's pendingGameHistoryRequest: its cursor
  reply,          \* the page or error on its way to the store
  recent,         \* recentGames of the store
  cursor,         \* nextGameHistoryCursor of the store
  ends,           \* last games of the pages in `recent` (read by properties)
  since,          \* games that were over when the first page was made (likewise)
  review          \* the review that is being made or has been made

backendVars == <<now, created, over, line>>
storeVars == <<request, reply, recent, cursor, ends, since>>
vars == <<provider, backendVars, storeVars, review>>

Time == 1..MaxTime
Line == UNION {[1..n -> Move] : n \in 0..MaxPly}

ASSUME WorthAssumption == MaxPly \in Nat /\ Worth \in [Line -> Int]

Page == [games : Seq(Game), next : {None} \cup 0..MaxTime]

TypeOK ==
  /\ provider \in {"lichess", "stockfish"}
  /\ now \in Time
  /\ created \in [Game -> 0..MaxTime]
  /\ over \subseteq {g \in Game : created[g] # 0}
  /\ line \in [Game -> Line]
  /\ request \in {None} \cup [before : {None} \cup 0..MaxTime]
  /\ reply \in {None} \cup [page : Page \cup {None}, over : SUBSET Game]
  /\ reply # None =>
       /\ request # None
       /\ reply.page # None => Len(reply.page.games) <= PageLimit
  /\ recent \in Seq(Game)
  /\ cursor \in {None} \cup 0..MaxTime
  /\ ends \subseteq Game
  /\ since \subseteq Game
  /\ review \in {None} \cup
       [game : Reviewed, line : Line, marks : Seq({None} \cup Int), loaded : BOOLEAN]

Init ==
  /\ provider \in {"lichess", "stockfish"}
  /\ now = 1
  /\ created = [g \in Game |-> 0]
  /\ over = {}
  /\ line = [g \in Game |-> <<>>]
  /\ request = None
  /\ reply = None
  /\ recent = <<>>
  /\ cursor = None
  /\ ends = {}
  /\ since = {}
  /\ review = None

-----------------------------------------------------------------------------
(***************************************************************************)
(* The games of the account.                                               *)
(***************************************************************************)

Tick ==
  /\ now < MaxTime
  /\ now' = now + 1
  /\ UNCHANGED <<provider, created, over, line, storeVars, review>>

\* Lichess may start several games at once.
Create(g) ==
  /\ created[g] = 0
  /\ created' = [created EXCEPT ![g] = now]
  /\ UNCHANGED <<provider, now, over, line, storeVars, review>>

Ongoing(g) == created[g] # 0 /\ g \notin over

PlayMove(g, m) ==
  /\ Ongoing(g)
  /\ Len(line[g]) < MaxPly
  /\ line' = [line EXCEPT ![g] = Append(@, m)]
  /\ UNCHANGED <<provider, now, created, over, storeVars, review>>

TakeBack(g) ==
  /\ Ongoing(g)
  /\ line[g] # <<>>
  /\ line' = [line EXCEPT ![g] = Front(@)]
  /\ UNCHANGED <<provider, now, created, over, storeVars, review>>

Finish(g) ==
  /\ Ongoing(g)
  /\ over' = over \cup {g}
  /\ UNCHANGED <<provider, now, created, line, storeVars, review>>

-----------------------------------------------------------------------------
(***************************************************************************)
(* A page of the history.                                                  *)
(***************************************************************************)

\* Lichess takes `until` as inclusive, the local backend compares with <.
Before(g, before) ==
  \/ before = None
  \/ provider = "lichess" /\ created[g] <= before
  \/ provider = "stockfish" /\ created[g] < before

\* The finished games before the cursor, newest first.
Newest(before) ==
  LET games == {g \in over : Before(g, before)}
  IN  {s \in SetToSeqs(games) :
         \A i, j \in 1..Len(s) : i < j => created[s[i]] >= created[s[j]]}

\* Mutant of NextCursor: it is taken from the game that tells there are more.
NextCursorOfPeeked(s) ==
  IF Len(s) > PageLimit THEN created[s[PageLimit + 1]] - 1 ELSE None

\* The time of the last game on the page minus one, if there are more games.
NextCursor(s) ==
  IF Len(s) > PageLimit THEN created[s[PageLimit]] - 1 ELSE None

\* The first n games of s, or all.
Take(s, n) == SubSeq(s, 1, IF Len(s) < n THEN Len(s) ELSE n)

\* Mutant of PageOf: the game that tells there are more is on the page too.
PageOfPeeked(s) == [games |-> Take(s, PageLimit + 1), next |-> NextCursor(s)]

PageOf(s) == [games |-> Take(s, PageLimit), next |-> NextCursor(s)]

\* Lichess is asked for one game more than the page holds, and one record
\* that cannot be mapped fails the page.
Refused(s) ==
  /\ provider = "lichess"
  /\ ToSet(Take(s, PageLimit + 1)) \cap Odd # {}

\* The backend reads its games and answers, or the call fails.
Answer ==
  /\ request # None
  /\ reply = None
  /\ \/ \E s \in Newest(request.before) :
          reply' = [page |-> IF Refused(s) THEN None ELSE PageOf(s), over |-> over]
     \/ reply' = [page |-> None, over |-> over]
  /\ UNCHANGED <<provider, backendVars, request, recent, cursor, ends, since, review>>

-----------------------------------------------------------------------------
(***************************************************************************)
(* The store.                                                              *)
(***************************************************************************)

Ask(before) ==
  /\ request = None
  /\ request' = [before |-> before]
  /\ UNCHANGED <<provider, backendVars, reply, recent, cursor, ends, since, review>>

RefreshGameHistory == Ask(None)

LoadMoreGameHistory == cursor # None /\ Ask(cursor)

LastOf(page) == IF page.games = <<>> THEN {} ELSE {Last(page.games)}

\* The games of a page that are not in the list, in the order of the page: the
\* n-th is the one that has n of them up to it.
Unlisted(known, games) ==
  LET new == {i \in 1..Len(games) : games[i] \notin ToSet(known)}
      place == [i \in new |-> Cardinality({j \in new : j <= i})]
  IN  [n \in 1..Cardinality(new) |-> games[CHOOSE i \in new : place[i] = n]]

\* Pages are appended without the games the list already has.
Merge(known, games) == known \o Unlisted(known, games)

\* Mutant of Receive: a refreshed first page is appended as well.
ReceiveAppending ==
  /\ reply # None
  /\ request' = None
  /\ reply' = None
  /\ \/ reply.page = None /\ UNCHANGED <<recent, cursor, ends, since>>
     \/ /\ reply.page # None
        /\ cursor' = reply.page.next
        /\ recent' = Merge(recent, reply.page.games)
        /\ ends' = ends \cup LastOf(reply.page)
        /\ UNCHANGED since
  /\ UNCHANGED <<provider, backendVars, review>>

\* An answer settles the request.  An error, or a page that fails the store's
\* checks, leaves the list alone; without a cursor the list is replaced.
Receive ==
  /\ reply # None
  /\ request' = None
  /\ reply' = None
  /\ \/ /\ reply.page = None
        /\ UNCHANGED <<recent, cursor, ends, since>>
     \/ /\ reply.page # None
        /\ cursor' = reply.page.next
        /\ \/ /\ request.before = None
              /\ recent' = reply.page.games
              /\ ends' = LastOf(reply.page)
              /\ since' = reply.over
           \/ /\ request.before # None
              /\ recent' = Merge(recent, reply.page.games)
              /\ ends' = ends \cup LastOf(reply.page)
              /\ UNCHANGED since
  /\ UNCHANGED <<provider, backendVars, review>>

-----------------------------------------------------------------------------
(***************************************************************************)
(* The review of a game.                                                   *)
(***************************************************************************)

\* review_game copies the snapshot, and the mutex is released.
StartReview(g) ==
  /\ provider = "stockfish"
  /\ review = None
  /\ created[g] # 0
  /\ review' = [game |-> g, line |-> line[g], marks |-> <<>>, loaded |-> FALSE]
  /\ UNCHANGED <<provider, backendVars, storeVars>>

WhiteToMove(played) == Len(played) % 2 = 0

\* The engine speaks of the side to move.
EngineScore(played) ==
  IF WhiteToMove(played) THEN Worth[played] ELSE -Worth[played]

\* evaluation_from_engine: the score from White's side.
FromEngine(score, played) == IF WhiteToMove(played) THEN score ELSE -score

\* Mutant of AnalysePly: the game is read again at every ply.
AnalysePlyLive ==
  /\ review # None /\ ~review.loaded
  /\ Len(review.marks) < Len(review.line)
  /\ Len(review.marks) < Len(line[review.game])
  /\ LET played == SubSeq(line[review.game], 1, Len(review.marks) + 1)
     IN  review' = [review EXCEPT
                      !.marks = Append(@, FromEngine(EngineScore(played), played))]
  /\ UNCHANGED <<provider, backendVars, storeVars>>

\* One iteration of review_snapshot, for the next ply of the copy.
AnalysePly ==
  /\ review # None /\ ~review.loaded
  /\ Len(review.marks) < Len(review.line)
  /\ LET played == SubSeq(review.line, 1, Len(review.marks) + 1)
     IN  review' = [review EXCEPT
                      !.marks = Append(@, FromEngine(EngineScore(played), played))]
  /\ UNCHANGED <<provider, backendVars, storeVars>>

FinishReview ==
  /\ review # None /\ ~review.loaded
  /\ Len(review.marks) = Len(review.line)
  /\ review' = [review EXCEPT !.loaded = TRUE]
  /\ UNCHANGED <<provider, backendVars, storeVars>>

\* An error of the engine ends the review; one that is loaded can be replaced.
DropReview ==
  /\ review # None
  /\ review' = None
  /\ UNCHANGED <<provider, backendVars, storeVars>>

\* Lichess sends a document with an analysis of some plies; map_review refuses
\* one with more annotations than moves.
LoadReview(g) ==
  /\ provider = "lichess"
  /\ review = None
  /\ created[g] # 0
  /\ \E analysed \in SUBSET (1..Len(line[g])) :
       review' = [game |-> g, line |-> line[g], loaded |-> TRUE,
                  marks |-> [i \in 1..Len(line[g]) |->
                               IF i \in analysed THEN Worth[SubSeq(line[g], 1, i)]
                                                ELSE None]]
  /\ UNCHANGED <<provider, backendVars, storeVars>>

-----------------------------------------------------------------------------

Next ==
  \/ Tick
  \/ \E g \in Game : Create(g) \/ Finish(g)
  \/ \E g \in Reviewed :
       \/ \E m \in Move : PlayMove(g, m)
       \/ TakeBack(g)
       \/ StartReview(g)
       \/ LoadReview(g)
  \/ RefreshGameHistory
  \/ LoadMoreGameHistory
  \/ Answer
  \/ Receive
  \/ AnalysePly
  \/ FinishReview
  \/ DropReview

Spec == Init /\ [][Next]_vars

-----------------------------------------------------------------------------
(***************************************************************************)
(* Properties.                                                             *)
(***************************************************************************)

\* The list of recent games is newest first and has no game twice, whatever
\* finished between its pages and however refreshes and pages alternate.
RecentIsOrdered ==
  /\ \A i, j \in 1..Len(recent) : i < j =>
       /\ recent[i] # recent[j]
       /\ created[recent[i]] >= created[recent[j]]
  /\ ToSet(recent) \subseteq over

\* The next cursor leaves out what shares the millisecond of the last game,
\* and with the strict comparison of the local backend also the one before.
Beside(h, g) ==
  \/ created[h] = created[g]
  \/ provider = "stockfish" /\ created[h] = created[g] - 1

\* A game that was over when paging began is listed, or a later page can list
\* it, or it was created beside the last game of some page.
SkipsOnlyNeighbours ==
  \A h \in since \ ToSet(recent) :
    \/ cursor # None /\ Before(h, cursor)
    \/ \E g \in ends : Beside(h, g)

\* A review speaks of one line, the one the game had when it was asked for,
\* and each mark is what that position is worth to White.
ReviewIsFaithful ==
  review # None =>
    /\ \A i \in 1..Len(review.marks) :
         review.marks[i] \in {None, Worth[SubSeq(review.line, 1, i)]}
    /\ review.loaded => Len(review.marks) = Len(review.line)

=============================================================================
