------------------------ MODULE LocalGameRefinement ------------------------
(***************************************************************************)
(* LocalGame implements TurnGame: the published snapshot begins as no game,  *)
(* and every step of a local game either leaves it alone or is a step of    *)
(* TurnGame.  The invariant of LocalGameProofs says what an operation that  *)
(* waits for the engine has already done, which is the first half of the    *)
(* turn that its completion publishes.                                     *)
(***************************************************************************)
EXTENDS LocalGameProofs

\* The operators of Arena as TurnGame sees them.
LEMMA SameArena ==
  /\ \A g : Promise!UpdateTerminal(g) = UpdateTerminal(g)
  /\ \A g, m : Promise!WithMove(g, m) = WithMove(g, m)
  /\ \A g : Promise!WithoutTurn(g) = WithoutTurn(g)
  /\ \A g, s, w : Promise!Finish(g, s, w) = Finish(g, s, w)
  /\ \A o, c : Promise!Opened(o, c) = Opened(o, c)
  /\ \A g : Promise!IsPlayable(g) = IsPlayable(g)
  /\ \A c : Promise!Opposite(c) = Opposite(c)
  /\ Promise!Color = Color
BY DEF Promise!UpdateTerminal, UpdateTerminal, Promise!WithMove, WithMove,
   Promise!WithoutTurn, WithoutTurn, Promise!Finish, Finish, Promise!Opened,
   Opened, Promise!IsPlayable, IsPlayable, Promise!Opposite, Opposite,
   Promise!Color, Color

\* An opening that leaves the engine nothing to do appears at once.
LEMMA CreateBegins ==
  ASSUME IInv, NEW o \in Openings, NEW c \in Color, Create(o, c)
  PROVE  Promise!Begin \/ published' = published
<1>. DEFINE g == UpdateTerminal(Opened(o, c))
<1>1. published = NoGame
  BY DEF Create, IInv, IdleInv
<1>2. CASE NeedsReply(g)
  BY <1>2 DEF Create
<1>3. CASE ~NeedsReply(g)
  <2>1. published' = g
    BY <1>3 DEF Create, Commit, Publish
  <2>2. ~(IsPlayable(g) /\ Turn[g.at] # g.color)
    <3>1. g \in LiveGame /\ (IsPlayable(g) => Turn[g.at] = g.color)
      BY <1>3, AfterOpening DEF Settled
    <3>. QED
      BY <3>1
  <2>. QED
    BY <1>1, <2>1, <2>2, SameArena DEF Promise!Begin, Promise!PlayersTurn
<1>. QED
  BY <1>2, <1>3

\* A move that ends the game is a turn of its own, and one with a draw offer
\* ends it too; any other waits.
LEMMA PlayMovePublishesTurn ==
  ASSUME IInv, NEW m \in Move, NEW offerDraw \in BOOLEAN,
         PlayMove(m, offerDraw)
  PROVE  Promise!Next \/ published' = published
<1>1. /\ live # NoGame /\ op = "idle" /\ IsPlayable(live)
      /\ Turn[live.at] = live.color /\ m \in Legal[live.at]
  BY DEF PlayMove
<1>2. live \in LiveGame /\ live = published /\ Settled(live)
  BY <1>1, ReadyForOperation
<1>3. CASE offerDraw
  <2>1. published' = Finish(WithMove(live, m), "draw", "none")
    BY <1>3 DEF PlayMove, Commit, Publish
  <2>. QED
    BY <1>1, <1>2, <2>1, SameArena
    DEF Promise!Next, Promise!MoveAndDraw, Promise!PlayersTurn
<1>4. CASE ~offerDraw
  <2>. DEFINE g == UpdateTerminal(WithMove(live, m))
  <2>1. ReplyOrCommit("move", g)
    BY <1>4 DEF PlayMove
  <2>2. IsPlayable(g) => NeedsReply(g)
    BY <1>1, <1>2, AfterPlayersMove
  <2>3. CASE NeedsReply(g)
    BY <2>1, <2>3 DEF ReplyOrCommit, AskEngine
  <2>4. CASE ~NeedsReply(g)
    <3>1. published' = g /\ ~IsPlayable(g)
      BY <2>1, <2>2, <2>4 DEF ReplyOrCommit, Commit, Publish
    <3>2. Promise!FullTurn
      BY <1>1, <1>2, <3>1, SameArena
      DEF Promise!FullTurn, Promise!PlayersTurn
    <3>. QED
      BY <3>2 DEF Promise!Next
  <2>. QED
    BY <2>3, <2>4
<1>. QED
  BY <1>3, <1>4

LEMMA EndGameEnds ==
  ASSUME IInv, Abort \/ Resign \/ AgreeDraw
  PROVE  Promise!End
<1>1. live # NoGame /\ op = "idle" /\ IsPlayable(live)
  BY DEF Abort, Resign, AgreeDraw, EndGame
<1>2. live = published
  BY <1>1, ReadyForOperation
<1>3. \/ published' = Finish(live, "aborted", "none")
      \/ published' = Finish(live, "resign", Opposite(live.color))
      \/ published' = Finish(live, "draw", "none")
  BY DEF Abort, Resign, AgreeDraw, EndGame, Commit, Publish
<1>. QED
  BY <1>1, <1>2, <1>3, SameArena DEF Promise!End

LEMMA TakeBackTakesBack ==
  ASSUME IInv, TakeBack
  PROVE  Promise!TakeBack
<1>1. live # NoGame /\ op = "idle" /\ IsPlayable(live) /\ Len(live.path) >= 2
  BY DEF TakeBack
<1>2. live \in LiveGame /\ live = published /\ Settled(live)
  BY <1>1, ReadyForOperation
<1>3. published' = WithoutTurn(live)
  BY <1>1, <1>2, AfterTakeBack DEF TakeBack, ReplyOrCommit, Commit, Publish
<1>. QED
  BY <1>1, <1>2, <1>3, SameArena DEF Promise!TakeBack

\* The engine's answer completes the opening or the turn that waits for it.
LEMMA ReplyCompletesTurn ==
  ASSUME IInv, ReplyPlayed
  PROVE  Promise!Begin \/ Promise!FullTurn
<1>. DEFINE r == Head(output).best
<1>1. /\ op # "idle" /\ r \in Legal[live.at]
      /\ published' = UpdateTerminal(WithMove(live, r))
  BY DEF ReplyPlayed, Commit, Publish
<1>2. /\ live \in LiveGame /\ NeedsReply(live)
  BY <1>1, WaitingForReply
<1>3. /\ IsPlayable(live)
      /\ Turn[live.at] # live.color
  BY <1>2 DEF NeedsReply, LiveGame, Color, Opposite
<1>4. CASE op = "create"
  <2>1. PICK o \in Openings, c \in Color :
          live = UpdateTerminal(Opened(o, c))
    BY <1>4 DEF IInv, CreateInv
  <2>2. published = NoGame
    BY <1>4 DEF IInv, CreateInv
  <2>3. Promise!Reaches(live, published')
    BY <1>1, SameArena DEF Promise!Reaches
  <2>. QED
    BY <1>3, <2>1, <2>2, <2>3, SameArena
    DEF Promise!Begin, Promise!PlayersTurn
<1>5. CASE op = "move"
  <2>1. PICK m \in Legal[published.at] :
          live = UpdateTerminal(WithMove(published, m))
    BY <1>5 DEF IInv, MoveInv
  <2>2. /\ published # NoGame /\ IsPlayable(published)
        /\ Turn[published.at] = published.color
    BY <1>5 DEF IInv, MoveInv, PublishedInv, Settled
  <2>3. Promise!Reaches(live, published')
    BY <1>1, SameArena DEF Promise!Reaches
  <2>. QED
    BY <1>3, <2>1, <2>2, <2>3, SameArena
    DEF Promise!FullTurn, Promise!PlayersTurn
<1>. QED
  BY <1>1, <1>4, <1>5 DEF IInv, TypeOK, TakeBackNeverWaits

LEMMA StepKeepsPromise ==
  ASSUME IInv, [Next]_vars
  PROVE  Promise!Next \/ published' = published
<1>1. ASSUME Operation PROVE Promise!Next \/ published' = published
  <2>1. ASSUME NEW o \in Openings, NEW c \in Color, Create(o, c)
        PROVE  Promise!Next \/ published' = published
    BY <2>1, CreateBegins DEF Promise!Next
  <2>2. ASSUME NEW m \in Move, NEW d \in BOOLEAN, PlayMove(m, d)
        PROVE  Promise!Next \/ published' = published
    BY <2>2, PlayMovePublishesTurn
  <2>3. ASSUME Decline PROVE published' = published
    BY <2>3, ReadyForOperation DEF Decline, Commit, Publish
  <2>. QED
    BY <1>1, <2>1, <2>2, <2>3, EndGameEnds, TakeBackTakesBack
    DEF Operation, Promise!Next
<1>2. ASSUME Completion PROVE Promise!Next \/ published' = published
  <2>1. CASE ReplyPlayed
    BY <2>1, ReplyCompletesTurn DEF Promise!Next
  <2>2. CASE ReplyRejected \/ SearchFails
    BY <2>2 DEF ReplyRejected, SearchFails, RollBack
  <2>. QED
    BY <1>2, <2>1, <2>2 DEF Completion
<1>3. ASSUME Process PROVE published' = published
  BY <1>3 DEF Process, EngineExits, EngineAnswers
<1>4. ASSUME Streaming PROVE published' = published
  BY <1>4 DEF Streaming, Subscribe, EmitInitial, EmitUpdate, CancelStream
<1>5. ASSUME Catalog PROVE published' = published
  BY <1>5 DEF Catalog, SignalCatalog, CatalogChanged, ListGames
<1>6. ASSUME UNCHANGED vars PROVE published' = published
  BY <1>6 DEF vars
<1>. QED
  BY <1>1, <1>2, <1>3, <1>4, <1>5, <1>6 DEF Next

\* Watchers of a local game see a TurnGame: whole turns, legal moves, and
\* nothing after the end, although the code works in half turns that can fail.
THEOREM ImplementsTurnGame == Spec => KeepsPromise
<1>1. Init => Promise!Init
  BY DEF Init, Promise!Init
<1>2. IInv /\ [Next]_vars => [Promise!Next]_published
  BY StepKeepsPromise
<1>. QED
  BY <1>1, <1>2, Invariant, PTL DEF Spec, KeepsPromise, Promise!Spec

\* A finished snapshot is never replaced, by any operation in any order.
THEOREM FinishedStaysFinal == Spec => FinishedIsFinal
<1>1. IInv /\ [Next]_vars =>
        [published # NoGame /\ ~IsPlayable(published)
           => published' = published]_vars
  <2>. SUFFICES ASSUME IInv, [Next]_vars,
                       published # NoGame, ~IsPlayable(published)
                PROVE  published' = published
    OBVIOUS
  <2>1. ~Promise!Next
    BY SameArena DEF Promise!Next, Promise!Begin, Promise!FullTurn,
       Promise!MoveAndDraw, Promise!TakeBack, Promise!End
  <2>. QED
    BY <2>1, StepKeepsPromise
<1>. QED
  BY <1>1, Invariant, PTL DEF Spec, FinishedIsFinal

=============================================================================
