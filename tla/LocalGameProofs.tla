-------------------------- MODULE LocalGameProofs --------------------------
(***************************************************************************)
(* Theorems about LocalGame, for every arena that satisfies RulesAssumption *)
(* and OpeningsAssumption, any set of streams and any bound on the pipe.    *)
(***************************************************************************)
EXTENDS LocalGame, SequenceTheorems, TLAPS

(***************************************************************************)
(* The inductive invariant.  NothingUnpublished and EngineMatchesGame speak *)
(* of the moments when the mutex is free; to carry them over an operation   *)
(* that waits for the engine one must say what the operation has changed so *)
(* far and what its rollback would restore.                                *)
(***************************************************************************)

\* A snapshot that was reached by legal moves and is adjudicated.
Sound(g) == LegalLine(g.at, g.path) /\ (IsPlayable(g) => ~Terminal(g.at))

\* A snapshot that can be published: if it is playable the player is to move.
Settled(g) == Sound(g) /\ (IsPlayable(g) => Turn[g.at] = g.color)

PublishedInv == published # NoGame => Settled(published)

IdleInv ==
  op = "idle" =>
    /\ live = published
    /\ live # NoGame => (IsPlayable(live) <=> engine # "none")

\* create() waits with the adjudicated opening in place.
CreateInv ==
  op = "create" =>
    /\ published = NoGame
    /\ engine # "none"
    /\ \E o \in Openings, c \in Color :
         /\ live = UpdateTerminal(Opened(o, c))
         /\ NeedsReply(live)

\* play_player_move waits with one more move than what it would restore.
MoveInv ==
  op = "move" =>
    /\ original = published
    /\ published # NoGame
    /\ IsPlayable(published)
    /\ engine # "none"
    /\ \E m \in Legal[published.at] :
         /\ live = UpdateTerminal(WithMove(published, m))
         /\ NeedsReply(live)

StreamInv ==
  \A s \in Stream :
    /\ stream[s].state \in {"subscribed", "open", "ended"} =>
         published # NoGame
    /\ stream[s].state = "open" /\ ~stream[s].unseen =>
         stream[s].shown = published
    /\ stream[s].state = "ended" =>
         stream[s].shown = published /\ ~IsPlayable(published)

IInv ==
  /\ TypeOK
  /\ TakeBackNeverWaits
  /\ PublishedInv
  /\ IdleInv
  /\ CreateInv
  /\ MoveInv
  /\ StreamInv

-----------------------------------------------------------------------------
(***************************************************************************)
(* The operators of Arena.                                                 *)
(***************************************************************************)

\* Adjudication changes only the status and the winner, and a game it leaves
\* playable is the game it was given, in a position that is not terminal.
LEMMA Adjudication ==
  ASSUME NEW g \in LiveGame
  PROVE  /\ UpdateTerminal(g) \in LiveGame
         /\ UpdateTerminal(g).at = g.at
         /\ UpdateTerminal(g).path = g.path
         /\ UpdateTerminal(g).color = g.color
         /\ IsPlayable(UpdateTerminal(g)) =>
              UpdateTerminal(g) = g /\ ~Terminal(g.at)
<1>. DEFINE u == UpdateTerminal(g)
<1>1. Opposite(Turn[g.at]) \in Color
  BY RulesAssumption DEF LiveGame, Color, Opposite
<1>2. CASE Legal[g.at] = {} /\ g.at \in InCheck
  <2>1. u = Finish(g, "mate", Opposite(Turn[g.at]))
    BY <1>2 DEF UpdateTerminal
  <2>. QED
    BY <1>1, <2>1 DEF Finish, LiveGame, Status, IsPlayable, Color
<1>3. CASE Legal[g.at] = {} /\ g.at \notin InCheck
  <2>1. u = Finish(g, "stalemate", "none")
    BY <1>3 DEF UpdateTerminal
  <2>. QED
    BY <2>1 DEF Finish, LiveGame, Status, IsPlayable, Color
<1>4. CASE Legal[g.at] # {} /\ g.at \in DeadMaterial
  <2>1. u = Finish(g, "draw", "none")
    BY <1>4 DEF UpdateTerminal
  <2>. QED
    BY <2>1 DEF Finish, LiveGame, Status, IsPlayable, Color
<1>5. CASE Legal[g.at] # {} /\ g.at \notin DeadMaterial
  <2>1. u = g
    BY <1>5 DEF UpdateTerminal
  <2>. QED
    BY <1>5, <2>1 DEF Terminal
<1>. QED
  BY <1>2, <1>3, <1>4, <1>5

\* A legal move extends a legal line by one ply and passes the turn.
LEMMA MoveExtendsLine ==
  ASSUME NEW g \in LiveGame, LegalLine(g.at, g.path),
         NEW m \in Legal[g.at]
  PROVE  /\ WithMove(g, m) \in LiveGame
         /\ WithMove(g, m).color = g.color
         /\ WithMove(g, m).status = g.status
         /\ LegalLine(WithMove(g, m).at, WithMove(g, m).path)
         /\ Turn[WithMove(g, m).at] = Opposite(Turn[g.at])
<1>. DEFINE ply == [from |-> g.at, move |-> m]
            next == After[g.at][m]
            path == Append(g.path, ply)
<1>1. /\ g.at \in Position /\ g.path \in Seq(Ply)
      /\ m \in Move /\ next \in Position
      /\ Turn[next] = Opposite(Turn[g.at])
  BY RulesAssumption DEF LiveGame
<1>2. ply \in Ply
  BY <1>1 DEF Ply
<1>3. /\ path \in Seq(Ply) /\ Len(path) = Len(g.path) + 1
      /\ \A i \in 1..Len(g.path) : path[i] = g.path[i]
      /\ path[Len(g.path) + 1] = ply
  BY <1>1, <1>2
<1>4. /\ WithMove(g, m).at = next /\ WithMove(g, m).path = path
      /\ WithMove(g, m).color = g.color /\ WithMove(g, m).status = g.status
      /\ WithMove(g, m) \in LiveGame
  BY <1>1, <1>3 DEF WithMove, LiveGame
<1>5. LegalLine(next, path)
  <2>. SUFFICES ASSUME NEW i \in 1..Len(path)
                PROVE  /\ path[i].move \in Legal[path[i].from]
                       /\ After[path[i].from][path[i].move] =
                            IF i = Len(path) THEN next ELSE path[i + 1].from
    BY DEF LegalLine
  <2>0. Len(g.path) \in Nat
    BY <1>1
  <2>1. CASE i = Len(path)
    BY <1>3, <2>0, <2>1
  <2>2. CASE i # Len(path)
    <3>1. i \in 1..Len(g.path)
      BY <1>3, <2>0, <2>2
    <3>2. CASE i = Len(g.path)
      BY <1>3, <2>0, <3>1, <3>2 DEF LegalLine
    <3>3. CASE i # Len(g.path)
      <4>1. i + 1 \in 1..Len(g.path)
        BY <2>0, <3>1, <3>3
      <4>. QED
        BY <1>3, <2>0, <2>2, <3>1, <3>3, <4>1 DEF LegalLine
    <3>. QED
      BY <3>2, <3>3
  <2>. QED
    BY <2>1, <2>2
<1>. QED
  BY <1>1, <1>4, <1>5

\* Taking two plies back from a legal line leaves a legal line that ends with
\* the same side to move, in a position that cannot be terminal: a move was
\* played there, and material that has died stays dead.
LEMMA TakeBackShortensLine ==
  ASSUME NEW g \in LiveGame, LegalLine(g.at, g.path), ~Terminal(g.at),
         Len(g.path) >= 2
  PROVE  /\ WithoutTurn(g) \in LiveGame
         /\ WithoutTurn(g).color = g.color
         /\ WithoutTurn(g).status = g.status
         /\ LegalLine(WithoutTurn(g).at, WithoutTurn(g).path)
         /\ ~Terminal(WithoutTurn(g).at)
         /\ Turn[WithoutTurn(g).at] = Turn[g.at]
<1>. DEFINE n == Len(g.path) - 2
            back == g.path[n + 1]
            last == g.path[n + 2]
            path == SubSeq(g.path, 1, n)
<1>1. /\ g.at \in Position /\ g.path \in Seq(Ply) /\ Len(g.path) \in Nat
      /\ n \in Nat /\ n + 1 \in 1..Len(g.path) /\ n + 2 = Len(g.path)
      /\ n + 2 \in 1..Len(g.path) /\ n + 1 # Len(g.path)
      /\ (n + 1) + 1 = n + 2
  BY DEF LiveGame
<1>2. back \in Ply /\ last \in Ply
  BY <1>1
<1>3. /\ back.move \in Legal[back.from]
      /\ After[back.from][back.move] = last.from
  BY <1>1 DEF LegalLine
<1>4. /\ last.move \in Legal[last.from]
      /\ After[last.from][last.move] = g.at
  BY <1>1 DEF LegalLine
<1>5. back.from \in Position /\ last.from \in Position
  BY <1>2 DEF Ply
<1>6. /\ Turn[last.from] = Opposite(Turn[back.from])
      /\ Turn[g.at] = Opposite(Turn[last.from])
      /\ Turn[back.from] \in Color
      /\ back.from \in DeadMaterial => g.at \in DeadMaterial
  BY <1>3, <1>4, <1>5, RulesAssumption
<1>7. Turn[back.from] = Turn[g.at]
  BY <1>6 DEF Color, Opposite
<1>8. ~Terminal(back.from)
  BY <1>3, <1>6 DEF Terminal
<1>9. /\ path \in Seq(Ply) /\ Len(path) = n
      /\ \A i \in 1..n : path[i] = g.path[i]
  BY <1>1
<1>10. LegalLine(back.from, path)
  <2>. SUFFICES ASSUME NEW i \in 1..n
                PROVE  /\ path[i].move \in Legal[path[i].from]
                       /\ After[path[i].from][path[i].move] =
                            IF i = n THEN back.from ELSE path[i + 1].from
    BY <1>9 DEF LegalLine
  <2>1. i \in 1..Len(g.path) /\ i # Len(g.path) /\ path[i] = g.path[i]
    BY <1>1, <1>9
  <2>2. /\ g.path[i].move \in Legal[g.path[i].from]
        /\ After[g.path[i].from][g.path[i].move] = g.path[i + 1].from
    BY <2>1 DEF LegalLine
  <2>3. CASE i = n
    BY <2>1, <2>2, <2>3
  <2>4. CASE i # n
    <3>1. i + 1 \in 1..n
      BY <1>1, <2>4
    <3>. QED
      BY <1>9, <2>1, <2>2, <2>4, <3>1
  <2>. QED
    BY <2>3, <2>4
<1>11. /\ WithoutTurn(g).at = back.from /\ WithoutTurn(g).path = path
       /\ WithoutTurn(g).color = g.color /\ WithoutTurn(g).status = g.status
       /\ WithoutTurn(g) \in LiveGame
  BY <1>1, <1>5, <1>9 DEF WithoutTurn, LiveGame
<1>. QED
  BY <1>7, <1>8, <1>10, <1>11

-----------------------------------------------------------------------------
(***************************************************************************)
(* What the parts of an action do to the invariant.                        *)
(***************************************************************************)

\* A committed operation: the new snapshot is settled, the engine is kept
\* exactly if the game goes on, and every stream is told.
LEMMA CommitKeepsInv ==
  ASSUME TypeOK, StreamInv,
         published = NoGame \/ IsPlayable(published),
         NEW g \in LiveGame, Settled(g),
         NEW state \in {"running", "exited"},
         NEW queue \in Seq(Position), NEW lines \in Seq(Answer),
         Commit(g), KeepEngine(g, state, queue, lines)
  PROVE  IInv'
<1>. g # NoGame
  BY NoGameAssumption
<1>1. /\ live' = g /\ published' = g /\ op' = "idle" /\ original' = NoGame
      /\ sent' = FALSE /\ signalDue' = TRUE
      /\ UNCHANGED <<unseenSignal, refreshDue, listed>>
      /\ stream' = [s \in Stream |->
                      IF stream[s].state \in {"subscribed", "open"}
                      THEN [stream[s] EXCEPT !.unseen = TRUE]
                      ELSE stream[s]]
  BY DEF Commit, EndOperation, Publish, catalogVars
<1>2. /\ engine' \in {"none", "running", "exited"}
      /\ IsPlayable(g) <=> engine' # "none"
      /\ asked' \in Seq(Position) /\ output' \in Seq(Answer)
  BY DEF KeepEngine
<1>3. \A s \in Stream : stream'[s] \in StreamState
  BY <1>1 DEF TypeOK, StreamState
<1>4. TypeOK'
  BY <1>1, <1>2, <1>3 DEF TypeOK
<1>5. StreamInv'
  <2>. SUFFICES ASSUME NEW s \in Stream
                PROVE  /\ stream'[s].state \in {"subscribed", "open", "ended"} =>
                            published' # NoGame
                       /\ stream'[s].state = "open" /\ ~stream'[s].unseen =>
                            stream'[s].shown = published'
                       /\ stream'[s].state = "ended" =>
                            /\ stream'[s].shown = published'
                            /\ ~IsPlayable(published')
    BY DEF StreamInv, IsPlayable
  <2>1. stream[s] \in StreamState
    BY DEF TypeOK
  <2>2. CASE stream[s].state \in {"subscribed", "open"}
    BY <1>1, <2>1, <2>2 DEF StreamState
  <2>3. CASE stream[s].state \notin {"subscribed", "open"}
    \* It is not "ended" either: a game that is still published as playable,
    \* or not at all, has no ended streams.
    BY <1>1, <2>1, <2>3 DEF StreamState, StreamInv
  <2>. QED
    BY <2>2, <2>3
<1>6. PublishedInv' /\ IdleInv' /\ CreateInv' /\ MoveInv' /\ TakeBackNeverWaits'
  BY <1>1, <1>2 DEF PublishedInv, IdleInv, CreateInv, MoveInv,
     TakeBackNeverWaits, Settled, Sound, IsPlayable
<1>. QED
  BY <1>4, <1>5, <1>6 DEF IInv

\* A failed operation: what was waiting is dropped, and the game is again the
\* published one.
LEMMA RollBackKeepsInv ==
  ASSUME IInv, op # "idle", NEW lines \in Seq(Answer), RollBack(lines)
  PROVE  IInv'
<1>1. /\ op' = "idle" /\ original' = NoGame /\ sent' = FALSE
      /\ UNCHANGED <<published, stream, signalDue, unseenSignal, refreshDue, listed>>
  BY DEF RollBack, EndOperation, catalogVars
<1>2. CASE op = "create"
  <2>1. /\ live' = NoGame /\ engine' = "none" /\ asked' = <<>> /\ output' = <<>>
    BY <1>2 DEF RollBack
  <2>2. published = NoGame
    BY <1>2 DEF IInv, CreateInv
  <2>3. TypeOK'
    <3>1. asked' \in Seq(Position) /\ output' \in Seq(Answer)
      BY <2>1
    <3>. QED
      BY <1>1, <2>1, <3>1 DEF IInv, TypeOK
  <2>4. StreamInv' /\ PublishedInv'
    BY <1>1, <2>2 DEF IInv, StreamInv, PublishedInv, IsPlayable
  <2>5. IdleInv'
    BY <1>1, <2>1, <2>2 DEF IdleInv
  <2>. QED
    BY <1>1, <2>3, <2>4, <2>5 DEF IInv, TakeBackNeverWaits, CreateInv, MoveInv
<1>3. CASE op = "move"
  <2>1. /\ live' = original /\ engine' = engine /\ asked' = asked
        /\ output' = lines
    BY <1>3 DEF RollBack
  <2>2. original = published /\ IsPlayable(published) /\ engine # "none"
    BY <1>3 DEF IInv, MoveInv
  <2>3. TypeOK'
    BY <1>1, <2>1 DEF IInv, TypeOK
  <2>4. StreamInv' /\ PublishedInv'
    BY <1>1 DEF IInv, StreamInv, PublishedInv, Settled, Sound, IsPlayable
  <2>5. IdleInv'
    BY <1>1, <2>1, <2>2 DEF IdleInv, IsPlayable
  <2>. QED
    BY <1>1, <2>3, <2>4, <2>5 DEF IInv, TakeBackNeverWaits, CreateInv, MoveInv
<1>. QED
  BY <1>2, <1>3 DEF IInv, TypeOK, TakeBackNeverWaits

\* The snapshot after a legal move in a settled, playable game: either it ends
\* the game or the engine has to answer.
LEMMA AfterPlayersMove ==
  ASSUME NEW g \in LiveGame, Settled(g), IsPlayable(g),
         NEW m \in Legal[g.at]
  PROVE  LET h == UpdateTerminal(WithMove(g, m)) IN
           /\ h \in LiveGame
           /\ Sound(h)
           /\ IsPlayable(h) => NeedsReply(h)
<1>. DEFINE w == WithMove(g, m)
            h == UpdateTerminal(w)
<1>1. /\ w \in LiveGame /\ w.color = g.color
      /\ LegalLine(w.at, w.path) /\ Turn[w.at] = Opposite(Turn[g.at])
  BY MoveExtendsLine DEF Settled, Sound
<1>2. /\ h \in LiveGame /\ h.at = w.at /\ h.path = w.path /\ h.color = w.color
      /\ IsPlayable(h) => ~Terminal(w.at)
  BY <1>1, Adjudication
<1>3. Turn[g.at] = g.color
  BY DEF Settled
<1>. QED
  BY <1>1, <1>2, <1>3 DEF Sound, NeedsReply

\* The snapshot after the engine's legal answer is settled.
LEMMA AfterReply ==
  ASSUME NEW g \in LiveGame, Sound(g), NeedsReply(g), NEW m \in Legal[g.at]
  PROVE  LET h == UpdateTerminal(WithMove(g, m)) IN
           h \in LiveGame /\ Settled(h)
<1>. DEFINE w == WithMove(g, m)
            h == UpdateTerminal(w)
<1>1. /\ w \in LiveGame /\ w.color = g.color
      /\ LegalLine(w.at, w.path) /\ Turn[w.at] = Opposite(Turn[g.at])
  BY MoveExtendsLine DEF Sound
<1>2. /\ h \in LiveGame /\ h.at = w.at /\ h.path = w.path /\ h.color = w.color
      /\ IsPlayable(h) => ~Terminal(w.at)
  BY <1>1, Adjudication
<1>3. Turn[g.at] = Opposite(g.color) /\ g.color \in Color
  BY DEF NeedsReply, LiveGame
<1>4. Turn[w.at] = g.color
  BY <1>1, <1>3 DEF Color, Opposite
<1>. QED
  BY <1>1, <1>2, <1>4 DEF Settled, Sound

\* The opening as create() adjudicates it.
LEMMA AfterOpening ==
  ASSUME NEW o \in Openings, NEW c \in Color
  PROVE  LET h == UpdateTerminal(Opened(o, c)) IN
           /\ h \in LiveGame
           /\ Sound(h)
           /\ ~NeedsReply(h) => Settled(h)
<1>. DEFINE g == Opened(o, c)
            h == UpdateTerminal(g)
<1>1. /\ g \in LiveGame /\ g.at = o.at /\ g.path = o.path /\ g.color = c
      /\ LegalLine(g.at, g.path)
  BY OpeningsAssumption DEF Opened, LiveGame, Status
<1>2. /\ h \in LiveGame /\ h.at = g.at /\ h.path = g.path /\ h.color = g.color
      /\ IsPlayable(h) => ~Terminal(g.at)
  BY <1>1, Adjudication
<1>3. Turn[h.at] \in Color /\ h.color \in Color
  BY <1>2, RulesAssumption DEF LiveGame
<1>4. ~NeedsReply(h) /\ IsPlayable(h) => Turn[h.at] = h.color
  BY <1>3 DEF NeedsReply, Color, Opposite
<1>. QED
  BY <1>1, <1>2, <1>4 DEF Sound, Settled

-----------------------------------------------------------------------------
(***************************************************************************)
(* One lemma per group of actions.                                         *)
(***************************************************************************)

LEMMA CreateKeepsInv ==
  ASSUME IInv, NEW o \in Openings, NEW c \in Color, Create(o, c)
  PROVE  IInv'
<1>. DEFINE g == UpdateTerminal(Opened(o, c))
<1>1. g \in LiveGame /\ Sound(g) /\ (~NeedsReply(g) => Settled(g))
  BY AfterOpening
<1>2. live = NoGame /\ op = "idle" /\ published = NoGame
  BY DEF Create, IInv, IdleInv
<1>3. CASE NeedsReply(g)
  <2>1. /\ live' = g /\ op' = "create" /\ original' = NoGame /\ sent' = TRUE
        /\ engine' = "running" /\ asked' = <<g.at>> /\ output' = <<>>
        /\ UNCHANGED <<published, stream, signalDue, unseenSignal, refreshDue, listed>>
    BY <1>3 DEF Create, catalogVars
  <2>2. g.at \in Position
    BY <1>1 DEF LiveGame
  <2>3. TypeOK'
    <3>1. asked' \in Seq(Position) /\ output' \in Seq(Answer)
      BY <2>1, <2>2
    <3>. QED
      BY <1>1, <1>2, <2>1, <3>1 DEF IInv, TypeOK
  <2>4. CreateInv'
    BY <1>2, <1>3, <2>1 DEF CreateInv, NeedsReply, IsPlayable
  <2>5. StreamInv' /\ PublishedInv'
    BY <1>2, <2>1 DEF IInv, StreamInv, PublishedInv, IsPlayable
  <2>. QED
    BY <2>1, <2>3, <2>4, <2>5 DEF IInv, TakeBackNeverWaits, IdleInv, MoveInv
<1>4. CASE ~NeedsReply(g)
  <2>1. Commit(g) /\ KeepEngine(g, "running", <<>>, <<>>)
    BY <1>4 DEF Create
  <2>2. <<>> \in Seq(Position) /\ <<>> \in Seq(Answer)
    OBVIOUS
  <2>3. TypeOK /\ StreamInv /\ Settled(g)
    BY <1>1, <1>4 DEF IInv
  <2>. QED
    BY <1>1, <1>2, <2>1, <2>2, <2>3, CommitKeepsInv
<1>. QED
  BY <1>3, <1>4

\* What holds when an operation on an existing playable game begins.
LEMMA ReadyForOperation ==
  ASSUME IInv, live # NoGame, op = "idle", IsPlayable(live)
  PROVE  /\ live \in LiveGame /\ live = published
         /\ Settled(live)
         /\ engine \in {"running", "exited"}
         /\ asked \in Seq(Position) /\ output \in Seq(Answer)
BY DEF IInv, TypeOK, IdleInv, PublishedInv

LEMMA PlayMoveKeepsInv ==
  ASSUME IInv, NEW m \in Move, NEW offerDraw \in BOOLEAN,
         PlayMove(m, offerDraw)
  PROVE  IInv'
<1>1. /\ live # NoGame /\ op = "idle" /\ IsPlayable(live)
      /\ m \in Legal[live.at]
  BY DEF PlayMove
<1>2. /\ live \in LiveGame /\ live = published
      /\ Settled(live)
      /\ engine \in {"running", "exited"}
      /\ asked \in Seq(Position) /\ output \in Seq(Answer)
  BY <1>1, ReadyForOperation
<1>3. CASE offerDraw
  <2>. DEFINE g == Finish(WithMove(live, m), "draw", "none")
  <2>1. Commit(g) /\ KeepEngine(g, engine, asked, output)
    BY <1>3 DEF PlayMove
  <2>2. /\ WithMove(live, m) \in LiveGame
        /\ LegalLine(WithMove(live, m).at, WithMove(live, m).path)
    BY <1>1, <1>2, MoveExtendsLine DEF Settled, Sound
  <2>3. /\ g \in LiveGame /\ ~IsPlayable(g)
        /\ g.at = WithMove(live, m).at /\ g.path = WithMove(live, m).path
    BY <2>2 DEF Finish, LiveGame, Status, IsPlayable
  <2>4. Settled(g)
    BY <2>2, <2>3 DEF Settled, Sound
  <2>. QED
    BY <1>1, <1>2, <2>1, <2>3, <2>4, CommitKeepsInv DEF IInv
<1>4. CASE ~offerDraw
  <2>. DEFINE g == UpdateTerminal(WithMove(live, m))
  <2>1. ReplyOrCommit("move", g)
    BY <1>4 DEF PlayMove
  <2>2. g \in LiveGame /\ Sound(g) /\ (IsPlayable(g) => NeedsReply(g))
    BY <1>1, <1>2, AfterPlayersMove
  <2>3. CASE NeedsReply(g)
    <3>1. AskEngine("move", g)
      BY <2>1, <2>3 DEF ReplyOrCommit
    <3>2. /\ live' = g /\ op' = "move" /\ original' = live
          /\ sent' = (IsPlayable(g) /\ engine = "running")
          /\ UNCHANGED <<published, stream, signalDue, unseenSignal, refreshDue, listed>>
      BY <3>1 DEF AskEngine, catalogVars
    <3>3. g.at \in Position /\ IsPlayable(g)
      BY <2>2, <2>3 DEF LiveGame, NeedsReply
    <3>4. /\ engine' = engine /\ output' = output
          /\ asked' = IF engine = "running" THEN Append(asked, g.at) ELSE asked
      BY <3>1, <3>3 DEF AskEngine, KeepEngine
    <3>5. asked' \in Seq(Position)
      BY <1>2, <3>3, <3>4
    <3>6. TypeOK'
      BY <1>2, <2>2, <3>2, <3>4, <3>5 DEF IInv, TypeOK
    <3>7. MoveInv'
      BY <1>1, <1>2, <2>3, <3>2, <3>4 DEF MoveInv, IsPlayable, NeedsReply
    <3>8. StreamInv' /\ PublishedInv'
      BY <3>2 DEF IInv, StreamInv, PublishedInv, Settled, Sound, IsPlayable
    <3>. QED
      BY <3>2, <3>6, <3>7, <3>8 DEF IInv, TakeBackNeverWaits, IdleInv, CreateInv
  <2>4. CASE ~NeedsReply(g)
    <3>1. Commit(g) /\ KeepEngine(g, engine, asked, output)
      BY <2>1, <2>4 DEF ReplyOrCommit
    <3>2. Settled(g)
      BY <2>2, <2>4 DEF Settled
    <3>. QED
      BY <1>1, <1>2, <2>2, <3>1, <3>2, CommitKeepsInv DEF IInv
  <2>. QED
    BY <2>3, <2>4
<1>. QED
  BY <1>3, <1>4

LEMMA EndGameKeepsInv ==
  ASSUME IInv,
         NEW status \in Status \ {"started"}, NEW winner \in Color \cup {"none"},
         winner # "none" <=> status \in {"mate", "resign"},
         EndGame(status, winner)
  PROVE  IInv'
<1>. DEFINE g == Finish(live, status, winner)
<1>1. live # NoGame /\ op = "idle" /\ IsPlayable(live)
  BY DEF EndGame
<1>2. /\ live \in LiveGame /\ live = published /\ Settled(live)
      /\ engine \in {"running", "exited"}
      /\ asked \in Seq(Position) /\ output \in Seq(Answer)
  BY <1>1, ReadyForOperation
<1>3. Commit(g) /\ KeepEngine(g, engine, asked, output)
  BY DEF EndGame
<1>4. /\ g \in LiveGame /\ ~IsPlayable(g) /\ g.at = live.at
      /\ g.path = live.path
  BY <1>2 DEF Finish, LiveGame, IsPlayable
<1>5. Settled(g)
  BY <1>2, <1>4 DEF Settled, Sound
<1>. QED
  BY <1>1, <1>2, <1>3, <1>4, <1>5, CommitKeepsInv DEF IInv

\* The game of a settled snapshot without its last turn is settled too, and
\* leaves nothing for the engine to answer.
LEMMA AfterTakeBack ==
  ASSUME NEW g \in LiveGame, Settled(g), IsPlayable(g), Len(g.path) >= 2
  PROVE  /\ WithoutTurn(g) \in LiveGame
         /\ Settled(WithoutTurn(g))
         /\ ~NeedsReply(WithoutTurn(g))
<1>1. /\ WithoutTurn(g) \in LiveGame
      /\ WithoutTurn(g).color = g.color
      /\ LegalLine(WithoutTurn(g).at, WithoutTurn(g).path)
      /\ ~Terminal(WithoutTurn(g).at)
      /\ Turn[WithoutTurn(g).at] = Turn[g.at]
  BY TakeBackShortensLine DEF Settled, Sound
<1>2. Turn[g.at] = g.color /\ g.color \in Color
  BY DEF Settled, LiveGame
<1>. QED
  BY <1>1, <1>2 DEF Settled, Sound, NeedsReply, Color, Opposite

LEMMA TakeBackKeepsInv ==
  ASSUME IInv, TakeBack
  PROVE  IInv'
<1>1. live # NoGame /\ op = "idle" /\ IsPlayable(live) /\ Len(live.path) >= 2
  BY DEF TakeBack
<1>2. /\ live \in LiveGame /\ live = published /\ Settled(live)
      /\ engine \in {"running", "exited"}
      /\ asked \in Seq(Position) /\ output \in Seq(Answer)
  BY <1>1, ReadyForOperation
<1>3. /\ WithoutTurn(live) \in LiveGame
      /\ Settled(WithoutTurn(live))
      /\ ~NeedsReply(WithoutTurn(live))
  BY <1>1, <1>2, AfterTakeBack
<1>4. /\ Commit(WithoutTurn(live))
      /\ KeepEngine(WithoutTurn(live), engine, asked, output)
  BY <1>3 DEF TakeBack, ReplyOrCommit
<1>. QED
  BY <1>1, <1>2, <1>3, <1>4, CommitKeepsInv DEF IInv

LEMMA DeclineKeepsInv ==
  ASSUME IInv, Decline
  PROVE  IInv'
<1>1. live # NoGame /\ op = "idle" /\ IsPlayable(live)
  BY DEF Decline
<1>2. /\ live \in LiveGame /\ live = published /\ Settled(live)
      /\ engine \in {"running", "exited"}
      /\ asked \in Seq(Position) /\ output \in Seq(Answer)
  BY <1>1, ReadyForOperation
<1>3. Commit(live) /\ KeepEngine(live, engine, asked, output)
  BY <1>1 DEF Decline, KeepEngine
<1>. QED
  BY <1>1, <1>2, <1>3, CommitKeepsInv DEF IInv

\* The operation that waits is a create or a move, and its tentative snapshot
\* awaits the engine's answer.
LEMMA WaitingForReply ==
  ASSUME IInv, op # "idle"
  PROVE  /\ live \in LiveGame /\ Sound(live) /\ NeedsReply(live)
         /\ engine \in {"running", "exited"}
         /\ published = NoGame \/ IsPlayable(published)
<1>1. engine \in {"none", "running", "exited"}
  BY DEF IInv, TypeOK
<1>2. CASE op = "create"
  <2>1. PICK o \in Openings, c \in Color :
          live = UpdateTerminal(Opened(o, c)) /\ NeedsReply(live)
    BY <1>2 DEF IInv, CreateInv
  <2>2. published = NoGame /\ engine # "none"
    BY <1>2 DEF IInv, CreateInv
  <2>. QED
    BY <1>1, <2>1, <2>2, AfterOpening
<1>3. CASE op = "move"
  <2>1. PICK m \in Legal[published.at] :
          /\ live = UpdateTerminal(WithMove(published, m))
          /\ NeedsReply(live)
    BY <1>3 DEF IInv, MoveInv
  <2>2. /\ published # NoGame /\ IsPlayable(published) /\ engine # "none"
        /\ published \in LiveGame /\ Settled(published)
    BY <1>3 DEF IInv, MoveInv, PublishedInv, TypeOK
  <2>. QED
    BY <1>1, <2>1, <2>2, AfterPlayersMove
<1>. QED
  BY <1>2, <1>3 DEF IInv, TypeOK, TakeBackNeverWaits

LEMMA CompletionKeepsInv ==
  ASSUME IInv, Completion
  PROVE  IInv'
<1>1. output \in Seq(Answer) /\ asked \in Seq(Position)
  BY DEF IInv, TypeOK
<1>2. output # <<>> => Tail(output) \in Seq(Answer) /\ Head(output) \in Answer
  BY <1>1
<1>3. CASE ReplyPlayed
  <2>. DEFINE g == UpdateTerminal(WithMove(live, Head(output).best))
  <2>1. /\ op # "idle" /\ output # <<>>
        /\ Head(output).best \in Legal[live.at]
        /\ Commit(g) /\ KeepEngine(g, engine, asked, Tail(output))
    BY <1>3 DEF ReplyPlayed
  <2>2. /\ live \in LiveGame /\ Sound(live) /\ NeedsReply(live)
        /\ engine \in {"running", "exited"}
        /\ published = NoGame \/ IsPlayable(published)
    BY <2>1, WaitingForReply
  <2>3. g \in LiveGame /\ Settled(g)
    BY <2>1, <2>2, AfterReply
  <2>. QED
    BY <1>1, <1>2, <2>1, <2>2, <2>3, CommitKeepsInv DEF IInv
<1>4. CASE ReplyRejected
  BY <1>2, <1>4, RollBackKeepsInv DEF ReplyRejected
<1>5. CASE SearchFails
  BY <1>1, <1>5, RollBackKeepsInv DEF SearchFails
<1>. QED
  BY <1>3, <1>4, <1>5 DEF Completion

\* The engine touches its pipe and its own life, never whether there is one.
LEMMA ProcessKeepsInv ==
  ASSUME IInv, Process
  PROVE  IInv'
<1>1. /\ engine = "running"
      /\ engine' \in {"running", "exited"}
      /\ asked' \in Seq(Position) /\ output' \in Seq(Answer)
      /\ UNCHANGED <<live, op, original, sent, published, stream, signalDue,
                    unseenSignal, refreshDue, listed>>
  <2>0. asked \in Seq(Position) /\ output \in Seq(Answer)
    BY DEF IInv, TypeOK
  <2>1. CASE EngineExits
    BY <2>0, <2>1 DEF EngineExits, catalogVars
  <2>2. CASE \E m \in Move : EngineAnswers(m)
    <3>1. PICK m \in Move : EngineAnswers(m)
      BY <2>2
    <3>2. Head(asked) \in Position /\ Tail(asked) \in Seq(Position)
      BY <2>0, <3>1 DEF EngineAnswers
    <3>3. [searched |-> Head(asked), best |-> m] \in Answer
      BY <3>2 DEF Answer
    <3>. QED
      BY <2>0, <3>1, <3>2, <3>3 DEF EngineAnswers, catalogVars
  <2>. QED
    BY <2>1, <2>2 DEF Process
<1>2. TypeOK'
  BY <1>1 DEF IInv, TypeOK
<1>3. StreamInv' /\ PublishedInv' /\ TakeBackNeverWaits'
  BY <1>1 DEF IInv, StreamInv, PublishedInv, Settled, Sound, IsPlayable,
     TakeBackNeverWaits
<1>4. IdleInv'
  BY <1>1 DEF IInv, IdleInv, IsPlayable
<1>5. CreateInv'
  <2>. SUFFICES ASSUME op' = "create" PROVE CreateInv'
    BY DEF CreateInv
  <2>1. published = NoGame
    BY <1>1 DEF IInv, CreateInv
  <2>2. PICK o \in Openings, c \in Color :
          live = UpdateTerminal(Opened(o, c)) /\ NeedsReply(live)
    BY <1>1 DEF IInv, CreateInv
  <2>. QED
    BY <1>1, <2>1, <2>2 DEF CreateInv, NeedsReply, IsPlayable
<1>6. MoveInv'
  <2>. SUFFICES ASSUME op' = "move" PROVE MoveInv'
    BY DEF MoveInv
  <2>1. original = published /\ published # NoGame /\ IsPlayable(published)
    BY <1>1 DEF IInv, MoveInv
  <2>2. PICK m \in Legal[published.at] :
          /\ live = UpdateTerminal(WithMove(published, m))
          /\ NeedsReply(live)
    BY <1>1 DEF IInv, MoveInv
  <2>. QED
    BY <1>1, <2>1, <2>2 DEF MoveInv, NeedsReply, IsPlayable
<1>. QED
  BY <1>2, <1>3, <1>4, <1>5, <1>6 DEF IInv

\* A step that leaves the game, the engine and the channel alone keeps what the
\* invariant says of them.
LEMMA GameUntouched ==
  ASSUME IInv, UNCHANGED <<gameVars, published>>
  PROVE  /\ PublishedInv' /\ IdleInv' /\ CreateInv' /\ MoveInv'
         /\ TakeBackNeverWaits'
<1>1. UNCHANGED <<live, engine, asked, output, op, original, sent, published>>
  BY DEF gameVars
<1>2. PublishedInv' /\ IdleInv' /\ TakeBackNeverWaits'
  BY <1>1 DEF IInv, PublishedInv, Settled, Sound, IsPlayable, IdleInv,
     TakeBackNeverWaits
<1>3. CreateInv'
  <2>. SUFFICES ASSUME op' = "create" PROVE CreateInv'
    BY DEF CreateInv
  <2>1. published = NoGame /\ engine # "none"
    BY <1>1 DEF IInv, CreateInv
  <2>2. PICK o \in Openings, c \in Color :
          live = UpdateTerminal(Opened(o, c)) /\ NeedsReply(live)
    BY <1>1 DEF IInv, CreateInv
  <2>. QED
    BY <1>1, <2>1, <2>2 DEF CreateInv, NeedsReply, IsPlayable
<1>4. MoveInv'
  <2>. SUFFICES ASSUME op' = "move" PROVE MoveInv'
    BY DEF MoveInv
  <2>1. /\ original = published /\ published # NoGame /\ IsPlayable(published)
        /\ engine # "none"
    BY <1>1 DEF IInv, MoveInv
  <2>2. PICK m \in Legal[published.at] :
          /\ live = UpdateTerminal(WithMove(published, m))
          /\ NeedsReply(live)
    BY <1>1 DEF IInv, MoveInv
  <2>. QED
    BY <1>1, <2>1, <2>2 DEF MoveInv, NeedsReply, IsPlayable
<1>. QED
  BY <1>2, <1>3, <1>4

\* A stream is opened only on a game whose mutex is free, hence published.
LEMMA StreamingKeepsInv ==
  ASSUME IInv, Streaming
  PROVE  IInv'
<1>0. PICK s \in Stream :
        \/ Subscribe(s)
        \/ \E c \in Color : EmitInitial(s, c)
        \/ EmitUpdate(s)
        \/ CancelStream(s)
  BY DEF Streaming
<1>1. UNCHANGED <<gameVars, published, signalDue, catalogVars>>
  BY <1>0 DEF Subscribe, EmitInitial, EmitUpdate, CancelStream
<1>2. /\ stream \in [Stream -> StreamState]
      /\ published \in LiveGame \cup {NoGame}
      /\ stream[s] \in StreamState
  BY DEF IInv, TypeOK
<1>. DEFINE Fits(t) ==
       /\ t \in StreamState
       /\ t.state \in {"subscribed", "open", "ended"} => published # NoGame
       /\ t.state = "open" /\ ~t.unseen => t.shown = published
       /\ t.state = "ended" => t.shown = published /\ ~IsPlayable(published)
<1>3. PICK t : stream' = [stream EXCEPT ![s] = t] /\ Fits(t)
  <2>1. CASE Subscribe(s)
    <3>1. published # NoGame
      BY <2>1 DEF Subscribe, IInv, IdleInv
    <3>2. Fits([state |-> "subscribed", unseen |-> FALSE, shown |-> NoGame])
      BY <3>1 DEF StreamState
    <3>. QED
      BY <2>1, <3>2 DEF Subscribe
  <2>2. ASSUME NEW c \in Color, EmitInitial(s, c)
        PROVE  \E t : stream' = [stream EXCEPT ![s] = t] /\ Fits(t)
    <3>1. published # NoGame /\ stream[s].state = "subscribed"
      BY <2>2 DEF EmitInitial, IInv, StreamInv
    <3>2. CASE published.color # c
      <4>1. Fits(Off)
        BY DEF StreamState, Off
      <4>. QED
        BY <2>2, <3>2, <4>1 DEF EmitInitial
    <3>3. CASE published.color = c
      <4>. DEFINE t == [stream[s] EXCEPT !.shown = published,
                          !.state = IF IsPlayable(published)
                                    THEN "open" ELSE "ended"]
      <4>1. Fits(t)
        BY <1>2, <3>1 DEF StreamState
      <4>2. stream' = [stream EXCEPT ![s] = t]
        BY <1>2, <2>2, <3>3 DEF EmitInitial
      <4>. QED
        BY <4>1, <4>2
    <3>. QED
      BY <3>2, <3>3
  <2>3. CASE EmitUpdate(s)
    <3>. DEFINE t == [state |-> IF IsPlayable(published) THEN "open" ELSE "ended",
                      unseen |-> FALSE, shown |-> published]
    <3>1. published # NoGame
      BY <2>3 DEF EmitUpdate, IInv, StreamInv
    <3>2. Fits(t)
      BY <1>2, <3>1 DEF StreamState
    <3>. QED
      BY <2>3, <3>2 DEF EmitUpdate
  <2>4. CASE CancelStream(s)
    <3>1. Fits(Off)
      BY DEF StreamState, Off
    <3>. QED
      BY <2>4, <3>1 DEF CancelStream
  <2>. QED
    BY <1>0, <2>1, <2>2, <2>3, <2>4
<1>4. TypeOK'
  BY <1>1, <1>2, <1>3 DEF IInv, TypeOK, gameVars, catalogVars
<1>5. StreamInv'
  <2>. SUFFICES ASSUME NEW r \in Stream
                PROVE  /\ stream'[r].state \in {"subscribed", "open", "ended"} =>
                            published' # NoGame
                       /\ stream'[r].state = "open" /\ ~stream'[r].unseen =>
                            stream'[r].shown = published'
                       /\ stream'[r].state = "ended" =>
                            /\ stream'[r].shown = published'
                            /\ ~IsPlayable(published')
    BY DEF StreamInv, IsPlayable
  <2>1. published' = published
    BY <1>1
  <2>2. CASE r = s
    BY <1>2, <1>3, <2>1, <2>2
  <2>3. CASE r # s
    BY <1>2, <1>3, <2>1, <2>3 DEF IInv, StreamInv
  <2>. QED
    BY <2>2, <2>3
<1>. QED
  BY <1>1, <1>4, <1>5, GameUntouched DEF IInv

LEMMA CatalogKeepsInv ==
  ASSUME IInv, Catalog
  PROVE  IInv'
<1>1. /\ UNCHANGED <<gameVars, published, stream>>
      /\ signalDue' \in BOOLEAN /\ unseenSignal' \in BOOLEAN
      /\ refreshDue' \in BOOLEAN /\ listed' \in BOOLEAN
  BY DEF IInv, TypeOK, Catalog, SignalCatalog, CatalogChanged, ListGames
<1>2. TypeOK'
  BY <1>1 DEF IInv, TypeOK, gameVars
<1>3. StreamInv'
  BY <1>1 DEF IInv, StreamInv, IsPlayable
<1>. QED
  BY <1>1, <1>2, <1>3, GameUntouched DEF IInv

-----------------------------------------------------------------------------
(***************************************************************************)
(* The theorems.                                                           *)
(***************************************************************************)

LEMMA InitEstablishesInv == Init => IInv
<1>. SUFFICES ASSUME Init PROVE IInv
  OBVIOUS
<1>1. TypeOK
  <2>1. asked \in Seq(Position) /\ output \in Seq(Answer)
    BY DEF Init
  <2>2. stream \in [Stream -> StreamState]
    BY DEF Init, Off, StreamState
  <2>. QED
    BY <2>1, <2>2 DEF Init, TypeOK
<1>2. StreamInv
  BY DEF Init, Off, StreamInv
<1>. QED
  BY <1>1, <1>2 DEF Init, IInv, TakeBackNeverWaits, PublishedInv, IdleInv,
     CreateInv, MoveInv

LEMMA StutterKeepsInv ==
  ASSUME IInv, UNCHANGED vars
  PROVE  IInv'
<1>1. UNCHANGED <<gameVars, published, stream, signalDue, catalogVars>>
  BY DEF vars
<1>2. TypeOK'
  BY <1>1 DEF IInv, TypeOK, gameVars, catalogVars
<1>3. StreamInv'
  BY <1>1 DEF IInv, StreamInv, IsPlayable
<1>. QED
  BY <1>1, <1>2, <1>3, GameUntouched DEF IInv

LEMMA NextKeepsInv ==
  ASSUME IInv, [Next]_vars
  PROVE  IInv'
<1>1. ASSUME Operation PROVE IInv'
  <2>1. ASSUME NEW o \in Openings, NEW c \in Color, Create(o, c) PROVE IInv'
    BY <2>1, CreateKeepsInv
  <2>2. ASSUME NEW m \in Move, NEW d \in BOOLEAN, PlayMove(m, d) PROVE IInv'
    BY <2>2, PlayMoveKeepsInv
  <2>3. ASSUME Abort PROVE IInv'
    BY <2>3, EndGameKeepsInv DEF Abort, Status
  <2>4. ASSUME Resign PROVE IInv'
    <3>1. Opposite(live.color) \in Color /\ Opposite(live.color) # "none"
      BY DEF Opposite, Color
    <3>. QED
      BY <2>4, <3>1, EndGameKeepsInv DEF Resign, Status
  <2>5. ASSUME AgreeDraw PROVE IInv'
    BY <2>5, EndGameKeepsInv DEF AgreeDraw, Status
  <2>. QED
    BY <1>1, <2>1, <2>2, <2>3, <2>4, <2>5, TakeBackKeepsInv, DeclineKeepsInv
    DEF Operation
<1>. QED
  BY <1>1, CompletionKeepsInv, ProcessKeepsInv, StreamingKeepsInv,
     CatalogKeepsInv, StutterKeepsInv DEF Next

\* IInv holds in every reachable state.
THEOREM Invariant == Spec => []IInv
<1>1. Init => IInv
  BY InitEstablishesInv
<1>2. IInv /\ [Next]_vars => IInv'
  BY NextKeepsInv
<1>. QED
  BY <1>1, <1>2, PTL DEF Spec

\* Every variable of a local game, its engine, its streams and the catalog
\* stays within its type: in particular the game behind the mutex is always a
\* snapshot, and the pipe holds answers only.
THEOREM TypeCorrect == Spec => []TypeOK
<1>1. IInv => TypeOK
  BY DEF IInv
<1>. QED
  BY <1>1, Invariant, PTL

\* With the mutex free, a playable game waits for its player and owns an
\* engine, and a finished game has released it, whatever failed before.
THEOREM EngineMatches == Spec => []EngineMatchesGame
<1>1. IInv => EngineMatchesGame
  BY DEF IInv, IdleInv, PublishedInv, Settled, EngineMatchesGame
<1>. QED
  BY <1>1, Invariant, PTL

\* With the mutex free, the watch channel holds the game itself: failed
\* operations leave nothing behind that watchers cannot see.
THEOREM NothingIsUnpublished == Spec => []NothingUnpublished
<1>1. IInv => NothingUnpublished
  BY DEF IInv, IdleInv, NothingUnpublished
<1>. QED
  BY <1>1, Invariant, PTL

\* A takeback, the one operation without a rollback, never needs the engine.
THEOREM TakeBackIsAtomic == Spec => []TakeBackNeverWaits
<1>1. IInv => TakeBackNeverWaits
  BY DEF IInv
<1>. QED
  BY <1>1, Invariant, PTL

\* The snapshot behind the mutex is sound even while an operation waits.
LEMMA LiveIsSound ==
  ASSUME IInv, live # NoGame
  PROVE  Sound(live)
<1>1. CASE op = "idle"
  BY <1>1 DEF IInv, IdleInv, PublishedInv, Settled
<1>2. CASE op # "idle"
  BY <1>2, WaitingForReply
<1>. QED
  BY <1>1, <1>2

\* Whatever the engine sends, late answers included, every line of the game is
\* legal move by move.
THEOREM LinesStayLegal == Spec => []LinesAreLegal
<1>1. IInv => LinesAreLegal
  BY LiveIsSound DEF IInv, PublishedInv, Settled, Sound, LinesAreLegal
<1>. QED
  BY <1>1, Invariant, PTL

\* A game that is still playable is not in a terminal position, also after a
\* takeback, which does not adjudicate.
THEOREM PlayableIsNotOver == Spec => []PlayableCanGoOn
<1>1. IInv => PlayableCanGoOn
  BY LiveIsSound DEF IInv, PublishedInv, Settled, Sound, PlayableCanGoOn
<1>. QED
  BY <1>1, Invariant, PTL

\* A stream that is up to date shows the published snapshot and one that ended
\* has shown the end, however reads and publications interleave.
THEOREM StreamsAreComplete == Spec => []StreamsMissNothing
<1>1. IInv => StreamsMissNothing
  BY DEF IInv, StreamInv, StreamsMissNothing
<1>. QED
  BY <1>1, Invariant, PTL

=============================================================================
