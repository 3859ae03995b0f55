----------------------------- MODULE LocalGame -----------------------------
(***************************************************************************)
(* One local game of libchess-stockfish: the state behind its mutex, the    *)
(* UCI process it owns, the operations that hold the mutex while the engine *)
(* thinks, the watch channel it publishes to, the event streams that read   *)
(* the channel, and the catalog signal that makes clients list games again. *)
(*                                                                         *)
(* An operation runs on a blocking thread with the mutex held.  It is one   *)
(* step when it needs no engine reply, and otherwise two: `op` says which   *)
(* operation is waiting for the engine, and nothing else can take the mutex *)
(* until it is "idle" again.  The engine, the streams and the catalog run   *)
(* meanwhile.                                                              *)
(***************************************************************************)
EXTENDS Arena

CONSTANTS
  Stream,         \* live-game event streams
  MaxPipe         \* bound on the searches not yet answered plus unread answers

ASSUME PipeAssumption == MaxPipe \in Nat \ {0}

VARIABLES
  live,           \* LocalGame::live, NoGame until create() has built it
  engine,         \* LocalGame::engine: "none", "running" or "exited"
  asked,          \* positions sent with `go` that the engine has not answered
  output,         \* bestmove lines not yet received, oldest first
  op,             \* the operation that waits for a reply: "idle" if none
  original,       \* play_player_move's copy of `live`, for the rollback
  sent,           \* the waiting operation has written its `go`
  published,      \* the value of the watch channel LocalGame::updates
  stream,         \* per event stream, see StreamState
  signalDue,      \* an operation succeeded and has yet to signal the catalog
  unseenSignal,   \* the catalog watcher has a signal it has not received
  refreshDue,     \* it has, and has yet to call live_games
  listed          \* whether its last live_games answer held this game

gameVars == <<live, engine, asked, output, op, original, sent>>
catalogVars == <<unseenSignal, refreshDue, listed>>
vars == <<gameVars, published, stream, signalDue, catalogVars>>

\* A bestmove line.  `searched` is not on the wire: it records the position the
\* engine was asked about, which the receiver cannot see.
Answer == [searched: Position, best: Move]

StreamState ==
  [state: {"off", "subscribed", "open", "ended"},
   unseen: BOOLEAN,                          \* the receiver's `changed` flag
   shown: LiveGame \cup {NoGame}]            \* the last snapshot it delivered

Off == [state |-> "off", unseen |-> FALSE, shown |-> NoGame]

TypeOK ==
  /\ live \in LiveGame \cup {NoGame}
  /\ engine \in {"none", "running", "exited"}
  /\ asked \in Seq(Position)
  /\ output \in Seq(Answer)
  /\ op \in {"idle", "create", "move", "takeback"}
  /\ original \in LiveGame \cup {NoGame}
  /\ sent \in BOOLEAN
  /\ published \in LiveGame \cup {NoGame}
  /\ stream \in [Stream -> StreamState]
  /\ signalDue \in BOOLEAN
  /\ unseenSignal \in BOOLEAN
  /\ refreshDue \in BOOLEAN
  /\ listed \in BOOLEAN

Init ==
  /\ live = NoGame
  /\ engine = "none"
  /\ asked = <<>>
  /\ output = <<>>
  /\ op = "idle"
  /\ original = NoGame
  /\ sent = FALSE
  /\ published = NoGame
  /\ stream = [s \in Stream |-> Off]
  /\ signalDue = FALSE
  /\ unseenSignal = FALSE
  /\ refreshDue = FALSE
  /\ listed = FALSE

-----------------------------------------------------------------------------
(***************************************************************************)
(* Steps of an operation.                                                  *)
(***************************************************************************)

\* The guard of play_engine_if_needed.
NeedsReply(g) == IsPlayable(g) /\ Turn[g.at] = Opposite(g.color)

\* Mutant of KeepEngine: a finished game keeps its process.
KeepEngineAlways(g, state, queue, lines) ==
  engine' = state /\ asked' = queue /\ output' = lines

\* finish() drops the engine, and with it the pipe; otherwise both stay.
KeepEngine(g, state, queue, lines) ==
  /\ engine' = IF IsPlayable(g) THEN state ELSE "none"
  /\ asked' = IF IsPlayable(g) THEN queue ELSE <<>>
  /\ output' = IF IsPlayable(g) THEN lines ELSE <<>>

EndOperation ==
  /\ op' = "idle"
  /\ original' = NoGame
  /\ sent' = FALSE

\* Mutant of Publish: the value is stored and no receiver is woken.
PublishSilently(g) == published' = g /\ UNCHANGED stream

\* publish(): send_replace stores the snapshot and marks it unseen by every
\* receiver.
Publish(g) ==
  /\ published' = g
  /\ stream' = [s \in Stream |->
                  IF stream[s].state \in {"subscribed", "open"}
                  THEN [stream[s] EXCEPT !.unseen = TRUE]
                  ELSE stream[s]]

\* Mutant of Commit: no signal for the operation that ends the game.
CommitQuietly(g) ==
  /\ live' = g
  /\ EndOperation
  /\ Publish(g)
  /\ signalDue' = IsPlayable(g)
  /\ UNCHANGED catalogVars

\* The operation succeeds with `g`; its caller will signal the catalog.
Commit(g) ==
  /\ live' = g
  /\ EndOperation
  /\ Publish(g)
  /\ signalDue' = TRUE
  /\ UNCHANGED catalogVars

\* Mutant of AskEngine: the player's half of the turn is published at once.
AskEngineEagerly(kind, g) ==
  /\ live' = g
  /\ op' = kind
  /\ original' = live
  /\ sent' = (IsPlayable(g) /\ engine = "running")
  /\ KeepEngine(g, engine,
                IF engine = "running" THEN Append(asked, g.at) ELSE asked,
                output)
  /\ Publish(g)
  /\ UNCHANGED <<signalDue, catalogVars>>

\* play_engine_if_needed up to the `go`: the tentative state is in place and
\* the search is written to the engine, unless there is none to write to.
AskEngine(kind, g) ==
  /\ live' = g
  /\ op' = kind
  /\ original' = live
  /\ sent' = (IsPlayable(g) /\ engine = "running")
  /\ KeepEngine(g, engine,
                IF engine = "running" THEN Append(asked, g.at) ELSE asked,
                output)
  /\ UNCHANGED <<published, stream, signalDue, catalogVars>>

\* The rest of an operation whose tentative state is `g`.
ReplyOrCommit(kind, g) ==
  IF NeedsReply(g)
  THEN AskEngine(kind, g)
  ELSE Commit(g) /\ KeepEngine(g, engine, asked, output)

-----------------------------------------------------------------------------
(***************************************************************************)
(* Operations.                                                             *)
(***************************************************************************)

\* LocalGame::create with a request that validates: a fresh engine, the
\* adjudicated opening, and the engine's first move if it has it.
Create(o, c) ==
  LET g == UpdateTerminal(Opened(o, c)) IN
  /\ live = NoGame
  /\ op = "idle"
  /\ IF NeedsReply(g)
     THEN /\ live' = g
          /\ op' = "create"
          /\ original' = NoGame
          /\ sent' = TRUE
          /\ engine' = "running"
          /\ asked' = <<g.at>>
          /\ output' = <<>>
          /\ UNCHANGED <<published, stream, signalDue, catalogVars>>
     ELSE Commit(g) /\ KeepEngine(g, "running", <<>>, <<>>)

\* play_player_move past its guards.  With a draw offer the game ends at once.
PlayMove(m, offerDraw) ==
  /\ live # NoGame
  /\ op = "idle"
  /\ IsPlayable(live)
  /\ Turn[live.at] = live.color
  /\ m \in Legal[live.at]
  /\ offerDraw \/ Len(asked) + Len(output) < MaxPipe
  /\ IF offerDraw
     THEN LET g == Finish(WithMove(live, m), "draw", "none")
          IN  Commit(g) /\ KeepEngine(g, engine, asked, output)
     ELSE ReplyOrCommit("move", UpdateTerminal(WithMove(live, m)))

\* Mutant of EndGame: the guard on a playable game dropped.
EndGameAnytime(status, winner) ==
  /\ live # NoGame
  /\ op = "idle"
  /\ LET g == Finish(live, status, winner)
     IN  Commit(g) /\ KeepEngine(g, engine, asked, output)

\* perform_action, one action per arm that succeeds.  ClaimDraw and
\* ClaimVictory only return errors.
EndGame(status, winner) ==
  /\ live # NoGame
  /\ op = "idle"
  /\ IsPlayable(live)
  /\ LET g == Finish(live, status, winner)
     IN  Commit(g) /\ KeepEngine(g, engine, asked, output)

Abort == EndGame("aborted", "none")
Resign == EndGame("resign", Opposite(live.color))
AgreeDraw == EndGame("draw", "none")

\* OfferTakeback and AcceptTakeback.
TakeBack ==
  /\ live # NoGame
  /\ op = "idle"
  /\ IsPlayable(live)
  /\ Len(live.path) >= 2
  /\ ReplyOrCommit("takeback", WithoutTurn(live))

\* DeclineDraw and DeclineTakeback change nothing and publish it.
Decline ==
  /\ live # NoGame
  /\ op = "idle"
  /\ IsPlayable(live)
  /\ Commit(live)
  /\ UNCHANGED <<engine, asked, output>>

\* Mutant of ReplyPlayed: the engine's move is not validated.
ReplyPlayedUnchecked ==
  /\ op # "idle"
  /\ sent
  /\ output # <<>>
  /\ LET g == UpdateTerminal(WithMove(live, Head(output).best))
     IN  Commit(g) /\ KeepEngine(g, engine, asked, Tail(output))

\* The search returns the first bestmove line in the pipe and the move in it
\* is legal: it is played, the position adjudicated and the result published.
ReplyPlayed ==
  /\ op # "idle"
  /\ sent
  /\ output # <<>>
  /\ Head(output).best \in Legal[live.at]
  /\ LET g == UpdateTerminal(WithMove(live, Head(output).best))
     IN  Commit(g) /\ KeepEngine(g, engine, asked, Tail(output))

\* Mutant of RollBack: the copy is not restored.
RollBackNothing(lines) ==
  /\ UNCHANGED <<live, engine, asked>>
  /\ output' = lines
  /\ EndOperation
  /\ UNCHANGED <<published, stream, signalDue, catalogVars>>

\* How an operation that returns an error leaves the game.  play_player_move
\* restores its copy, create() drops everything it built, and a takeback has
\* no copy to restore.
RollBack(lines) ==
  /\ CASE op = "move" -> /\ live' = original
                         /\ UNCHANGED <<engine, asked>>
                         /\ output' = lines
       [] op = "create" -> /\ live' = NoGame
                           /\ engine' = "none"
                           /\ asked' = <<>>
                           /\ output' = <<>>
       [] op = "takeback" -> /\ UNCHANGED <<live, engine, asked>>
                             /\ output' = lines
  /\ EndOperation
  /\ UNCHANGED <<published, stream, signalDue, catalogVars>>

\* The line that arrived names a move that is not legal here.
ReplyRejected ==
  /\ op # "idle"
  /\ sent
  /\ output # <<>>
  /\ Head(output).best \notin Legal[live.at]
  /\ RollBack(Tail(output))

\* Mutant of SearchFails: no deadline.
SearchFailsOnExit ==
  /\ op # "idle"
  /\ engine = "exited"
  /\ RollBack(output)

\* The deadline passes, or there is no process to write to or read from.  A
\* search that was written stays with the engine.
SearchFails ==
  /\ op # "idle"
  /\ RollBack(output)

-----------------------------------------------------------------------------
(***************************************************************************)
(* The engine process: it answers searches in the order they were written,  *)
(* each with a legal move of the position it was given, and may exit.       *)
(***************************************************************************)

EngineAnswers(m) ==
  /\ engine = "running"
  /\ asked # <<>>
  /\ m \in Legal[Head(asked)]
  /\ output' = Append(output, [searched |-> Head(asked), best |-> m])
  /\ asked' = Tail(asked)
  /\ UNCHANGED <<live, engine, op, original, sent,
                 published, stream, signalDue, catalogVars>>

EngineExits ==
  /\ engine = "running"
  /\ engine' = "exited"
  /\ asked' = <<>>
  /\ UNCHANGED <<live, output, op, original, sent,
                 published, stream, signalDue, catalogVars>>

-----------------------------------------------------------------------------
(***************************************************************************)
(* Event streams: watch_live_game.                                         *)
(***************************************************************************)

\* Subscribing takes the mutex, so it waits for a running operation.
Subscribe(s) ==
  /\ stream[s].state \in {"off", "ended"}
  /\ live # NoGame
  /\ op = "idle"
  /\ stream' = [stream EXCEPT ![s] =
                  [state |-> "subscribed", unseen |-> FALSE, shown |-> NoGame]]
  /\ UNCHANGED <<gameVars, published, signalDue, catalogVars>>

\* The first snapshot is read after the mutex is released.
EmitInitial(s, c) ==
  /\ stream[s].state = "subscribed"
  /\ stream' = [stream EXCEPT ![s] =
                  IF published.color # c
                  THEN Off
                  ELSE [@ EXCEPT !.shown = published,
                                 !.state = IF IsPlayable(published)
                                           THEN "open" ELSE "ended"]]
  /\ UNCHANGED <<gameVars, published, signalDue, catalogVars>>

\* Mutant of EmitUpdate: the stream does not look at the status.
EmitUpdateForever(s) ==
  /\ stream[s].state = "open"
  /\ stream[s].unseen
  /\ stream' = [stream EXCEPT ![s].unseen = FALSE, ![s].shown = published]
  /\ UNCHANGED <<gameVars, published, signalDue, catalogVars>>

\* changed() returns and the latest value is read: values published in
\* between are never delivered.
EmitUpdate(s) ==
  /\ stream[s].state = "open"
  /\ stream[s].unseen
  /\ stream' = [stream EXCEPT ![s] =
                  [state |-> IF IsPlayable(published) THEN "open" ELSE "ended",
                   unseen |-> FALSE,
                   shown |-> published]]
  /\ UNCHANGED <<gameVars, published, signalDue, catalogVars>>

\* The task that runs the stream is aborted.
CancelStream(s) ==
  /\ stream[s].state \in {"subscribed", "open"}
  /\ stream' = [stream EXCEPT ![s] = Off]
  /\ UNCHANGED <<gameVars, published, signalDue, catalogVars>>

-----------------------------------------------------------------------------
(***************************************************************************)
(* The catalog: signal_catalog, watch_live_game_catalog, live_games.       *)
(***************************************************************************)

SignalCatalog ==
  /\ signalDue
  /\ signalDue' = FALSE
  /\ unseenSignal' = TRUE
  /\ UNCHANGED <<gameVars, published, stream, refreshDue, listed>>

CatalogChanged ==
  /\ unseenSignal
  /\ unseenSignal' = FALSE
  /\ refreshDue' = TRUE
  /\ UNCHANGED <<gameVars, published, stream, signalDue, listed>>

\* live_games takes the mutex of every game in the map; a game that create()
\* is still building is not in it.
ListGames ==
  /\ refreshDue
  /\ op \in {"idle", "create"}
  /\ listed' = (op = "idle" /\ live # NoGame /\ IsPlayable(live))
  /\ refreshDue' = FALSE
  /\ UNCHANGED <<gameVars, published, stream, signalDue, unseenSignal>>

-----------------------------------------------------------------------------
Operation ==
  \/ \E o \in Openings, c \in Color : Create(o, c)
  \/ \E m \in Move, d \in BOOLEAN : PlayMove(m, d)
  \/ Abort
  \/ Resign
  \/ AgreeDraw
  \/ TakeBack
  \/ Decline

Completion == ReplyPlayed \/ ReplyRejected \/ SearchFails

Process == EngineExits \/ \E m \in Move : EngineAnswers(m)

Streaming ==
  \E s \in Stream :
    \/ Subscribe(s)
    \/ \E c \in Color : EmitInitial(s, c)
    \/ EmitUpdate(s)
    \/ CancelStream(s)

Catalog == SignalCatalog \/ CatalogChanged \/ ListGames

Next == Operation \/ Completion \/ Process \/ Streaming \/ Catalog

Spec == Init /\ [][Next]_vars

(***************************************************************************)
(* Fairness.  Every search has a deadline, so an operation that waits       *)
(* completes one way or the other; the runtime polls a stream or a catalog  *)
(* watcher that has something to do.  Nothing is assumed of the player, of  *)
(* the engine, or of who opens and cancels streams.                        *)
(***************************************************************************)
Fairness ==
  /\ WF_vars(Completion)
  /\ \A s \in Stream : WF_vars(\E c \in Color : EmitInitial(s, c))
  /\ \A s \in Stream : WF_vars(EmitUpdate(s))
  /\ WF_vars(SignalCatalog)
  /\ WF_vars(CatalogChanged)
  /\ WF_vars(ListGames)

FairSpec == Spec /\ Fairness

-----------------------------------------------------------------------------
(***************************************************************************)
(* Safety.                                                                 *)
(***************************************************************************)

\* Whenever the mutex is free, a playable game waits for its player and holds an
\* engine, whose process may have exited, and a finished one has released it.  A
\* takeback of an odd number of plies whose reply then failed would leave the
\* engine to move, and an end that kept the handle would keep the process
\* (play_engine_if_needed, perform_action, finish).
EngineMatchesGame ==
  op = "idle" /\ live # NoGame =>
    IF IsPlayable(live)
    THEN engine # "none" /\ Turn[live.at] = live.color
    ELSE engine = "none"

\* Whenever the mutex is free, what watchers can read is the game itself: no
\* operation, failed ones included, leaves a change it did not publish, and
\* none publishes a change it takes back.
NothingUnpublished == op = "idle" => published = live

\* A takeback never waits for the engine.  perform_action keeps no copy of the
\* game, so one that did could fail and leave the truncated game unpublished.
TakeBackNeverWaits == op # "takeback"

\* Every line a watcher can read was legal move by move, also when the engine
\* answered late: a move is checked in the position it is played in.
LinesAreLegal ==
  \A g \in {live, published} \ {NoGame} : LegalLine(g.at, g.path)

\* A game that is still playable has a legal move and material to mate with.
\* A takeback does not adjudicate, so this rests on where the line came from.
PlayableCanGoOn ==
  \A g \in {live, published} \ {NoGame} : IsPlayable(g) => ~Terminal(g.at)

\* A stream with nothing left to read has shown the current snapshot, and one
\* that has ended has shown the end of the game, whatever was published
\* between its subscription and its first read.
StreamsMissNothing ==
  \A s \in Stream :
    /\ stream[s].state = "open" /\ ~stream[s].unseen =>
         stream[s].shown = published
    /\ stream[s].state = "ended" =>
         stream[s].shown = published /\ ~IsPlayable(published)

\* A finished game never changes again, and is never created again.
FinishedIsFinal ==
  [][published # NoGame /\ ~IsPlayable(published) => published' = published]_vars

\* Watchers see the game advance by whole turns only (TurnGame).
Promise == INSTANCE TurnGame WITH game <- published

KeepsPromise == Promise!Spec

\* The engine's reply to a search is the answer to that search.  A search that
\* timed out leaves its answer in the pipe, where the next search finds it.
ReplyAnswersSearch ==
  sent /\ output # <<>> => Head(output).searched = live.at

(***************************************************************************)
(* Liveness, under FairSpec.                                               *)
(***************************************************************************)

\* An operation gives the mutex back even if the engine never answers.
OperationsEnd == (op # "idle") ~> (op = "idle")

\* A stream of a game that has finished ends, unless it is cancelled.
StreamsEnd ==
  \A s \in Stream :
    (/\ stream[s].state \in {"subscribed", "open"}
     /\ published # NoGame /\ ~IsPlayable(published))
      ~> (stream[s].state \in {"off", "ended"})

\* A finished game leaves the list of ongoing games for good: the signal, the
\* notice and the listing cannot overtake the operation that finished it.
FinishedIsDelisted ==
  (published # NoGame /\ ~IsPlayable(published)) ~> [](~listed)

=============================================================================
