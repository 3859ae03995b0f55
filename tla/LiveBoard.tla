----------------------------- MODULE LiveBoard ------------------------------
(***************************************************************************)
(* One live game, from the platform that plays it, through the worker's     *)
(* queue and stream task, to the board a native store shows.  The store     *)
(* sends commands and reads events, both in order, but the platform goes on *)
(* by itself: the opponent moves, moves are taken back, the game ends, the  *)
(* stream breaks, and calls are answered late, wrongly or never.           *)
(*                                                                         *)
(* A board is the line of moves that leads to it; the player moves first.   *)
(* The worker, its connection and its queues stay up: losing them is the    *)
(* subject of Worker.                                                      *)
(***************************************************************************)
EXTENDS Integers, SequencesExt

CONSTANTS
  MyMove, TheirMove,   \* the moves of the player and of the opponent
  None,
  MaxPly,              \* bound on a line
  MaxChanges,          \* bound on the snapshots of the game
  MaxRequests,         \* bound on the requests of the store
  MaxEvents            \* bound on the events on their way to the store

VARIABLES
  history,      \* the snapshots of the game at the platform, newest last
  stray,        \* a move whose call was given up and that may still arrive
  commands,     \* the worker's queue
  calling,      \* the command whose call is being awaited, or None
  stream,       \* the live task and the last snapshot it has emitted, or None
  latest,       \* latest_games: what the worker predicts moves on
  events,       \* the events on their way to the store
  live,         \* liveGames, or None
  prediction,   \* predictions and predictedBoards, or None
  move,         \* pendingMoveRequests and submittingMoveGameIDs, or None
  action,       \* the request in pendingGameActionRequests, or None
  start,        \* the request in pendingLiveGameRequests, or None
  loading, connected,    \* loadingGameIDs and connectedGameIDs
  active, created,       \* the game is in activeGames, in createdBotGames
  asked,        \* the number of requests the store has sent
  accepted,     \* the requests whose moves the platform has played
  cancelled,    \* the store has stopped observing and not started again
  crossed       \* a takeback met a move that was still under way

platformVars == <<history, stray, accepted>>
workerVars == <<commands, calling, stream, latest>>
boardVars == <<live, prediction, move, action>>
streamVars == <<start, loading, connected, active, created>>
storeVars == <<boardVars, streamVars, asked, cancelled, crossed>>
vars == <<platformVars, workerVars, events, boardVars, streamVars, asked,
          cancelled, crossed>>

Line == Seq(MyMove \cup TheirMove)

Snapshot == [moves: Line, over: BOOLEAN]

Envelope == [kind: {"start", "stop", "play", "action", "list"}, request: Nat,
             move: MyMove \cup {None}]

Event ==
  [type: {"updated"}, game: Snapshot]
    \cup [type: {"predicted"}, request: Nat, moves: Line]
    \cup [type: {"submitted", "completed", "error"}, request: Nat]
    \cup [type: {"listed"}, listed: BOOLEAN]
    \cup [type: {"ended"}]

\* nil is no number, no snapshot and nothing that is pending.
ASSUME NoneAssumption ==
  /\ None \notin Nat \cup Snapshot
  /\ None \notin [command: Envelope, applied: BOOLEAN]
  /\ None \notin [request: Nat, seen: Nat]
  /\ None \notin [request: Nat, base: Line, moves: Line]
  /\ None \notin [request: Nat, move: MyMove, base: Line]

TypeOK ==
  /\ history \in Seq(Snapshot) /\ history # <<>>
  /\ stray \in MyMove \cup {None}
  /\ accepted \subseteq Nat
  /\ commands \in Seq(Envelope)
  /\ calling \in [command: Envelope, applied: BOOLEAN] \cup {None}
  /\ stream \in [request: Nat, seen: Nat] \cup {None}
  /\ latest \in Snapshot \cup {None}
  /\ events \in Seq(Event)
  /\ live \in Snapshot \cup {None}
  /\ prediction \in [request: Nat, base: Line, moves: Line] \cup {None}
  /\ move \in [request: Nat, move: MyMove, base: Line] \cup {None}
  /\ action \in Nat \cup {None}
  /\ start \in Nat \cup {None}
  /\ {loading, connected, active, created, cancelled, crossed} \subseteq BOOLEAN
  /\ asked \in Nat

Now == history[Len(history)]

MyTurn(line) == Len(line) % 2 = 0

LegalMoves(line) ==
  {m \in MyMove \cup TheirMove : Len(line) < MaxPly /\ (m \in MyMove <=> MyTurn(line))}

Displayed == IF prediction = None THEN live.moves ELSE prediction.moves

Init ==
  /\ history = <<[moves |-> <<>>, over |-> FALSE]>>
  /\ stray = None /\ accepted = {}
  /\ calling = None /\ stream = None /\ latest = None
  /\ events = <<>>
  /\ live = None /\ prediction = None /\ move = None /\ action = None
  /\ connected = FALSE /\ active = TRUE
  /\ cancelled = FALSE /\ crossed = FALSE
  \* The game has been listed, or it has just been created and is being opened.
  /\ \/ /\ created = FALSE /\ loading = FALSE /\ start = None
        /\ commands = <<>> /\ asked = 0
     \/ /\ created = TRUE /\ loading = TRUE /\ start = 1
        /\ commands = <<[kind |-> "start", request |-> 1, move |-> None]>>
        /\ asked = 1

-----------------------------------------------------------------------------
(***************************************************************************)
(* The store's user.                                                       *)
(***************************************************************************)

Command(kind, m) == [kind |-> kind, request |-> asked + 1, move |-> m]

Send(kind, m) ==
  /\ asked' = asked + 1
  /\ commands' = Append(commands, Command(kind, m))

Ask(kind, m) == asked < MaxRequests /\ Send(kind, m)

StartLiveGame(preservingSnapshot) ==
  /\ Ask("start", None)
  /\ live' = IF preservingSnapshot THEN live ELSE None
  /\ loading' = TRUE
  /\ connected' = FALSE
  /\ start' = asked + 1
  /\ cancelled' = FALSE
  /\ UNCHANGED <<platformVars, calling, stream, latest, events, prediction,
                 move, action, active, created, crossed>>

OpenLiveGame ==
  /\ active /\ ~connected /\ ~loading
  /\ StartLiveGame(live # None)

ReconnectLiveGame ==
  /\ active /\ live # None /\ ~live.over
  /\ StartLiveGame(TRUE)

\* The game accepts a move or an action: it goes on and nothing is pending.
Accepts == live # None /\ ~live.over /\ move = None /\ action = None

PlayMove(m) ==
  /\ Accepts
  /\ MyTurn(Displayed)
  /\ m \in LegalMoves(Displayed)
  /\ Ask("play", m)
  /\ move' = [request |-> asked + 1, move |-> m, base |-> live.moves]
  /\ crossed' = (crossed \/ ~IsPrefix(live.moves, Now.moves))
  /\ UNCHANGED <<platformVars, calling, stream, latest, events, live,
                 prediction, action, streamVars, cancelled>>

PerformGameAction ==
  /\ Accepts
  /\ Ask("action", None)
  /\ action' = asked + 1
  /\ UNCHANGED <<platformVars, calling, stream, latest, events, live,
                 prediction, move, streamVars, cancelled, crossed>>

StopObservingLiveGame ==
  /\ \/ (live # None \/ loading) /\ Ask("stop", None)
     \/ ~(live # None \/ loading) /\ UNCHANGED <<commands, asked>>
  /\ live' = None /\ prediction' = None /\ move' = None /\ action' = None
  /\ loading' = FALSE /\ connected' = FALSE /\ start' = None
  /\ cancelled' = TRUE
  /\ crossed' = FALSE
  /\ UNCHANGED <<platformVars, calling, stream, latest, events, active,
                 created>>

\* By hand, or after an event of the catalog.
RefreshLiveGames ==
  /\ Ask("list", None)
  /\ UNCHANGED <<platformVars, calling, stream, latest, events, boardVars,
                 streamVars, cancelled, crossed>>

-----------------------------------------------------------------------------
(***************************************************************************)
(* The worker.  It takes the next command when no call is under way; the    *)
(* stream's task runs in between.                                          *)
(***************************************************************************)

Emit(e) ==
  /\ Len(events) < MaxEvents
  /\ events' = Append(events, e)

Take(kind) ==
  /\ calling = None
  /\ commands # <<>>
  /\ Head(commands).kind = kind
  /\ commands' = Tail(commands)

\* The stream that was there has ended before the new one starts.  Its first
\* snapshot is at least as new as the newest there is now.
HandleStart ==
  /\ Take("start")
  /\ stream' = [request |-> Head(commands).request, seen |-> Len(history) - 1]
  /\ UNCHANGED <<platformVars, calling, latest, events, storeVars>>

HandleStop ==
  /\ Take("stop")
  /\ stream' = None
  /\ latest' = None
  /\ UNCHANGED <<platformVars, calling, events, storeVars>>

Error(request) == [type |-> "error", request |-> request]

\* Predicted on the worker's snapshot, not on the one the player has seen.
HandlePlay ==
  LET c == Head(commands)
      possible == latest # None /\ c.move \in LegalMoves(latest.moves)
  IN /\ Take("play")
     /\ \/ /\ possible
           /\ Emit([type |-> "predicted", request |-> c.request,
                    moves |-> Append(latest.moves, c.move)])
           /\ calling' = [command |-> c, applied |-> FALSE]
        \/ /\ ~possible
           /\ Emit(Error(c.request))
           /\ UNCHANGED calling
     /\ UNCHANGED <<platformVars, stream, latest, storeVars>>

HandleCall ==
  /\ \E kind \in {"action", "list"} : Take(kind)
  /\ calling' = [command |-> Head(commands), applied |-> FALSE]
  /\ UNCHANGED <<platformVars, stream, latest, events, storeVars>>

\* A move is confirmed only if the platform has played it.
CallSucceeds ==
  /\ calling # None
  /\ \/ /\ calling.command.kind = "play" /\ calling.applied
        /\ Emit([type |-> "submitted", request |-> calling.command.request])
     \/ /\ calling.command.kind = "action"
        /\ Emit([type |-> "completed", request |-> calling.command.request])
     \/ /\ calling.command.kind = "list"
        /\ Emit([type |-> "listed", listed |-> ~Now.over])
  /\ calling' = None
  /\ UNCHANGED <<platformVars, commands, stream, latest, storeVars>>

\* Refused, or given up: the platform may have done what was asked, or may do it
\* when the request arrives after all.
CallFails ==
  /\ calling # None
  /\ Emit(Error(calling.command.request))
  /\ calling' = None
  /\ stray' \in {stray} \cup (IF calling.command.kind = "play" /\ ~calling.applied
                              THEN {calling.command.move} ELSE {})
  /\ UNCHANGED <<history, accepted, commands, stream, latest, storeVars>>

\* Snapshots come late, and a watch channel skips the ones it has not delivered.
StreamEmits ==
  /\ stream # None
  /\ \E i \in (stream.seen + 1)..Len(history) :
       /\ stream' = [stream EXCEPT !.seen = i]
       /\ latest' = history[i]
       /\ Emit([type |-> "updated", game |-> history[i]])
  /\ UNCHANGED <<platformVars, commands, calling, storeVars>>

StreamEnds ==
  /\ stream # None
  /\ stream.seen = Len(history) /\ Now.over
  /\ Emit([type |-> "ended"])
  /\ stream' = None
  /\ UNCHANGED <<platformVars, commands, calling, latest, storeVars>>

\* A connection that is refused, that breaks, or that closes too early.
StreamBreaks ==
  /\ stream # None
  /\ Emit(Error(stream.request))
  /\ stream' = None
  /\ UNCHANGED <<platformVars, commands, calling, latest, storeVars>>

-----------------------------------------------------------------------------
(***************************************************************************)
(* The platform.                                                           *)
(***************************************************************************)

Becomes(game) ==
  /\ ~Now.over
  /\ Len(history) < MaxChanges
  /\ history' = Append(history, game)

\* The board of the platform allows this move.
Plays(m) ==
  /\ m \in LegalMoves(Now.moves)
  /\ Becomes([Now EXCEPT !.moves = Append(@, m)])

MoveArrives ==
  /\ calling # None
  /\ calling.command.kind = "play" /\ ~calling.applied
  /\ Plays(calling.command.move)
  /\ calling' = [calling EXCEPT !.applied = TRUE]
  /\ accepted' = accepted \cup {calling.command.request}
  /\ UNCHANGED <<stray, commands, stream, latest, events, storeVars>>

StrayArrives ==
  /\ stray # None
  /\ \/ Plays(stray)
     \/ (Now.over \/ stray \notin LegalMoves(Now.moves)) /\ UNCHANGED history
  /\ stray' = None
  /\ UNCHANGED <<accepted, workerVars, events, storeVars>>

OpponentPlays ==
  /\ \E m \in TheirMove : Plays(m)
  /\ UNCHANGED <<stray, accepted, workerVars, events, storeVars>>

TakesBack ==
  /\ \E n \in 1..2 :
       /\ n <= Len(Now.moves)
       /\ Becomes([Now EXCEPT !.moves = SubSeq(@, 1, Len(@) - n)])
  /\ crossed' = (crossed \/ move # None \/ prediction # None)
  /\ UNCHANGED <<stray, accepted, workerVars, events, boardVars, streamVars, asked,
                 cancelled>>

GameEnds ==
  /\ Becomes([Now EXCEPT !.over = TRUE])
  /\ UNCHANGED <<stray, accepted, workerVars, events, storeVars>>

-----------------------------------------------------------------------------
(***************************************************************************)
(* The store reads the next event.                                         *)
(***************************************************************************)

Receive(type) ==
  /\ events # <<>>
  /\ Head(events).type = type
  /\ events' = Tail(events)
  /\ UNCHANGED <<platformVars, calling, stream, latest, created, cancelled>>

\* A takeback that met a move is over when neither is under way any more.
Settle == crossed' = (crossed /\ (move' # None \/ prediction' # None))

\* The prediction that stays when this snapshot has arrived.
ReconcilePrediction(game) ==
  IF prediction # None /\ (Len(game.moves) > Len(prediction.base) \/ game.over)
  THEN None ELSE prediction

ReceiveLiveGame ==
  LET game == Head(events).game
  IN /\ Receive("updated")
     /\ loading' = FALSE
     /\ \/ /\ active \/ created
           /\ live' = game
           /\ connected' = TRUE
           /\ active' = ~game.over
           /\ prediction' = ReconcilePrediction(game)
           /\ move' = IF game.over THEN None ELSE move
           /\ action' = IF game.over THEN None ELSE action
        \/ /\ ~active /\ ~created
           /\ UNCHANGED <<boardVars, connected, active>>
     /\ UNCHANGED <<commands, start, asked>>
     /\ Settle

\* By game, not by request: it may be the end of the stream before this one.
ReceiveStreamEnded ==
  /\ Receive("ended")
  /\ loading' = FALSE /\ connected' = FALSE /\ start' = None
  /\ Send("list", None)
  /\ UNCHANGED <<boardVars, active, crossed>>

ReceiveMovePrediction ==
  LET e == Head(events)
      expected == /\ move # None
                  /\ move.request = e.request
                  /\ e.moves = Append(move.base, move.move)
  IN /\ Receive("predicted")
     /\ prediction' = IF expected
                      THEN [request |-> e.request, base |-> move.base,
                            moves |-> e.moves]
                      ELSE prediction
     /\ UNCHANGED <<commands, live, move, action, start, loading, connected,
                    active, asked, crossed>>

Concerns(pending, request) == pending # None /\ pending.request = request

\* The prediction stays until a snapshot replaces it.
ReceiveMoveSubmitted ==
  /\ Receive("submitted")
  /\ move' = IF Concerns(move, Head(events).request) THEN None ELSE move
  /\ UNCHANGED <<commands, live, prediction, action, start, loading, connected,
                 active, asked>>
  /\ Settle

ReceiveActionCompleted ==
  /\ Receive("completed")
  /\ action' = IF action = Head(events).request THEN None ELSE action
  /\ UNCHANGED <<commands, live, prediction, move, start, loading, connected,
                 active, asked, crossed>>

\* The bug that a test of the store guards against: a mutant of EndsStream.
EndsStreamWhileLoading(request) == start = request /\ loading

\* The error of a start request ends its stream whenever it comes: also after
\* the stream has shown snapshots.
EndsStream(request) == start = request

\* A failed move stays on the board: a mutant of RolledBack.
RolledBackNever(request) == prediction

\* What stays on the board when a request has failed.
RolledBack(request) == IF Concerns(move, request) THEN None ELSE prediction

ReceiveError ==
  LET request == Head(events).request
  IN /\ Receive("error")
     /\ \/ /\ EndsStream(request)
           /\ start' = None /\ loading' = FALSE /\ connected' = FALSE
        \/ ~EndsStream(request) /\ UNCHANGED <<start, loading, connected>>
     /\ prediction' = RolledBack(request)
     /\ move' = IF Concerns(move, request) THEN None ELSE move
     /\ action' = IF action = request THEN None ELSE action
     /\ UNCHANGED <<commands, live, active, asked>>
     /\ Settle

ReceiveLiveGames ==
  /\ Receive("listed")
  /\ active' = (Head(events).listed \/ (live # None /\ ~live.over)
                                    \/ (created /\ live = None))
  /\ UNCHANGED <<commands, boardVars, start, loading, connected, asked, crossed>>

-----------------------------------------------------------------------------
User ==
  \/ OpenLiveGame \/ ReconnectLiveGame \/ StopObservingLiveGame
  \/ \E m \in MyMove : PlayMove(m)
  \/ PerformGameAction \/ RefreshLiveGames

Worker ==
  \/ HandleStart \/ HandleStop \/ HandlePlay \/ HandleCall
  \/ CallSucceeds \/ CallFails
  \/ StreamEmits \/ StreamEnds \/ StreamBreaks

Platform ==
  MoveArrives \/ StrayArrives \/ OpponentPlays \/ TakesBack \/ GameEnds

Store ==
  \/ ReceiveLiveGame \/ ReceiveStreamEnded \/ ReceiveMovePrediction
  \/ ReceiveMoveSubmitted \/ ReceiveActionCompleted \/ ReceiveError
  \/ ReceiveLiveGames

Next == User \/ Worker \/ Platform \/ Store

Spec == Init /\ [][Next]_vars

-----------------------------------------------------------------------------
(***************************************************************************)
(* Properties.                                                             *)
(***************************************************************************)

\* The snapshots the game has had, and their lines.
Past == {history[i] : i \in 1..Len(history)}
Lines == {game.moves : game \in Past}

\* Nothing is on its way anywhere, and the stream has caught up.
Quiet ==
  /\ commands = <<>> /\ events = <<>> /\ calling = None /\ stray = None
  /\ stream # None => stream.seen = Len(history)

\* The store shows snapshots of the platform, and over them only a move that is
\* under way, made on such a snapshot, or one that the platform has played: a
\* move that was refused or whose call was given up leaves nothing behind.
ShownWasPlayedOrSent ==
  /\ live # None => live \in Past
  /\ prediction # None
       => \/ prediction.request \in accepted
          \/ /\ Concerns(move, prediction.request)
             /\ prediction.moves = Append(move.base, move.move)
             /\ move.base \in Lines

\* When everything has arrived, a game that is reported as connected is shown as
\* it is: no prediction outlives its answer and no stream is lost silently. The
\* exceptions are a takeback that crossed a move and a stream that was stopped
\* while its snapshot was on the way.
ConnectedIsCurrent ==
  Quiet /\ connected /\ ~cancelled /\ ~crossed
    => live = Now /\ Displayed = Now.moves

\* docs/current_architecture.md:518-520: the native store reports stream state,
\* and can reconnect a game.
StreamStateIsReported == Quiet /\ connected => stream # None

=============================================================================
