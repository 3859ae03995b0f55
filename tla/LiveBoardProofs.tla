--------------------------- MODULE LiveBoardProofs --------------------------
(***************************************************************************)
(* For all sets of moves and all bounds: the board of the store shows only  *)
(* what the platform has had and what the player has sent, and a connected  *)
(* board shows the game once everything has arrived. The argument for the   *)
(* first follows the snapshots from the platform, through the stream and    *)
(* the events, to the store, and the confirmation of a move on the same     *)
(* way: what is past stays past, so what was true when an event was emitted *)
(* is true when the store reads it. For the second, OrderInv says in what   *)
(* order requests, their answers and the end of a stream can be under way.  *)
(***************************************************************************)
EXTENDS LiveBoard, SequenceTheorems, TLAPS

-----------------------------------------------------------------------------
(***************************************************************************)
(* Types.                                                                  *)
(***************************************************************************)

LEMMA EventFields ==
  ASSUME NEW e \in Event
  PROVE  /\ e.type = "updated" => e.game \in Snapshot
         /\ e.type = "predicted" => e.request \in Nat /\ e.moves \in Line
         /\ e.type \in {"submitted", "completed", "error"} => e.request \in Nat
         /\ e.type = "listed" => e.listed \in BOOLEAN
BY DEF Event

LEMMA NowIsSnapshot ==
  ASSUME TypeOK
  PROVE  Now \in Snapshot /\ Len(history) \in Nat \ {0} /\ Now \in Past
BY DEF TypeOK, Now, Past

LEMMA BecomesSnapshot ==
  ASSUME TypeOK, NEW game \in Snapshot, Becomes(game)
  PROVE  history' \in Seq(Snapshot) /\ history' # <<>>
BY DEF TypeOK, Becomes

LEMMA PlaysSnapshot ==
  ASSUME TypeOK, NEW m, Plays(m)
  PROVE  history' \in Seq(Snapshot) /\ history' # <<>>
<1>1. m \in MyMove \cup TheirMove
  BY DEF Plays, LegalMoves
<1>2. [Now EXCEPT !.moves = Append(@, m)] \in Snapshot
  BY <1>1, NowIsSnapshot DEF Snapshot, Line
<1> QED
  BY <1>2, BecomesSnapshot DEF Plays

LEMMA EmitKeepsType ==
  ASSUME events \in Seq(Event), NEW e \in Event, Emit(e)
  PROVE  events' \in Seq(Event)
BY DEF Emit

LEMMA NextEvent ==
  ASSUME events \in Seq(Event), events # <<>>
  PROVE  Head(events) \in Event /\ Tail(events) \in Seq(Event)
         /\ Len(events) \in Nat \ {0}
OBVIOUS

LEMMA NextCommand ==
  ASSUME commands \in Seq(Envelope), commands # <<>>
  PROVE  /\ Head(commands) \in Envelope
         /\ Head(commands).request \in Nat
         /\ Tail(commands) \in Seq(Envelope)
<1>1. Head(commands) \in Envelope /\ Tail(commands) \in Seq(Envelope)
  OBVIOUS
<1>2. \A c \in Envelope : c.request \in Nat
  BY DEF Envelope
<1> QED
  BY <1>1, <1>2

LEMMA SendKeepsType ==
  ASSUME TypeOK, NEW kind \in {"start", "stop", "play", "action", "list"},
         NEW m \in MyMove \cup {None}, Send(kind, m)
  PROVE  commands' \in Seq(Envelope) /\ asked' \in Nat
<1>1. commands \in Seq(Envelope) /\ asked \in Nat
  BY DEF TypeOK
<1>2. Command(kind, m) \in Envelope
  BY <1>1 DEF Command, Envelope
<1>3. commands' = Append(commands, Command(kind, m)) /\ asked' = asked + 1
  BY DEF Send
<1> QED
  BY <1>1, <1>2, <1>3

\* Every field keeps its type.
LEMMA TypeStep ==
  ASSUME TypeOK, [Next]_vars
  PROVE  TypeOK'
<1> USE DEF TypeOK
<1>a. CASE UNCHANGED vars
  BY <1>a DEF vars, platformVars, workerVars, boardVars, streamVars
<1>b. ASSUME NEW preserving \in BOOLEAN, StartLiveGame(preserving) PROVE TypeOK'
  <2>1. commands' \in Seq(Envelope) /\ asked' \in Nat
    BY <1>b, SendKeepsType DEF StartLiveGame, Ask
  <2>2. live' \in {live, None} /\ start' \in Nat
    BY <1>b DEF StartLiveGame
  <2> QED
    BY <1>b, <2>1, <2>2 DEF StartLiveGame, platformVars
<1>c. CASE OpenLiveGame
  BY <1>c, <1>b DEF OpenLiveGame
<1>d. CASE ReconnectLiveGame
  BY <1>d, <1>b DEF ReconnectLiveGame
<1>e. CASE StopObservingLiveGame
  BY <1>e, SendKeepsType DEF StopObservingLiveGame, Ask, platformVars
<1>f. ASSUME NEW m \in MyMove, PlayMove(m) PROVE TypeOK'
  <2>1. live \in Snapshot
    BY <1>f DEF PlayMove, Accepts
  <2>2. [request |-> asked + 1, move |-> m, base |-> live.moves]
          \in [request: Nat, move: MyMove, base: Line]
    BY <2>1 DEF Snapshot
  <2>3. crossed' \in BOOLEAN
    BY <1>f DEF PlayMove
  <2> QED
    BY <1>f, <2>2, <2>3, SendKeepsType DEF PlayMove, Ask, platformVars, streamVars
<1>g. CASE PerformGameAction
  BY <1>g, SendKeepsType DEF PerformGameAction, Ask, platformVars, streamVars
<1>h. CASE RefreshLiveGames
  BY <1>h, SendKeepsType DEF RefreshLiveGames, Ask, platformVars, boardVars, streamVars
<1> USE DEF storeVars, boardVars, streamVars, platformVars, workerVars
<1>i. CASE HandleStart
  <2>1. commands' \in Seq(Envelope) /\ Head(commands).request \in Nat
    BY <1>i, NextCommand DEF HandleStart, Take
  <2>2. Len(history) - 1 \in Nat
    BY NowIsSnapshot
  <2> QED
    BY <1>i, <2>1, <2>2 DEF HandleStart
<1>j. CASE HandleStop
  BY <1>j, NextCommand DEF HandleStop, Take
<1>k. CASE HandlePlay
  <2> DEFINE c == Head(commands)
  <2>1. commands' \in Seq(Envelope) /\ c \in Envelope /\ c.request \in Nat
    BY <1>k, NextCommand DEF HandlePlay, Take
  <2>2. Error(c.request) \in Event
    BY <2>1 DEF Error, Event
  <2>3. ASSUME latest # None, c.move \in LegalMoves(latest.moves)
        PROVE  [type |-> "predicted", request |-> c.request,
                moves |-> Append(latest.moves, c.move)] \in Event
    <3>1. latest.moves \in Line /\ c.move \in MyMove \cup TheirMove
      BY <2>3 DEF Snapshot, LegalMoves
    <3>2. Append(latest.moves, c.move) \in Line
      BY <3>1 DEF Line
    <3> QED
      BY <3>2, <2>1 DEF Event
  <2>4. events' \in Seq(Event)
    BY <1>k, <2>2, <2>3, EmitKeepsType DEF HandlePlay
  <2>5. calling' \in [command: Envelope, applied: BOOLEAN] \cup {None}
    <3>1. calling' = [command |-> c, applied |-> FALSE] \/ calling' = calling
      BY <1>k DEF HandlePlay
    <3>2. CASE calling' = calling
      BY <3>2
    <3>3. CASE calling' = [command |-> c, applied |-> FALSE]
      <4>1. [command |-> c, applied |-> FALSE] \in [command: Envelope, applied: BOOLEAN]
        BY <2>1
      <4> QED
        BY <3>3, <4>1
    <3> QED
      BY <3>1, <3>2, <3>3
  <2> QED
    BY <1>k, <2>1, <2>4, <2>5 DEF HandlePlay
<1>l. CASE HandleCall
  BY <1>l, NextCommand DEF HandleCall, Take
<1>m. CASE CallSucceeds
  <2>1. calling \in [command: Envelope, applied: BOOLEAN]
    BY <1>m DEF CallSucceeds
  <2>2. calling.command.request \in Nat
    BY <2>1 DEF Envelope
  <2>3. /\ [type |-> "submitted", request |-> calling.command.request] \in Event
        /\ [type |-> "completed", request |-> calling.command.request] \in Event
        /\ [type |-> "listed", listed |-> ~Now.over] \in Event
    BY <2>2 DEF Event
  <2>4. events' \in Seq(Event)
    BY <1>m, <2>3, EmitKeepsType DEF CallSucceeds
  <2> QED
    BY <1>m, <2>4 DEF CallSucceeds
<1>n. CASE CallFails
  <2>1. calling \in [command: Envelope, applied: BOOLEAN]
    BY <1>n DEF CallFails
  <2>2. calling.command.request \in Nat /\ calling.command.move \in MyMove \cup {None}
    BY <2>1 DEF Envelope
  <2>3. Error(calling.command.request) \in Event
    BY <2>2 DEF Error, Event
  <2>4. events' \in Seq(Event)
    BY <1>n, <2>3, EmitKeepsType DEF CallFails
  <2>5. stray' \in MyMove \cup {None}
    BY <1>n, <2>2 DEF CallFails
  <2> QED
    BY <1>n, <2>4, <2>5 DEF CallFails
<1>o. CASE StreamEmits
  <2>1. PICK i \in (stream.seen + 1)..Len(history) :
          /\ stream' = [stream EXCEPT !.seen = i]
          /\ latest' = history[i]
          /\ Emit([type |-> "updated", game |-> history[i]])
    BY <1>o DEF StreamEmits
  <2>2. stream \in [request: Nat, seen: Nat] /\ Len(history) \in Nat
    BY <1>o DEF StreamEmits
  <2>3. i \in 1..Len(history) /\ i \in Nat
    BY <2>2
  <2>4. history[i] \in Snapshot
    BY <2>3
  <2>5. [type |-> "updated", game |-> history[i]] \in Event
    BY <2>4 DEF Event
  <2>6. events' \in Seq(Event)
    BY <2>1, <2>5, EmitKeepsType
  <2>7. stream' \in [request: Nat, seen: Nat]
    BY <2>1, <2>2, <2>3
  <2> QED
    BY <1>o, <2>1, <2>4, <2>6, <2>7 DEF StreamEmits
<1>p. CASE StreamEnds
  <2>1. [type |-> "ended"] \in Event
    BY DEF Event
  <2>2. events' \in Seq(Event)
    BY <1>p, <2>1, EmitKeepsType DEF StreamEnds
  <2> QED
    BY <1>p, <2>2 DEF StreamEnds
<1>q. CASE StreamBreaks
  <2>1. Error(stream.request) \in Event
    BY <1>q DEF StreamBreaks, Error, Event
  <2>2. events' \in Seq(Event)
    BY <1>q, <2>1, EmitKeepsType DEF StreamBreaks
  <2> QED
    BY <1>q, <2>2 DEF StreamBreaks
<1>r. CASE MoveArrives
  <2>1. calling \in [command: Envelope, applied: BOOLEAN]
    BY <1>r DEF MoveArrives
  <2>2. calling.command.request \in Nat
    BY <2>1 DEF Envelope
  <2>3. calling' \in [command: Envelope, applied: BOOLEAN]
    BY <1>r, <2>1 DEF MoveArrives
  <2> QED
    BY <1>r, <2>2, <2>3, PlaysSnapshot DEF MoveArrives
<1>s. CASE StrayArrives
  BY <1>s, PlaysSnapshot DEF StrayArrives
<1>t. CASE OpponentPlays
  BY <1>t, PlaysSnapshot DEF OpponentPlays
<1>u. CASE TakesBack
  <2>1. PICK n \in 1..2 :
          /\ n <= Len(Now.moves)
          /\ Becomes([Now EXCEPT !.moves = SubSeq(@, 1, Len(@) - n)])
    BY <1>u DEF TakesBack
  <2>2. SubSeq(Now.moves, 1, Len(Now.moves) - n) \in Line
    BY <2>1, NowIsSnapshot DEF Snapshot, Line
  <2>3. [Now EXCEPT !.moves = SubSeq(@, 1, Len(@) - n)] \in Snapshot
    BY <2>2, NowIsSnapshot DEF Snapshot
  <2>4. history' \in Seq(Snapshot) /\ history' # <<>>
    BY <2>1, <2>3, BecomesSnapshot
  <2> QED
    BY <1>u, <2>4 DEF TakesBack
<1>v. CASE GameEnds
  <2>1. [Now EXCEPT !.over = TRUE] \in Snapshot
    BY NowIsSnapshot DEF Snapshot
  <2> QED
    BY <1>v, <2>1, BecomesSnapshot DEF GameEnds
<1>w. CASE ReceiveLiveGame
  <2> DEFINE game == Head(events).game
  <2>1. events' \in Seq(Event) /\ game \in Snapshot
    BY <1>w, NextEvent, EventFields DEF ReceiveLiveGame, Receive
  <2>2. game.over \in BOOLEAN
    BY <2>1 DEF Snapshot
  <2>3. prediction' \in [request: Nat, base: Line, moves: Line] \cup {None}
    BY <1>w DEF ReceiveLiveGame, ReconcilePrediction
  <2>4. crossed' \in BOOLEAN
    BY <1>w DEF ReceiveLiveGame, Settle
  <2>5. move' \in {move, None} /\ action' \in {action, None}
    BY <1>w DEF ReceiveLiveGame
  <2>6. /\ live' \in {live, game}
        /\ {loading', connected', active'} \subseteq BOOLEAN
    BY <1>w, <2>2 DEF ReceiveLiveGame
  <2> QED
    BY <1>w, <2>1, <2>3, <2>4, <2>5, <2>6 DEF ReceiveLiveGame, Receive
<1>x. CASE ReceiveStreamEnded
  <2>1. events' \in Seq(Event)
    BY <1>x, NextEvent DEF ReceiveStreamEnded, Receive
  <2>2. commands' \in Seq(Envelope) /\ asked' \in Nat
    BY <1>x, SendKeepsType DEF ReceiveStreamEnded
  <2>3. loading' = FALSE /\ connected' = FALSE /\ start' = None
    BY <1>x DEF ReceiveStreamEnded
  <2> QED
    BY <1>x, <2>1, <2>2, <2>3 DEF ReceiveStreamEnded, Receive
<1>y. CASE ReceiveMovePrediction
  <2>1. /\ events' \in Seq(Event)
        /\ Head(events).request \in Nat /\ Head(events).moves \in Line
    BY <1>y, NextEvent, EventFields DEF ReceiveMovePrediction, Receive
  <2>2. prediction' \in [request: Nat, base: Line, moves: Line] \cup {None}
    BY <1>y, <2>1 DEF ReceiveMovePrediction
  <2> QED
    BY <1>y, <2>1, <2>2 DEF ReceiveMovePrediction, Receive
<1>z. CASE ReceiveMoveSubmitted
  <2>1. events' \in Seq(Event)
    BY <1>z, NextEvent DEF ReceiveMoveSubmitted, Receive
  <2>2. move' \in {move, None} /\ crossed' \in BOOLEAN
    BY <1>z DEF ReceiveMoveSubmitted, Settle
  <2> QED
    BY <1>z, <2>1, <2>2 DEF ReceiveMoveSubmitted, Receive
<1>A. CASE ReceiveActionCompleted
  <2>1. events' \in Seq(Event)
    BY <1>A, NextEvent DEF ReceiveActionCompleted, Receive
  <2> QED
    BY <1>A, <2>1 DEF ReceiveActionCompleted, Receive
<1>B. CASE ReceiveError
  <2>1. events' \in Seq(Event)
    BY <1>B, NextEvent DEF ReceiveError, Receive
  <2>2. /\ move' \in {move, None} /\ prediction' \in {prediction, None}
        /\ action' \in {action, None} /\ start' \in {start, None}
    BY <1>B DEF ReceiveError, RolledBack
  <2>3. {loading', connected', crossed'} \subseteq BOOLEAN
    BY <1>B DEF ReceiveError, Settle
  <2> QED
    BY <1>B, <2>1, <2>2, <2>3 DEF ReceiveError, Receive
<1>C. CASE ReceiveLiveGames
  <2>1. events' \in Seq(Event)
    BY <1>C, NextEvent DEF ReceiveLiveGames, Receive
  <2>2. active' \in BOOLEAN
    BY <1>C DEF ReceiveLiveGames
  <2> QED
    BY <1>C, <2>1, <2>2 DEF ReceiveLiveGames, Receive
<1> QED
  BY <1>a, <1>c, <1>d, <1>e, <1>f, <1>g, <1>h, <1>i, <1>j, <1>k, <1>l, <1>m, <1>n,
     <1>o, <1>p, <1>q, <1>r, <1>s, <1>t, <1>u, <1>v, <1>w, <1>x, <1>y, <1>z,
     <1>A, <1>B, <1>C
  DEF Next, User, Worker, Platform, Store

-----------------------------------------------------------------------------
(***************************************************************************)
(* What is past stays past.                                                *)
(***************************************************************************)

LEMMA StepOfHistory ==
  ASSUME [Next]_vars
  PROVE  /\ history' = history \/ \E game : Becomes(game)
         /\ accepted \subseteq accepted'
<1> USE DEF platformVars, workerVars
<1>1. CASE UNCHANGED vars
  BY <1>1 DEF vars
<1>2. CASE User
  BY <1>2 DEF User, OpenLiveGame, ReconnectLiveGame, StartLiveGame,
     StopObservingLiveGame, PlayMove, PerformGameAction, RefreshLiveGames
<1>3. CASE Worker
  BY <1>3 DEF Worker, HandleStart, HandleStop, HandlePlay, HandleCall,
     CallSucceeds, CallFails, StreamEmits, StreamEnds, StreamBreaks
<1>4. CASE Platform
  <2>1. accepted \subseteq accepted'
    BY <1>4 DEF Platform, MoveArrives, StrayArrives, OpponentPlays, TakesBack, GameEnds
  <2>2. history' = history \/ \E game : Becomes(game)
    BY <1>4 DEF Platform, MoveArrives, StrayArrives, OpponentPlays, TakesBack,
       GameEnds, Plays
  <2> QED
    BY <2>1, <2>2
<1>5. CASE Store
  BY <1>5 DEF Store, ReceiveLiveGame, ReceiveStreamEnded, ReceiveMovePrediction,
     ReceiveMoveSubmitted, ReceiveActionCompleted, ReceiveError, ReceiveLiveGames,
     Receive
<1> QED
  BY <1>1, <1>2, <1>3, <1>4, <1>5 DEF Next

LEMMA PastStays ==
  ASSUME TypeOK, [Next]_vars
  PROVE  Past \subseteq Past' /\ Lines \subseteq Lines' /\ accepted \subseteq accepted'
<1>1. history \in Seq(Snapshot)
  BY DEF TypeOK
<1>2. ASSUME NEW game, Becomes(game) PROVE Past \subseteq Past'
  <2>1. history' = Append(history, game)
    BY <1>2 DEF Becomes
  <2>2. ASSUME NEW i \in 1..Len(history)
        PROVE  i \in 1..Len(history') /\ history'[i] = history[i]
    BY <2>1, <1>1
  <2> QED
    BY <2>2 DEF Past
<1>3. Past \subseteq Past'
  BY <1>2, StepOfHistory DEF Past
<1> QED
  BY <1>3, StepOfHistory DEF Lines

-----------------------------------------------------------------------------
(***************************************************************************)
(* The inductive invariant.                                                *)
(***************************************************************************)

\* What an event tells the store.
IsTrue(e) ==
  /\ e.type = "updated" => e.game \in Past
  /\ e.type = "submitted" => e.request \in accepted

EventsAreTrue == \A i \in 1..Len(events) : IsTrue(events[i])

CallIsTrue ==
  calling # None /\ calling.applied => calling.command.request \in accepted

MoveIsGrounded == move # None => move.base \in Lines

IInv ==
  /\ TypeOK
  /\ EventsAreTrue
  /\ CallIsTrue
  /\ MoveIsGrounded
  /\ ShownWasPlayedOrSent

\* Events are read in order, and what is emitted is true when it is emitted.
LEMMA StepOfEvents ==
  ASSUME IInv, [Next]_vars
  PROVE  \/ events' = events
         \/ events # <<>> /\ events' = Tail(events)
         \/ \E e : IsTrue(e) /\ events' = Append(events, e)
<1>1. CASE UNCHANGED vars
  BY <1>1 DEF vars
<1>2. CASE User
  BY <1>2 DEF User, OpenLiveGame, ReconnectLiveGame, StartLiveGame,
     StopObservingLiveGame, PlayMove, PerformGameAction, RefreshLiveGames
<1>3. CASE Platform
  BY <1>3 DEF Platform, MoveArrives, StrayArrives, OpponentPlays, TakesBack, GameEnds
<1>4. CASE Store
  BY <1>4 DEF Store, ReceiveLiveGame, ReceiveStreamEnded, ReceiveMovePrediction,
     ReceiveMoveSubmitted, ReceiveActionCompleted, ReceiveError, ReceiveLiveGames,
     Receive
<1>5. CASE HandleStart \/ HandleStop \/ HandleCall
  BY <1>5 DEF HandleStart, HandleStop, HandleCall
<1>6. \A request : IsTrue(Error(request))
  BY DEF IsTrue, Error
<1>7. CASE HandlePlay
  <2> DEFINE c == Head(commands)
             said == [type |-> "predicted", request |-> c.request,
                      moves |-> Append(latest.moves, c.move)]
  <2>1. Emit(said) \/ Emit(Error(c.request))
    BY <1>7 DEF HandlePlay
  <2>2. IsTrue(said)
    BY DEF IsTrue
  <2>3. IsTrue(Error(c.request))
    BY <1>6
  <2> QED
    BY <2>1, <2>2, <2>3 DEF Emit
<1>8. CASE CallSucceeds
  <2> DEFINE r == calling.command.request
             submitted == [type |-> "submitted", request |-> r]
             completed == [type |-> "completed", request |-> r]
             listed == [type |-> "listed", listed |-> ~Now.over]
  <2>1. \/ calling.applied /\ Emit(submitted)
        \/ Emit(completed)
        \/ Emit(listed)
    BY <1>8 DEF CallSucceeds
  <2>2. calling.applied => IsTrue(submitted)
    BY <1>8 DEF CallSucceeds, IInv, CallIsTrue, IsTrue
  <2>3. IsTrue(completed) /\ IsTrue(listed)
    BY DEF IsTrue
  <2> QED
    BY <2>1, <2>2, <2>3 DEF Emit
<1>9. CASE CallFails \/ StreamBreaks
  <2>1. \E request : Emit(Error(request))
    BY <1>9 DEF CallFails, StreamBreaks
  <2> QED
    BY <2>1, <1>6 DEF Emit
<1>10. CASE StreamEmits
  <2>1. PICK i \in (stream.seen + 1)..Len(history) :
          Emit([type |-> "updated", game |-> history[i]])
    BY <1>10 DEF StreamEmits
  <2>2. stream.seen \in Nat /\ Len(history) \in Nat
    BY <1>10 DEF StreamEmits, IInv, TypeOK
  <2>3. history[i] \in Past
    BY <2>2 DEF Past
  <2>4. IsTrue([type |-> "updated", game |-> history[i]])
    BY <2>3 DEF IsTrue
  <2> QED
    BY <2>1, <2>4 DEF Emit
<1>11. CASE StreamEnds
  <2>1. IsTrue([type |-> "ended"])
    BY DEF IsTrue
  <2> QED
    BY <1>11, <2>1 DEF StreamEnds, Emit
<1> QED
  BY <1>1, <1>2, <1>3, <1>4, <1>5, <1>7, <1>8, <1>9, <1>10, <1>11 DEF Next, Worker

LEMMA EventsStayTrue ==
  ASSUME IInv, [Next]_vars
  PROVE  EventsAreTrue'
<1>1. ASSUME NEW e, IsTrue(e)
      PROVE  /\ e.type = "updated" => e.game \in Past'
             /\ e.type = "submitted" => e.request \in accepted'
  BY <1>1, PastStays DEF IsTrue, IInv
<1>2. events \in Seq(Event) /\ TypeOK'
  BY TypeStep DEF IInv, TypeOK
<1>3. ASSUME NEW i \in 1..Len(events')
      PROVE  IsTrue(events'[i])
  <2>1. CASE events' = events
    BY <2>1, <1>3 DEF IInv, EventsAreTrue
  <2>2. CASE events # <<>> /\ events' = Tail(events)
    <3>1. i + 1 \in 1..Len(events) /\ events'[i] = events[i + 1]
      BY <2>2, <1>2, <1>3
    <3> QED
      BY <3>1 DEF IInv, EventsAreTrue
  <2>3. ASSUME NEW e, IsTrue(e), events' = Append(events, e)
        PROVE  IsTrue(events'[i])
    <3>1. CASE i \in 1..Len(events)
      BY <3>1, <2>3, <1>2 DEF IInv, EventsAreTrue
    <3>2. CASE i = Len(events) + 1
      BY <3>2, <2>3, <1>2
    <3> QED
      BY <3>1, <3>2, <2>3, <1>2, <1>3
  <2> QED
    BY <2>1, <2>2, <2>3, StepOfEvents
<1> QED
  BY <1>1, <1>3 DEF EventsAreTrue, IsTrue

\* A call counts as applied only when the platform has played its move.
LEMMA CallStaysTrue ==
  ASSUME IInv, [Next]_vars
  PROVE  CallIsTrue'
<1> USE DEF IInv, CallIsTrue, platformVars, workerVars
<1>1. accepted \subseteq accepted'
  BY PastStays
<1>2. CASE calling' = calling \/ calling' = None
  BY <1>1, <1>2
<1>3. CASE HandlePlay \/ HandleCall
  BY <1>2, <1>3 DEF HandlePlay, HandleCall
<1>4. CASE MoveArrives
  BY <1>4 DEF MoveArrives, TypeOK
<1> QED
  BY <1>2, <1>3, <1>4 DEF Next, vars, User, OpenLiveGame, ReconnectLiveGame,
     StartLiveGame, StopObservingLiveGame, PlayMove, PerformGameAction,
     RefreshLiveGames, Worker, HandleStart, HandleStop, CallSucceeds, CallFails,
     StreamEmits, StreamEnds, StreamBreaks, Platform, StrayArrives,
     OpponentPlays, TakesBack, GameEnds, Store, ReceiveLiveGame,
     ReceiveStreamEnded, ReceiveMovePrediction, ReceiveMoveSubmitted,
     ReceiveActionCompleted, ReceiveError, ReceiveLiveGames, Receive

\* The board: a snapshot comes from a true event, a move is made on a snapshot,
\* and a prediction goes when its move fails, and stays when it is confirmed.
LEMMA BoardStaysTrue ==
  ASSUME IInv, [Next]_vars
  PROVE  (MoveIsGrounded /\ ShownWasPlayedOrSent)'
<1>1. Past \subseteq Past' /\ Lines \subseteq Lines' /\ accepted \subseteq accepted'
  BY PastStays DEF IInv
<1>2. CASE UNCHANGED <<live, prediction, move>>
  BY <1>1, <1>2 DEF IInv, MoveIsGrounded, ShownWasPlayedOrSent, Concerns
<1>3. ASSUME NEW preserving, StartLiveGame(preserving)
      PROVE  (MoveIsGrounded /\ ShownWasPlayedOrSent)'
  <2>1. live' \in {live, None} /\ UNCHANGED <<prediction, move>>
    BY <1>3 DEF StartLiveGame
  <2> QED
    BY <1>1, <2>1 DEF IInv, MoveIsGrounded, ShownWasPlayedOrSent, Concerns
<1>4. CASE StopObservingLiveGame
  BY <1>4 DEF StopObservingLiveGame, MoveIsGrounded, ShownWasPlayedOrSent
<1>5. ASSUME NEW m, PlayMove(m)
      PROVE  (MoveIsGrounded /\ ShownWasPlayedOrSent)'
  <2>1. /\ live # None /\ move = None
        /\ move' = [request |-> asked + 1, move |-> m, base |-> live.moves]
        /\ UNCHANGED <<live, prediction>>
    BY <1>5 DEF PlayMove, Accepts
  <2>2. live \in Past /\ (prediction # None => prediction.request \in accepted)
    BY <2>1 DEF IInv, ShownWasPlayedOrSent, Concerns
  <2>3. live.moves \in Lines
    BY <2>2 DEF Lines
  <2>4. move'.base \in Lines'
    BY <2>1, <2>3, <1>1
  <2> QED
    BY <1>1, <2>1, <2>2, <2>4 DEF MoveIsGrounded, ShownWasPlayedOrSent
<1>6. ASSUME events # <<>> PROVE IsTrue(Head(events))
  <2>1. Len(events) \in Nat \ {0} /\ Head(events) = events[1]
    BY <1>6 DEF IInv, TypeOK
  <2> QED
    BY <2>1 DEF IInv, EventsAreTrue
<1>7. CASE ReceiveLiveGame
  <2> DEFINE game == Head(events).game
  <2>1. game \in Past
    BY <1>6, <1>7 DEF ReceiveLiveGame, Receive, IsTrue
  <2>2. CASE UNCHANGED boardVars
    BY <1>2, <2>2 DEF boardVars
  <2>3. CASE /\ live' = game
             /\ prediction' = ReconcilePrediction(game)
             /\ move' = IF game.over THEN None ELSE move
    <3>1. CASE game.over
      BY <1>1, <2>1, <2>3, <3>1 DEF MoveIsGrounded, ShownWasPlayedOrSent,
         ReconcilePrediction
    <3>2. CASE ~game.over
      <4>1. move' = move /\ prediction' \in {prediction, None}
        BY <2>3, <3>2 DEF ReconcilePrediction
      <4> QED
        BY <1>1, <2>1, <2>3, <4>1 DEF IInv, MoveIsGrounded, ShownWasPlayedOrSent,
           Concerns
    <3> QED
      BY <3>1, <3>2
  <2> QED
    BY <1>7, <2>2, <2>3 DEF ReceiveLiveGame
<1>8. CASE ReceiveMovePrediction
  <2> DEFINE e == Head(events)
  <2>1. UNCHANGED <<live, move>>
    BY <1>8 DEF ReceiveMovePrediction
  <2>2. CASE prediction' = prediction
    BY <1>2, <2>1, <2>2
  <2>3. CASE /\ move # None /\ move.request = e.request
             /\ e.moves = Append(move.base, move.move)
             /\ prediction' = [request |-> e.request, base |-> move.base,
                               moves |-> e.moves]
    BY <1>1, <2>1, <2>3 DEF IInv, MoveIsGrounded, ShownWasPlayedOrSent, Concerns
  <2> QED
    BY <1>8, <2>2, <2>3 DEF ReceiveMovePrediction
<1>9. CASE ReceiveMoveSubmitted
  <2> DEFINE r == Head(events).request
  <2>1. r \in accepted
    BY <1>6, <1>9 DEF ReceiveMoveSubmitted, Receive, IsTrue
  <2>2. /\ UNCHANGED <<live, prediction>>
        /\ move' = IF Concerns(move, r) THEN None ELSE move
    BY <1>9 DEF ReceiveMoveSubmitted
  <2>3. CASE ~Concerns(move, r)
    BY <1>2, <2>2, <2>3
  <2>4. CASE Concerns(move, r)
    <3>1. prediction # None => prediction.request \in accepted
      BY <2>1, <2>4 DEF IInv, ShownWasPlayedOrSent, Concerns
    <3> QED
      BY <1>1, <2>2, <2>4, <3>1 DEF IInv, MoveIsGrounded, ShownWasPlayedOrSent
  <2> QED
    BY <2>3, <2>4
<1>10. CASE ReceiveError
  <2> DEFINE r == Head(events).request
  <2>1. /\ live' = live
        /\ prediction' = RolledBack(r)
        /\ move' = IF Concerns(move, r) THEN None ELSE move
    BY <1>10 DEF ReceiveError
  <2>2. CASE Concerns(move, r)
    BY <1>1, <2>1, <2>2 DEF RolledBack, IInv, MoveIsGrounded, ShownWasPlayedOrSent
  <2>3. CASE ~Concerns(move, r)
    BY <1>2, <2>1, <2>3 DEF RolledBack
  <2> QED
    BY <2>2, <2>3
<1> QED
  BY <1>2, <1>3, <1>4, <1>5, <1>7, <1>8, <1>9, <1>10
  DEF Next, vars, boardVars, storeVars, User, OpenLiveGame, ReconnectLiveGame,
     PerformGameAction, RefreshLiveGames, Worker, HandleStart, HandleStop,
     HandlePlay, HandleCall, CallSucceeds, CallFails, StreamEmits, StreamEnds,
     StreamBreaks, Platform, MoveArrives, StrayArrives, OpponentPlays, TakesBack,
     GameEnds, Store, ReceiveStreamEnded, ReceiveActionCompleted, ReceiveLiveGames

-----------------------------------------------------------------------------
(***************************************************************************)
(* Theorems.                                                               *)
(***************************************************************************)

LEMMA InitIsInductive == Init => IInv
<1> SUFFICES ASSUME Init PROVE IInv
  OBVIOUS
<1>1. [moves |-> <<>>, over |-> FALSE] \in Snapshot
  <2>1. <<>> \in Seq(MyMove \cup TheirMove)
    OBVIOUS
  <2> QED
    BY <2>1 DEF Snapshot, Line
<1>2. history \in Seq(Snapshot) /\ history # <<>>
  BY <1>1 DEF Init
<1>3. commands \in Seq(Envelope) /\ start \in Nat \cup {None} /\ asked \in Nat
  <2>1. [kind |-> "start", request |-> 1, move |-> None] \in Envelope
    BY DEF Envelope
  <2>2. /\ <<>> \in Seq(Envelope)
        /\ <<[kind |-> "start", request |-> 1, move |-> None]>> \in Seq(Envelope)
    BY <2>1
  <2>3. \/ commands = <<>> /\ start = None /\ asked = 0
        \/ /\ commands = <<[kind |-> "start", request |-> 1, move |-> None]>>
           /\ start = 1 /\ asked = 1
    BY DEF Init
  <2>4. commands \in Seq(Envelope)
    BY <2>2, <2>3
  <2>5. start \in Nat \cup {None} /\ asked \in Nat
    BY <2>3
  <2> QED
    BY <2>4, <2>5
<1>4. events = <<>> /\ events \in Seq(Event) /\ Len(events) = 0
  BY DEF Init
<1>5. TypeOK
  BY <1>2, <1>3, <1>4 DEF Init, TypeOK
<1> QED
  BY <1>4, <1>5 DEF Init, IInv, EventsAreTrue, CallIsTrue, MoveIsGrounded,
     ShownWasPlayedOrSent

LEMMA StepIsInductive == IInv /\ [Next]_vars => IInv'
<1> SUFFICES ASSUME IInv, [Next]_vars PROVE IInv'
  OBVIOUS
<1>1. TypeOK'
  BY TypeStep DEF IInv
<1> QED
  BY <1>1, EventsStayTrue, CallStaysTrue, BoardStaysTrue DEF IInv

LEMMA Inductive == Spec => []IInv
BY InitIsInductive, StepIsInductive, PTL DEF Spec

\* Every value keeps its type, whatever the bounds.
THEOREM LiveBoardTypeCorrect == Spec => []TypeOK
<1>1. IInv => TypeOK
  BY DEF IInv
<1> QED
  BY <1>1, Inductive, PTL

\* receiveLiveGame, receiveMovePrediction and clearPendingMove together show only
\* snapshots of the platform and moves that are under way or have been played.
THEOREM BoardsAreHonest == Spec => []ShownWasPlayedOrSent
<1>1. IInv => ShownWasPlayedOrSent
  BY DEF IInv
<1> QED
  BY <1>1, Inductive, PTL

-----------------------------------------------------------------------------
(***************************************************************************)
(* The order of commands and events. A game that is connected is shown as   *)
(* it is because every command and every event that could make the board    *)
(* older or lose its stream is behind one that repairs it, or tells it.     *)
(***************************************************************************)

InOrder(q) == \A i, j \in 1..Len(q) : i < j => q[i].request < q[j].request

\* Requests are numbered as they are sent, and the stream is older than what
\* waits in the worker's queue.
Requests ==
  /\ InOrder(commands)
  /\ \A c \in Range(commands) : c.request <= asked
  /\ \A i \in 1..Len(events) : events[i].type = "error" => events[i].request <= asked
  /\ \A r \in accepted : r <= asked
  /\ calling # None => calling.command.request <= asked
  /\ stream # None => /\ stream.request <= asked
                      /\ \A c \in Range(commands) : stream.request < c.request

\* A start that is pending is the last command that starts or stops the stream,
\* and no other command has its number.
StartIsLast ==
  start # None =>
    /\ ~cancelled /\ start <= asked
    /\ calling # None => calling.command.request # start
    /\ \A c \in Range(commands) :
         /\ c.kind \in {"start", "stop"} => c.request <= start
         /\ c.request = start => c.kind = "start"

\* The platform is done, and the stream has no snapshot to emit but the last.
PlatformDone ==
  Now.over /\ (stream # None => stream.seen >= Len(history) - 1)

\* Behind the end of a stream come only snapshots of the finished game.
EndedIsFinal ==
  \A i \in 1..Len(events) : events[i].type = "ended" =>
    /\ PlatformDone
    /\ \A j \in 1..Len(events) :
         i < j /\ events[j].type = "updated" => events[j].game.over

NoStart == stream = None /\ \A c \in Range(commands) : c.kind # "start"

\* Behind the error of the last start comes nothing of a stream.
ErrorIsFinal ==
  start # None =>
    \A i \in 1..Len(events) :
      events[i].type = "error" /\ events[i].request = start =>
        /\ NoStart
        /\ \A j \in 1..Len(events) : i < j => events[j].type # "updated"

\* A start that the store waits for will be handled, has its stream, or its end
\* is on its way.
StartIsPending ==
  start # None =>
    \/ \E c \in Range(commands) : c.request = start
    \/ stream # None /\ stream.request = start
    \/ \E i \in 1..Len(events) : events[i].type = "ended"
    \/ \E i \in 1..Len(events) : events[i].type = "error" /\ events[i].request = start

\* Without such a start nothing arrives, or only the end of the game.
NothingArrives ==
  /\ NoStart /\ ~connected
  /\ \A i \in 1..Len(events) : events[i].type # "updated"

OnlyTheEndArrives ==
  /\ PlatformDone
  /\ connected => live # None /\ live.over
  /\ \A i \in 1..Len(events) : events[i].type = "updated" => events[i].game.over

EndIsKnown == start = None /\ ~cancelled => NothingArrives \/ OnlyTheEndArrives

\* Nothing happens in a game that is over.
OverIsLast == \A i \in 1..Len(history) : history[i].over => i = Len(history)

\* A stream that has caught up has left its snapshot with the worker.
StreamIsCurrent ==
  stream # None => /\ stream.seen <= Len(history)
                   /\ stream.seen = Len(history) => latest = Now

\* When it reads event n, the store shows g, or no board, or a finished one.
Sees(n, g) ==
  \/ \E i \in 1..(n - 1) :
       /\ events[i].type = "updated" /\ events[i].game = g
       /\ \A j \in 1..(n - 1) : events[j].type = "updated" => j <= i
  \/ /\ \A i \in 1..(n - 1) : events[i].type # "updated"
     /\ live = None \/ live.over \/ live = g

LatestIsSeen == latest # None => Sees(Len(events) + 1, latest)

\* A move is predicted on the snapshot that the store shows by then.
PredictionIsSeen ==
  \A n \in 1..Len(events) : events[n].type = "predicted" =>
    \E g \in Snapshot, m \in MyMove \cup TheirMove :
      Sees(n, g) /\ events[n].moves = Append(g.moves, m)

\* A board that goes on is in the catalog, and only such a board has moves.
BoardIsLive ==
  /\ connected => live # None
  /\ live # None /\ ~live.over => active
  /\ live = None \/ live.over => move = None /\ prediction = None

\* A pending move will be answered.
MoveIsPending ==
  move # None =>
    \/ \E c \in Range(commands) : c.kind = "play" /\ c.request = move.request
    \/ /\ calling # None /\ calling.command.kind = "play"
       /\ calling.command.request = move.request
    \/ \E i \in 1..Len(events) : /\ events[i].type \in {"submitted", "error"}
                                 /\ events[i].request = move.request

\* A prediction stays only while the board is not longer than what it is made
\* on, and the platform's line grows beyond that when the move is played.
PredictionIsAhead ==
  prediction # None => Len(live.moves) <= Len(prediction.base)

Reaches(p) == /\ Len(p.base) <= Len(Now.moves)
              /\ p.request \in accepted => Len(p.base) < Len(Now.moves)

PlatformIsAhead ==
  ~crossed => /\ move # None => Reaches(move)
              /\ prediction # None => Reaches(prediction)

OrderInv ==
  /\ IInv
  /\ Requests /\ StartIsLast /\ EndedIsFinal /\ ErrorIsFinal /\ StartIsPending
  /\ EndIsKnown /\ OverIsLast /\ StreamIsCurrent /\ LatestIsSeen
  /\ PredictionIsSeen /\ BoardIsLive /\ MoveIsPending /\ PredictionIsAhead
  /\ PlatformIsAhead


-----------------------------------------------------------------------------
(* What a step does to the queues.                                         *)

LEMMA NoEntries == Range(<<>>) = {}
BY DEF Range

LEMMA TakenQueue ==
  ASSUME NEW S, NEW q \in Seq(S), q # <<>>
  PROVE  /\ Head(q) = q[1] /\ Len(q) \in Nat \ {0}
         /\ Len(Tail(q)) = Len(q) - 1
         /\ \A i \in 1..Len(Tail(q)) : i + 1 \in 1..Len(q) /\ Tail(q)[i] = q[i + 1]
         /\ Range(q) = {Head(q)} \cup Range(Tail(q))
<1>1. /\ Head(q) = q[1] /\ Tail(q) \in Seq(S)
      /\ Len(q) \in Nat \ {0}
      /\ Len(Tail(q)) = Len(q) - 1
      /\ \A i \in 1..Len(Tail(q)) : Tail(q)[i] = q[i + 1]
  BY HeadTailProperties
<1>2. /\ Range(q) = {q[i] : i \in 1..Len(q)}
      /\ Range(Tail(q)) = {Tail(q)[i] : i \in 1..Len(Tail(q))}
  <2>1. \A s \in Seq(S) : Range(s) = {s[i] : i \in 1..Len(s)}
    BY RangeEquality
  <2> QED
    BY <1>1, <2>1
<1>3. ASSUME NEW i \in 1..Len(Tail(q)) PROVE i + 1 \in 1..Len(q)
  BY <1>1
<1>4. ASSUME NEW i \in 1..Len(q), i # 1
      PROVE  i - 1 \in 1..Len(Tail(q)) /\ (i - 1) + 1 = i
  <2>1. i \in Nat /\ 1 < i /\ i <= Len(q)
    BY <1>1, <1>4
  <2> QED
    BY <1>1, <2>1
<1>5. Range(q) \subseteq {Head(q)} \cup Range(Tail(q))
  <2> SUFFICES ASSUME NEW i \in 1..Len(q), i # 1
               PROVE  q[i] \in Range(Tail(q))
    BY <1>1, <1>2
  <2> QED
    BY <1>1, <1>2, <1>4
<1>6. {Head(q)} \cup Range(Tail(q)) \subseteq Range(q)
  BY <1>1, <1>2, <1>3
<1> QED
  BY <1>1, <1>3, <1>5, <1>6

LEMMA LongerQueue ==
  ASSUME NEW S, NEW q \in Seq(S), NEW e \in S
  PROVE  /\ Len(q) \in Nat /\ Len(Append(q, e)) = Len(q) + 1
         /\ 1..Len(Append(q, e)) = 1..Len(q) \cup {Len(q) + 1}
         /\ \A i \in 1..Len(q) : Append(q, e)[i] = q[i]
         /\ Append(q, e)[Len(q) + 1] = e
         /\ Range(Append(q, e)) = Range(q) \cup {e}
<1>1. /\ Append(q, e) \in Seq(S)
      /\ Len(Append(q, e)) = Len(q) + 1
      /\ \A i \in 1..Len(q) : Append(q, e)[i] = q[i]
      /\ Append(q, e)[Len(q) + 1] = e
      /\ Len(q) \in Nat
  BY AppendProperties, LenProperties
<1>2. /\ Range(q) = {q[i] : i \in 1..Len(q)}
      /\ Range(Append(q, e)) = {Append(q, e)[i] : i \in 1..Len(Append(q, e))}
  BY <1>1, RangeEquality
<1>3. 1..Len(Append(q, e)) = 1..Len(q) \cup {Len(q) + 1}
  BY <1>1
<1> QED
  BY <1>1, <1>2, <1>3

LEMMA TakenInOrder ==
  ASSUME NEW S, NEW q \in Seq(S), q # <<>>, InOrder(q)
  PROVE  /\ InOrder(Tail(q))
         /\ \A c \in Range(Tail(q)) : Head(q).request < c.request
<1>1. /\ Head(q) = q[1] /\ Tail(q) \in Seq(S)
      /\ Len(q) \in Nat \ {0}
      /\ Len(Tail(q)) = Len(q) - 1
      /\ \A i \in 1..Len(Tail(q)) : i + 1 \in 1..Len(q) /\ Tail(q)[i] = q[i + 1]
  BY TakenQueue, HeadTailProperties
<1>2. InOrder(Tail(q))
  <2> SUFFICES ASSUME NEW i \in 1..Len(Tail(q)), NEW j \in 1..Len(Tail(q)), i < j
               PROVE  q[i + 1].request < q[j + 1].request
    BY <1>1 DEF InOrder
  <2>1. i + 1 < j + 1
    BY <1>1
  <2> QED
    BY <2>1, <1>1 DEF InOrder
<1>3. ASSUME NEW i \in 1..Len(Tail(q))
      PROVE  Head(q).request < Tail(q)[i].request
  <2>1. 1 \in 1..Len(q) /\ 1 < i + 1
    BY <1>1
  <2> QED
    BY <2>1, <1>1 DEF InOrder
<1>4. Range(Tail(q)) = {Tail(q)[i] : i \in 1..Len(Tail(q))}
  BY <1>1, RangeEquality
<1> QED
  BY <1>2, <1>3, <1>4

LEMMA LongerInOrder ==
  ASSUME NEW S, NEW q \in Seq(S), NEW e \in S, InOrder(q),
         \A c \in Range(q) : c.request < e.request
  PROVE  InOrder(Append(q, e))
<1>1. /\ Len(q) \in Nat
      /\ 1..Len(Append(q, e)) = 1..Len(q) \cup {Len(q) + 1}
      /\ \A i \in 1..Len(q) : Append(q, e)[i] = q[i]
      /\ Append(q, e)[Len(q) + 1] = e
  BY LongerQueue
<1>2. Range(q) = {q[i] : i \in 1..Len(q)}
  BY RangeEquality
<1> SUFFICES ASSUME NEW i \in 1..Len(Append(q, e)), NEW j \in 1..Len(Append(q, e)),
                    i < j
             PROVE  Append(q, e)[i].request < Append(q, e)[j].request
  BY DEF InOrder
<1>3. i \in 1..Len(q)
  BY <1>1
<1>4. CASE j \in 1..Len(q)
  BY <1>1, <1>3, <1>4 DEF InOrder
<1>5. CASE j = Len(q) + 1
  BY <1>1, <1>2, <1>3, <1>5
<1> QED
  BY <1>1, <1>4, <1>5

\* The numbers of what waits.
LEMMA Numbers ==
  ASSUME TypeOK
  PROVE  /\ Range(commands) \subseteq Envelope
         /\ \A c \in Range(commands) : c.request \in Nat
         /\ calling # None => calling.command \in Envelope
                              /\ calling.command.request \in Nat
         /\ stream # None => stream.request \in Nat /\ stream.seen \in Nat
         /\ start # None => start \in Nat
         /\ move # None => move.request \in Nat
<1>1. \A c \in Envelope : c.request \in Nat
  BY DEF Envelope
<1>2. Range(commands) \subseteq Envelope
  BY RangeOfSeq DEF TypeOK
<1> QED
  BY <1>1, <1>2 DEF TypeOK


LEMMA SendQueue ==
  ASSUME TypeOK, NEW kind \in {"start", "stop", "play", "action", "list"},
         NEW m \in MyMove \cup {None}, Send(kind, m)
  PROVE  /\ asked \in Nat /\ asked' = asked + 1
         /\ Command(kind, m).kind = kind /\ Command(kind, m).request = asked + 1
         /\ Range(commands') = Range(commands) \cup {Command(kind, m)}
         /\ commands' = Append(commands, Command(kind, m))
         /\ Command(kind, m) \in Envelope
<1>1. Command(kind, m) \in Envelope /\ commands \in Seq(Envelope) /\ asked \in Nat
  BY DEF Command, Envelope, TypeOK
<1>2. commands' = Append(commands, Command(kind, m)) /\ asked' = asked + 1
  BY DEF Send
<1>3. Command(kind, m).kind = kind /\ Command(kind, m).request = asked + 1
  BY DEF Command
<1> HIDE DEF Command
<1>4. Range(commands') = Range(commands) \cup {Command(kind, m)}
  BY <1>1, <1>2, LongerQueue
<1> QED
  BY <1>1, <1>2, <1>3, <1>4

LEMMA TakeQueue ==
  ASSUME TypeOK, NEW kind, Take(kind)
  PROVE  /\ calling = None
         /\ Head(commands) \in Envelope /\ Head(commands).request \in Nat
         /\ Head(commands).kind = kind
         /\ Range(commands) = {Head(commands)} \cup Range(commands')
<1>1. commands \in Seq(Envelope)
  BY DEF TypeOK
<1> QED
  BY <1>1, TakenQueue, NextCommand DEF Take

LEMMA EmitQueue ==
  ASSUME TypeOK, NEW e \in Event, Emit(e)
  PROVE  /\ Len(events) \in Nat /\ Len(events') = Len(events) + 1
         /\ 1..Len(events') = 1..Len(events) \cup {Len(events) + 1}
         /\ \A i \in 1..Len(events) : events'[i] = events[i]
         /\ events'[Len(events) + 1] = e
<1>1. events \in Seq(Event)
  BY DEF TypeOK
<1> QED
  BY <1>1, LongerQueue DEF Emit

LEMMA ReceiveQueue ==
  ASSUME TypeOK, NEW type, Receive(type)
  PROVE  /\ Head(events) = events[1] /\ Head(events).type = type
         /\ Head(events) \in Event
         /\ Len(events) \in Nat \ {0} /\ 1 \in 1..Len(events)
         /\ Len(events') = Len(events) - 1
         /\ \A i \in 1..Len(events') : /\ i + 1 \in 1..Len(events) /\ 1 < i + 1
                                       /\ events'[i] = events[i + 1]
         /\ \A i \in 1..Len(events) : i # 1 => /\ i - 1 \in 1..Len(events')
                                               /\ events'[i - 1] = events[i]
<1>1. events \in Seq(Event) /\ events # <<>> /\ events' = Tail(events)
  BY DEF TypeOK, Receive
<1>2. /\ Head(events) = events[1] /\ Len(events) \in Nat \ {0}
      /\ Len(events') = Len(events) - 1
      /\ \A i \in 1..Len(events') :
           i + 1 \in 1..Len(events) /\ events'[i] = events[i + 1]
  BY <1>1, TakenQueue
<1>3. ASSUME NEW i \in 1..Len(events), i # 1
      PROVE  i - 1 \in 1..Len(events') /\ events'[i - 1] = events[i]
  <2>1. i \in Nat /\ 1 < i /\ i <= Len(events)
    BY <1>2, <1>3
  <2>2. i - 1 \in 1..Len(events') /\ (i - 1) + 1 = i
    BY <1>2, <2>1
  <2> QED
    BY <1>2, <2>2
<1>4. 1 \in 1..Len(events) /\ \A i \in 1..Len(events') : 1 < i + 1
  BY <1>2
<1>5. Head(events) \in Event /\ Head(events).type = type
  BY <1>1, NextEvent DEF Receive
<1> QED
  BY <1>2, <1>3, <1>4, <1>5

-----------------------------------------------------------------------------
(* Who changes what.                                                       *)

LEMMA UserKeeps ==
  ASSUME User
  PROVE  UNCHANGED <<history, accepted, calling, stream, latest, events>>
BY DEF User, OpenLiveGame, ReconnectLiveGame, StartLiveGame, StopObservingLiveGame,
   PlayMove, PerformGameAction, RefreshLiveGames, platformVars

LEMMA WorkerKeeps ==
  ASSUME Worker
  PROVE  /\ UNCHANGED <<history, accepted, live, prediction, move, action>>
         /\ UNCHANGED <<start, loading, connected, active, created>>
         /\ UNCHANGED <<asked, cancelled, crossed>>
BY DEF Worker, HandleStart, HandleStop, HandlePlay, HandleCall, CallSucceeds,
   CallFails, StreamEmits, StreamEnds, StreamBreaks, platformVars, storeVars,
   boardVars, streamVars

LEMMA PlatformKeeps ==
  ASSUME Platform
  PROVE  /\ UNCHANGED <<commands, stream, latest, events>>
         /\ UNCHANGED <<live, prediction, move, action>>
         /\ UNCHANGED <<start, loading, connected, active, created>>
         /\ UNCHANGED <<asked, cancelled>>
BY DEF Platform, MoveArrives, StrayArrives, OpponentPlays, TakesBack, GameEnds,
   workerVars, storeVars, boardVars, streamVars

LEMMA StoreKeeps ==
  ASSUME Store
  PROVE  /\ UNCHANGED <<history, accepted, calling, stream, latest, cancelled>>
         /\ \E type \in {"updated", "ended", "predicted", "submitted", "completed",
                         "error", "listed"} : Receive(type)
BY DEF Store, ReceiveLiveGame, ReceiveStreamEnded, ReceiveMovePrediction,
   ReceiveMoveSubmitted, ReceiveActionCompleted, ReceiveError, ReceiveLiveGames,
   Receive, platformVars

\* A command is sent, taken, or neither.
LEMMA StepOfCommands ==
  ASSUME [Next]_vars
  PROVE  \/ UNCHANGED <<commands, asked>>
         \/ \E kind \in {"start", "stop", "play", "action", "list"},
               m \in MyMove \cup {None} : Send(kind, m)
         \/ (\E kind \in {"start", "stop", "play", "action", "list"} : Take(kind))
            /\ asked' = asked
<1>1. CASE UNCHANGED vars
  BY <1>1 DEF vars, workerVars
<1>2. CASE User
  BY <1>2 DEF User, OpenLiveGame, ReconnectLiveGame, StartLiveGame,
     StopObservingLiveGame, PlayMove, PerformGameAction, RefreshLiveGames, Ask
<1>3. CASE Worker
  <2>1. asked' = asked
    BY <1>3, WorkerKeeps
  <2> QED
    BY <1>3, <2>1 DEF Worker, HandleStart, HandleStop, HandlePlay, HandleCall,
       CallSucceeds, CallFails, StreamEmits, StreamEnds, StreamBreaks
<1>4. CASE Platform
  BY <1>4, PlatformKeeps
<1>5. CASE Store
  BY <1>5 DEF Store, ReceiveLiveGame, ReceiveStreamEnded, ReceiveMovePrediction,
     ReceiveMoveSubmitted, ReceiveActionCompleted, ReceiveError, ReceiveLiveGames
<1> QED
  BY <1>1, <1>2, <1>3, <1>4, <1>5 DEF Next

\* The errors that the worker emits, and what it emits otherwise.
LEMMA StepOfWorkerEvents ==
  ASSUME TypeOK, Worker
  PROVE  \/ events' = events
         \/ \E e \in Event :
              /\ Emit(e)
              /\ \/ StreamEmits /\ e.type = "updated" /\ e.game = latest'
                 \/ StreamEnds /\ e.type = "ended"
                 \/ StreamBreaks /\ e = Error(stream.request)
                 \/ CallFails /\ e = Error(calling.command.request)
                 \/ HandlePlay /\ e = Error(Head(commands).request)
                 \/ /\ HandlePlay /\ e.type = "predicted" /\ latest # None
                    /\ Head(commands).move \in LegalMoves(latest.moves)
                    /\ e.moves = Append(latest.moves, Head(commands).move)
                 \/ CallSucceeds /\ e.type \in {"submitted", "completed", "listed"}
<1>1. \A r \in Nat : Error(r) \in Event
  BY DEF Error, Event
<1>2. CASE HandleStart \/ HandleStop \/ HandleCall
  BY <1>2 DEF HandleStart, HandleStop, HandleCall
<1>3. CASE HandlePlay
  <2> DEFINE c == Head(commands)
             said == [type |-> "predicted", request |-> c.request,
                      moves |-> Append(latest.moves, c.move)]
  <2>1. c.request \in Nat
    BY <1>3, TakeQueue DEF HandlePlay
  <2>2. CASE Emit(Error(c.request))
    BY <1>1, <1>3, <2>1, <2>2
  <2>3. CASE latest # None /\ c.move \in LegalMoves(latest.moves) /\ Emit(said)
    <3>1. latest.moves \in Line /\ c.move \in MyMove \cup TheirMove
      BY <2>3 DEF TypeOK, Snapshot, LegalMoves
    <3>2. Append(latest.moves, c.move) \in Line
      BY <3>1 DEF Line
    <3>3. /\ said \in Event /\ said.type = "predicted"
          /\ said.moves = Append(latest.moves, c.move)
      BY <2>1, <3>2 DEF Event
    <3> HIDE DEF said
    <3> QED
      BY <1>3, <2>3, <3>3
  <2> QED
    BY <1>3, <2>2, <2>3 DEF HandlePlay
<1>4. CASE CallSucceeds
  <2> DEFINE r == calling.command.request
             submitted == [type |-> "submitted", request |-> r]
             completed == [type |-> "completed", request |-> r]
             listed == [type |-> "listed", listed |-> ~Now.over]
  <2>1. r \in Nat
    BY <1>4, Numbers DEF CallSucceeds
  <2>2. submitted \in Event /\ completed \in Event /\ listed \in Event
    BY <2>1 DEF Event
  <2>3. /\ submitted.type = "submitted" /\ completed.type = "completed"
        /\ listed.type = "listed"
    OBVIOUS
  <2>4. Emit(submitted) \/ Emit(completed) \/ Emit(listed)
    BY <1>4 DEF CallSucceeds
  <2> HIDE DEF submitted, completed, listed
  <2> QED
    BY <1>4, <2>2, <2>3, <2>4
<1>5. CASE CallFails
  BY <1>1, <1>5, Numbers DEF CallFails
<1>6. CASE StreamEmits
  <2>1. PICK i \in (stream.seen + 1)..Len(history) :
          /\ latest' = history[i]
          /\ Emit([type |-> "updated", game |-> history[i]])
    BY <1>6 DEF StreamEmits
  <2>2. stream.seen \in Nat /\ Len(history) \in Nat /\ history \in Seq(Snapshot)
    BY <1>6, Numbers DEF StreamEmits, TypeOK
  <2>3. history[i] \in Snapshot
    BY <2>2
  <2>4. [type |-> "updated", game |-> history[i]] \in Event
    BY <2>3 DEF Event
  <2> QED
    BY <1>6, <2>1, <2>4
<1>7. CASE StreamEnds
  <2>1. [type |-> "ended"] \in Event
    BY DEF Event
  <2> QED
    BY <1>7, <2>1 DEF StreamEnds
<1>8. CASE StreamBreaks
  BY <1>1, <1>8, Numbers DEF StreamBreaks
<1> QED
  BY <1>2, <1>3, <1>4, <1>5, <1>6, <1>7, <1>8 DEF Worker


\* What the stream shows next: any later snapshot, and the last one only when
\* the one before it has been seen.
LEMMA StreamShows ==
  ASSUME TypeOK, StreamEmits
  PROVE  /\ stream # None /\ stream.seen \in Nat /\ stream.request \in Nat
         /\ Len(history) \in Nat \ {0}
         /\ stream'.request = stream.request
         /\ stream'.seen \in 1..Len(history) /\ stream.seen < stream'.seen
         /\ latest' = history[stream'.seen] /\ latest' \in Snapshot
         /\ UNCHANGED <<history, commands, calling>>
<1>1. stream \in [request: Nat, seen: Nat] /\ stream # None
  BY DEF StreamEmits, TypeOK
<1>2. PICK i \in (stream.seen + 1)..Len(history) :
        stream' = [stream EXCEPT !.seen = i] /\ latest' = history[i]
  BY DEF StreamEmits
<1>3. stream'.seen = i /\ stream'.request = stream.request
  BY <1>1, <1>2
<1>4. history \in Seq(Snapshot) /\ Len(history) \in Nat \ {0}
  BY NowIsSnapshot DEF TypeOK
<1>5. i \in 1..Len(history) /\ stream.seen < i
  BY <1>1, <1>4
<1>6. history[i] \in Snapshot
  BY <1>4, <1>5
<1> QED
  BY <1>1, <1>2, <1>3, <1>4, <1>5, <1>6 DEF StreamEmits, platformVars

-----------------------------------------------------------------------------
(* The invariant is kept, part by part.                                    *)

LEMMA RequestsStep ==
  ASSUME OrderInv, [Next]_vars
  PROVE  Requests'
<1>0. TypeOK /\ Requests
  BY DEF OrderInv, IInv
<1>1. /\ commands \in Seq(Envelope) /\ asked \in Nat
      /\ \A c \in Range(commands) : c.request \in Nat /\ c.request <= asked
  BY <1>0, Numbers DEF TypeOK, Requests
<1>2. InOrder(commands') /\ \A c \in Range(commands)' : c.request <= asked'
  <2>1. CASE UNCHANGED <<commands, asked>>
    BY <1>0, <2>1 DEF Requests, InOrder
  <2>2. ASSUME NEW kind \in {"start", "stop", "play", "action", "list"},
               NEW m \in MyMove \cup {None}, Send(kind, m)
        PROVE  InOrder(commands') /\ \A c \in Range(commands)' : c.request <= asked'
    <3> DEFINE new == Command(kind, m)
    <3>1. /\ new \in Envelope /\ new.request = asked + 1 /\ asked' = asked + 1
          /\ commands' = Append(commands, new)
          /\ Range(commands') = Range(commands) \cup {new}
      BY <1>0, <2>2, SendQueue
    <3> HIDE DEF new
    <3>2. \A c \in Range(commands) : c.request < new.request
      BY <1>1, <3>1
    <3>3. InOrder(commands)
      BY <1>0 DEF Requests
    <3>4. InOrder(commands')
      BY <1>1, <3>1, <3>2, <3>3, LongerInOrder
    <3> QED
      BY <1>1, <3>1, <3>4
  <2>3. ASSUME NEW kind, Take(kind), asked' = asked
        PROVE  InOrder(commands') /\ \A c \in Range(commands)' : c.request <= asked'
    <3>1. Range(commands') \subseteq Range(commands)
      BY <1>0, <2>3, TakeQueue
    <3>2. commands # <<>> /\ commands' = Tail(commands) /\ InOrder(commands)
      BY <1>0, <2>3 DEF Take, Requests
    <3>3. InOrder(commands')
      BY <1>1, <3>2, TakenInOrder
    <3> QED
      BY <1>1, <2>3, <3>1, <3>3
  <2> QED
    BY <2>1, <2>2, <2>3, StepOfCommands
<1>3. asked' \in Nat /\ asked <= asked'
  <2>1. ASSUME NEW kind, NEW m, Send(kind, m) PROVE asked' = asked + 1
    BY <2>1 DEF Send
  <2> QED
    BY <1>1, <2>1, StepOfCommands
<1>4. ASSUME NEW r \in Nat, r <= asked PROVE r <= asked'
  BY <1>1, <1>3, <1>4
<1>5. \A i \in 1..Len(events') :
        events'[i].type = "error" => events'[i].request <= asked'
  <2>1. \A i \in 1..Len(events) : events[i].type = "error"
          => events[i].request \in Nat /\ events[i].request <= asked
    <3>1. \A i \in 1..Len(events) : events[i] \in Event
      BY <1>0 DEF TypeOK
    <3> QED
      BY <1>0, <3>1, EventFields DEF Requests
  <2>2. CASE events' = events
    BY <1>4, <2>1, <2>2
  <2>3. CASE Store
    <3>1. PICK type : Receive(type)
      BY <2>3, StoreKeeps
    <3>2. \A i \in 1..Len(events') : /\ i + 1 \in 1..Len(events)
                                      /\ events'[i] = events[i + 1]
      BY <1>0, <3>1, ReceiveQueue
    <3> QED
      BY <1>4, <2>1, <3>2
  <2>4. CASE Worker
    <3>1. ASSUME NEW e \in Event, Emit(e),
                 e.type = "error" => e.request \in Nat /\ e.request <= asked
          PROVE  \A i \in 1..Len(events') :
                   events'[i].type = "error" => events'[i].request <= asked'
      BY <1>0, <1>4, <2>1, <3>1, EmitQueue
    <3>2. CASE StreamBreaks
      <4>1. stream.request \in Nat /\ stream.request <= asked
        BY <1>0, <3>2, Numbers DEF StreamBreaks, Requests
      <4>2. Error(stream.request) \in Event
        BY <4>1 DEF Error, Event
      <4> QED
        BY <3>1, <3>2, <4>1, <4>2 DEF StreamBreaks, Error
    <3>3. CASE CallFails
      <4>1. calling.command.request \in Nat /\ calling.command.request <= asked
        BY <1>0, <3>3, Numbers DEF CallFails, Requests
      <4>2. Error(calling.command.request) \in Event
        BY <4>1 DEF Error, Event
      <4> QED
        BY <3>1, <3>3, <4>1, <4>2 DEF CallFails, Error
    <3>4. CASE HandlePlay
      <4>1. Head(commands) \in Range(commands) /\ Head(commands).request \in Nat
        BY <1>0, <3>4, TakeQueue DEF HandlePlay
      <4>2. Head(commands).request <= asked
        BY <1>1, <4>1
      <4> QED
        BY <1>0, <2>2, <2>4, <3>1, <3>4, <4>1, <4>2, StepOfWorkerEvents
        DEF Error, StreamEmits, StreamEnds, StreamBreaks, CallFails, CallSucceeds,
            HandlePlay, Take
    <3> QED
      BY <1>0, <2>2, <2>4, <3>1, <3>2, <3>3, <3>4, StepOfWorkerEvents
  <2> QED
    BY <2>2, <2>3, <2>4, UserKeeps, PlatformKeeps DEF Next, vars
<1>6. \A r \in accepted' : r <= asked'
  <2>1. CASE accepted' = accepted
    BY <1>0, <1>4, <2>1 DEF Requests, TypeOK
  <2>2. CASE MoveArrives
    <3>1. calling.command.request \in Nat /\ calling.command.request <= asked
      BY <1>0, <2>2, Numbers DEF MoveArrives, Requests
    <3> QED
      BY <1>0, <1>4, <2>2, <3>1 DEF MoveArrives, Requests, TypeOK
  <2> QED
    BY <2>1, <2>2, UserKeeps, WorkerKeeps, StoreKeeps
    DEF Next, vars, platformVars, Platform, StrayArrives, OpponentPlays, TakesBack,
        GameEnds
<1>7. calling' # None => calling'.command.request <= asked'
  <2>1. CASE calling' = calling
    BY <1>0, <1>4, <2>1, Numbers DEF Requests
  <2>2. CASE HandlePlay \/ HandleCall
    <3>1. /\ Head(commands) \in Range(commands)
          /\ calling' \in {calling, [command |-> Head(commands), applied |-> FALSE]}
      BY <1>0, <2>2, TakeQueue DEF HandlePlay, HandleCall
    <3>2. CASE calling' = [command |-> Head(commands), applied |-> FALSE]
      BY <1>1, <1>4, <3>1, <3>2
    <3> QED
      BY <2>1, <3>1, <3>2
  <2>3. CASE MoveArrives
    <3>1. /\ calling \in [command: Envelope, applied: BOOLEAN]
          /\ calling' = [calling EXCEPT !.applied = TRUE]
      BY <1>0, <2>3 DEF MoveArrives, TypeOK
    <3>2. calling'.command = calling.command /\ calling # None
      BY <2>3, <3>1 DEF MoveArrives
    <3> QED
      BY <1>0, <1>4, <3>2, Numbers DEF Requests
  <2> QED
    BY <2>1, <2>2, <2>3, UserKeeps, StoreKeeps
    DEF Next, vars, workerVars, Worker, HandleStart, HandleStop, CallSucceeds, CallFails,
        StreamEmits, StreamEnds, StreamBreaks, Platform, StrayArrives, OpponentPlays,
        TakesBack, GameEnds
<1>8. stream' # None => /\ stream'.request <= asked'
                        /\ \A c \in Range(commands') : stream'.request < c.request
  <2>1. ASSUME stream # None, stream' # None, stream'.request = stream.request
        PROVE  /\ stream'.request <= asked'
               /\ \A c \in Range(commands') : stream'.request < c.request
    <3>1. /\ stream.request \in Nat /\ stream.request <= asked
          /\ \A c \in Range(commands) : stream.request < c.request
      BY <1>0, <2>1, Numbers DEF Requests
    <3>2. ASSUME NEW kind \in {"start", "stop", "play", "action", "list"},
                 NEW m \in MyMove \cup {None}, Send(kind, m)
          PROVE  \A c \in Range(commands') : stream.request < c.request
      <4>1. /\ Range(commands') = Range(commands) \cup {Command(kind, m)}
            /\ Command(kind, m).request = asked + 1
        BY <1>0, <3>2, SendQueue
      <4> QED
        BY <1>1, <3>1, <4>1
    <3>3. ASSUME NEW kind, Take(kind)
          PROVE  \A c \in Range(commands') : stream.request < c.request
      BY <1>0, <3>1, <3>3, TakeQueue
    <3> QED
      BY <1>4, <2>1, <3>1, <3>2, <3>3, StepOfCommands
  <2>2. CASE HandleStart
    <3>1. /\ commands # <<>> /\ commands' = Tail(commands) /\ InOrder(commands)
          /\ stream'.request = Head(commands).request
      BY <1>0, <2>2 DEF HandleStart, Take, Requests
    <3>2. Head(commands) \in Range(commands)
      BY <1>0, <2>2, TakeQueue DEF HandleStart
    <3>3. \A c \in Range(commands') : Head(commands).request < c.request
      BY <1>1, <3>1, TakenInOrder
    <3> QED
      BY <1>1, <1>4, <3>1, <3>2, <3>3
  <2>3. CASE StreamEmits
    BY <1>0, <2>1, <2>3, StreamShows
  <2>4. CASE stream' = stream
    BY <2>1, <2>4
  <2> QED
    BY <2>2, <2>3, <2>4, UserKeeps, PlatformKeeps, StoreKeeps
    DEF Next, vars, workerVars, Worker, HandleStop, HandlePlay, HandleCall,
        CallSucceeds, CallFails, StreamEnds, StreamBreaks
<1> QED
  BY <1>2, <1>5, <1>6, <1>7, <1>8 DEF Requests


\* A pending start is given up, is replaced by a newer one, or stays while only
\* commands that neither start nor stop the stream are sent.
LEMMA StepOfStart ==
  ASSUME [Next]_vars
  PROVE  \/ start' = None
         \/ Send("start", None) /\ start' = asked + 1 /\ ~cancelled' /\ User
         \/ /\ UNCHANGED <<start, cancelled>>
            /\ \/ UNCHANGED <<commands, asked>>
               \/ \E kind \in {"play", "action", "list"},
                     m \in MyMove \cup {None} : Send(kind, m)
               \/ (\E kind \in {"start", "stop", "play", "action", "list"} : Take(kind))
                  /\ asked' = asked
<1>1. CASE UNCHANGED vars
  BY <1>1 DEF vars, workerVars, streamVars
<1>2. CASE User
  BY <1>2 DEF User, OpenLiveGame, ReconnectLiveGame, StartLiveGame,
     StopObservingLiveGame, PlayMove, PerformGameAction, RefreshLiveGames, Ask,
     streamVars
<1>3. CASE Worker
  <2>1. UNCHANGED <<start, cancelled, asked>>
    BY <1>3, WorkerKeeps
  <2> QED
    BY <1>3, <2>1 DEF Worker, HandleStart, HandleStop, HandlePlay, HandleCall,
       CallSucceeds, CallFails, StreamEmits, StreamEnds, StreamBreaks
<1>4. CASE Platform
  BY <1>4, PlatformKeeps
<1>5. CASE Store
  BY <1>5 DEF Store, ReceiveLiveGame, ReceiveStreamEnded, ReceiveMovePrediction,
     ReceiveMoveSubmitted, ReceiveActionCompleted, ReceiveError, ReceiveLiveGames,
     Receive
<1> QED
  BY <1>1, <1>2, <1>3, <1>4, <1>5 DEF Next

\* The call that is awaited is the same, or the command taken last.
LEMMA StepOfCalling ==
  ASSUME TypeOK, [Next]_vars
  PROVE  \/ calling' = None
         \/ calling # None /\ calling' # None /\ calling'.command = calling.command
         \/ /\ HandlePlay \/ HandleCall
            /\ calling' = [command |-> Head(commands), applied |-> FALSE]
<1>1. CASE calling' = calling
  BY <1>1
<1>2. CASE HandlePlay \/ HandleCall
  BY <1>1, <1>2 DEF HandlePlay, HandleCall
<1>3. CASE MoveArrives
  <2>1. /\ calling \in [command: Envelope, applied: BOOLEAN] /\ calling # None
        /\ calling' = [calling EXCEPT !.applied = TRUE]
    BY <1>3 DEF MoveArrives, TypeOK
  <2>2. calling'.command = calling.command
    BY <2>1
  <2>3. calling' \in [command: Envelope, applied: BOOLEAN]
    BY <2>1
  <2> QED
    BY <2>1, <2>2, <2>3, NoneAssumption
<1>4. CASE CallSucceeds \/ CallFails
  BY <1>4 DEF CallSucceeds, CallFails
<1> QED
  BY <1>1, <1>2, <1>3, <1>4, UserKeeps, StoreKeeps
  DEF Next, vars, workerVars, Worker, HandleStart, HandleStop, StreamEmits,
      StreamEnds, StreamBreaks, Platform, StrayArrives, OpponentPlays, TakesBack,
      GameEnds

LEMMA StartIsLastStep ==
  ASSUME OrderInv, [Next]_vars
  PROVE  StartIsLast'
<1>0. TypeOK /\ Requests /\ StartIsLast
  BY DEF OrderInv, IInv
<1>1. /\ asked \in Nat
      /\ \A c \in Range(commands) : c.request \in Nat /\ c.request <= asked
  BY <1>0, Numbers DEF TypeOK, Requests
<1> SUFFICES ASSUME start' # None PROVE StartIsLast'
  BY DEF StartIsLast
<1>2. CASE Send("start", None) /\ start' = asked + 1 /\ ~cancelled' /\ User
  <2>1. /\ asked' = asked + 1 /\ Command("start", None).request = asked + 1
        /\ Command("start", None).kind = "start"
        /\ Range(commands') = Range(commands) \cup {Command("start", None)}
    BY <1>0, <1>2, SendQueue
  <2>2. calling' = calling
    BY <1>2, UserKeeps
  <2>3. calling # None => calling.command.request \in Nat
                          /\ calling.command.request <= asked
    BY <1>0, Numbers DEF Requests
  <2>4. calling' # None => calling'.command.request # start'
    BY <1>1, <1>2, <2>2, <2>3
  <2>5. \A c \in Range(commands') : /\ c.request <= start'
                                    /\ c.request = start' => c.kind = "start"
    BY <1>1, <1>2, <2>1
  <2>6. start' <= asked'
    BY <1>1, <1>2, <2>1
  <2> QED
    BY <1>2, <2>4, <2>5, <2>6 DEF StartIsLast
<1>3. ASSUME UNCHANGED <<start, cancelled>>
      PROVE  /\ start # None /\ start \in Nat /\ ~cancelled' /\ start <= asked
             /\ calling # None => calling.command.request # start
             /\ \A c \in Range(commands) :
                  /\ c.kind \in {"start", "stop"} => c.request <= start
                  /\ c.request = start => c.kind = "start"
  BY <1>0, <1>3, Numbers DEF StartIsLast
<1>4. ASSUME UNCHANGED <<start, cancelled>>
      PROVE  calling' # None => calling'.command.request # start'
  <2>1. CASE /\ HandlePlay \/ HandleCall
             /\ calling' = [command |-> Head(commands), applied |-> FALSE]
    <3>1. /\ Head(commands) \in Range(commands)
          /\ Head(commands).kind \in {"play", "action", "list"}
      BY <1>0, <2>1, TakeQueue DEF HandlePlay, HandleCall
    <3>2. Head(commands).request # start
      BY <1>3, <1>4, <3>1
    <3> QED
      BY <1>4, <2>1, <3>2
  <2> QED
    BY <1>0, <1>3, <1>4, <2>1, StepOfCalling
<1>5. CASE UNCHANGED <<start, cancelled>> /\ UNCHANGED <<commands, asked>>
  BY <1>3, <1>4, <1>5 DEF StartIsLast
<1>6. ASSUME UNCHANGED <<start, cancelled>>, NEW kind \in {"play", "action", "list"},
             NEW m \in MyMove \cup {None}, Send(kind, m)
      PROVE  StartIsLast'
  <2>1. /\ asked' = asked + 1 /\ Command(kind, m).request = asked + 1
        /\ Command(kind, m).kind = kind
        /\ Range(commands') = Range(commands) \cup {Command(kind, m)}
    BY <1>0, <1>6, SendQueue
  <2>2. Command(kind, m).request # start /\ start' <= asked'
    BY <1>1, <1>3, <1>6, <2>1
  <2> QED
    BY <1>3, <1>4, <1>6, <2>1, <2>2 DEF StartIsLast
<1>7. ASSUME UNCHANGED <<start, cancelled>>, NEW kind, Take(kind), asked' = asked
      PROVE  StartIsLast'
  <2>1. Range(commands') \subseteq Range(commands)
    BY <1>0, <1>7, TakeQueue
  <2> QED
    BY <1>3, <1>4, <1>7, <2>1 DEF StartIsLast
<1> QED
  BY <1>2, <1>5, <1>6, <1>7, StepOfStart

\* The game goes on only at the platform, and only while it is not over.
LEMMA StepOfGame ==
  ASSUME TypeOK, [Next]_vars
  PROVE  \/ UNCHANGED history /\ Now' = Now
         \/ /\ Platform /\ ~Now.over
            /\ Len(history') = Len(history) + 1
            /\ \A i \in 1..Len(history) : history'[i] = history[i]
<1>1. \/ UNCHANGED history
      \/ Platform /\ \E game \in Snapshot : Becomes(game)
  <2>1. CASE Platform
    <3>1. ASSUME NEW m, Plays(m)
          PROVE  \E game \in Snapshot : Becomes(game)
      <4>1. m \in MyMove \cup TheirMove
        BY <3>1 DEF Plays, LegalMoves
      <4>2. [Now EXCEPT !.moves = Append(@, m)] \in Snapshot
        BY <4>1, NowIsSnapshot DEF Snapshot, Line
      <4> QED
        BY <3>1, <4>2 DEF Plays
    <3>2. ASSUME NEW n \in 1..2, n <= Len(Now.moves),
                 Becomes([Now EXCEPT !.moves = SubSeq(@, 1, Len(@) - n)])
          PROVE  \E game \in Snapshot : Becomes(game)
      <4> DEFINE game == [Now EXCEPT !.moves = SubSeq(@, 1, Len(@) - n)]
      <4>1. SubSeq(Now.moves, 1, Len(Now.moves) - n) \in Line
        BY <3>2, NowIsSnapshot DEF Snapshot, Line
      <4>2. game \in Snapshot /\ Becomes(game)
        BY <3>2, <4>1, NowIsSnapshot DEF Snapshot
      <4> HIDE DEF game
      <4> QED
        BY <4>2
    <3>3. CASE GameEnds
      <4> DEFINE game == [Now EXCEPT !.over = TRUE]
      <4>1. game \in Snapshot /\ Becomes(game)
        BY <3>3, NowIsSnapshot DEF GameEnds, Snapshot
      <4> HIDE DEF game
      <4> QED
        BY <2>1, <4>1
    <3> QED
      BY <2>1, <3>1, <3>2, <3>3 DEF Platform, MoveArrives, StrayArrives, OpponentPlays,
         TakesBack
  <2> QED
    BY <2>1, UserKeeps, WorkerKeeps, StoreKeeps DEF Next, vars, platformVars
<1>2. CASE UNCHANGED history
  BY <1>2 DEF Now
<1>3. ASSUME NEW game \in Snapshot, Becomes(game)
      PROVE  /\ ~Now.over
             /\ Len(history') = Len(history) + 1
             /\ \A i \in 1..Len(history) : history'[i] = history[i]
  <2>1. history \in Seq(Snapshot) /\ history' = Append(history, game) /\ ~Now.over
    BY <1>3 DEF TypeOK, Becomes
  <2> QED
    BY <2>1, LongerQueue
<1> QED
  BY <1>1, <1>2, <1>3


\* What is done at the platform stays done, and the stream stays at its end.
LEMMA DoneStays ==
  ASSUME OrderInv, [Next]_vars, PlatformDone
  PROVE  PlatformDone' /\ history' = history
<1>0. TypeOK /\ StreamIsCurrent /\ Now.over
  BY DEF OrderInv, IInv, PlatformDone
<1>1. UNCHANGED history /\ Now' = Now
  BY <1>0, StepOfGame
<1>2. stream # None => stream.seen \in Nat /\ stream.seen >= Len(history) - 1
  BY <1>0, Numbers DEF PlatformDone
<1>3. Len(history) \in Nat
  BY <1>0, NowIsSnapshot
<1>4. stream' # None => stream'.seen >= Len(history) - 1
  <2>1. CASE stream' = stream \/ stream' = None
    BY <1>2, <2>1
  <2>2. CASE HandleStart
    <3>1. stream'.seen = Len(history) - 1
      BY <2>2 DEF HandleStart
    <3> QED
      BY <1>3, <3>1
  <2>3. CASE StreamEmits
    <3>1. stream # None /\ stream.seen < stream'.seen /\ stream'.seen \in Nat
      BY <1>0, <1>3, <2>3, StreamShows
    <3> QED
      BY <1>2, <1>3, <3>1
  <2> QED
    BY <2>1, <2>2, <2>3, UserKeeps, PlatformKeeps, StoreKeeps
    DEF Next, vars, workerVars, Worker, HandleStop, HandlePlay, HandleCall,
        CallSucceeds, CallFails, StreamEnds, StreamBreaks
<1> QED
  BY <1>0, <1>1, <1>4 DEF PlatformDone

\* What a stream shows of a game that is over is the end.
LEMMA ShowsTheEnd ==
  ASSUME OrderInv, PlatformDone, StreamEmits
  PROVE  latest'.over
<1>0. TypeOK
  BY DEF OrderInv, IInv
<1>1. /\ stream # None /\ stream.seen \in Nat
      /\ stream'.seen \in 1..Len(history) /\ stream.seen < stream'.seen
      /\ latest' = history[stream'.seen] /\ Len(history) \in Nat
  BY <1>0, StreamShows
<1>2. stream.seen >= Len(history) - 1
  BY <1>1 DEF PlatformDone
<1>3. stream'.seen = Len(history)
  BY <1>1, <1>2
<1> QED
  BY <1>1, <1>3 DEF PlatformDone, Now

LEMMA EndedIsFinalStep ==
  ASSUME OrderInv, [Next]_vars
  PROVE  EndedIsFinal'
<1>0. TypeOK /\ EndedIsFinal
  BY DEF OrderInv, IInv
<1>1. ASSUME NEW i \in 1..Len(events), events[i].type = "ended"
      PROVE  /\ PlatformDone /\ PlatformDone'
             /\ \A j \in 1..Len(events) :
                  i < j /\ events[j].type = "updated" => events[j].game.over
  BY <1>0, <1>1, DoneStays DEF EndedIsFinal
<1>2. CASE events' = events
  BY <1>1, <1>2 DEF EndedIsFinal
<1>3. CASE Store
  <2> SUFFICES ASSUME NEW i \in 1..Len(events'), events'[i].type = "ended"
               PROVE  /\ PlatformDone'
                      /\ \A j \in 1..Len(events') :
                           i < j /\ events'[j].type = "updated" => events'[j].game.over
    BY DEF EndedIsFinal
  <2>1. /\ Len(events) \in Nat /\ Len(events') = Len(events) - 1
        /\ \A j \in 1..Len(events') : /\ j + 1 \in 1..Len(events)
                                      /\ events'[j] = events[j + 1]
    BY <1>0, <1>3, StoreKeeps, ReceiveQueue
  <2>2. \A j \in 1..Len(events') : i < j => i + 1 < j + 1
    BY <2>1
  <2> QED
    BY <1>1, <2>1, <2>2
<1>4. ASSUME Worker, NEW e \in Event, Emit(e),
             e.type = "ended" => StreamEnds,
             e.type = "updated" => StreamEmits /\ e.game = latest'
      PROVE  EndedIsFinal'
  <2> SUFFICES ASSUME NEW i \in 1..Len(events'), events'[i].type = "ended"
               PROVE  /\ PlatformDone'
                      /\ \A j \in 1..Len(events') :
                           i < j /\ events'[j].type = "updated" => events'[j].game.over
    BY DEF EndedIsFinal
  <2>1. /\ Len(events) \in Nat
        /\ 1..Len(events') = 1..Len(events) \cup {Len(events) + 1}
        /\ \A j \in 1..Len(events) : events'[j] = events[j]
        /\ events'[Len(events) + 1] = e
    BY <1>0, <1>4, EmitQueue
  <2>2. CASE i \in 1..Len(events)
    <3>1. PlatformDone /\ PlatformDone'
      BY <1>1, <2>1, <2>2
    <3>2. e.type = "updated" => e.game.over
      BY <1>4, <3>1, ShowsTheEnd
    <3> QED
      BY <1>1, <2>1, <2>2, <3>1, <3>2
  <2>3. CASE i = Len(events) + 1
    <3>1. StreamEnds
      BY <1>4, <2>1, <2>3
    <3>2. PlatformDone'
      BY <3>1 DEF StreamEnds, PlatformDone, platformVars, Now
    <3>3. \A j \in 1..Len(events') : ~(i < j)
      BY <2>1, <2>3
    <3> QED
      BY <3>2, <3>3
  <2> QED
    BY <2>1, <2>2, <2>3
<1>5. CASE Worker
  BY <1>0, <1>2, <1>4, <1>5, StepOfWorkerEvents DEF Error
<1> QED
  BY <1>2, <1>3, <1>5, UserKeeps, PlatformKeeps DEF Next, vars

LEMMA OverIsLastStep ==
  ASSUME OrderInv, [Next]_vars
  PROVE  OverIsLast'
<1>0. TypeOK /\ OverIsLast
  BY DEF OrderInv, IInv
<1>1. Len(history) \in Nat \ {0}
  BY <1>0, NowIsSnapshot
<1>2. CASE UNCHANGED history
  BY <1>0, <1>2 DEF OverIsLast
<1>3. CASE /\ ~Now.over /\ Len(history') = Len(history) + 1
           /\ \A i \in 1..Len(history) : history'[i] = history[i]
  <2>1. ASSUME NEW i \in 1..Len(history) PROVE ~history'[i].over
    BY <1>0, <1>1, <1>3 DEF OverIsLast, Now
  <2>2. \A i \in 1..Len(history') : i \in 1..Len(history) \/ i = Len(history')
    BY <1>1, <1>3
  <2> QED
    BY <2>1, <2>2 DEF OverIsLast
<1> QED
  BY <1>0, <1>2, <1>3, StepOfGame

LEMMA StreamIsCurrentStep ==
  ASSUME OrderInv, [Next]_vars
  PROVE  StreamIsCurrent'
<1>0. TypeOK /\ StreamIsCurrent
  BY DEF OrderInv, IInv
<1>1. Len(history) \in Nat \ {0}
  BY <1>0, NowIsSnapshot
<1>2. stream # None => stream.seen \in Nat
  BY <1>0, Numbers
<1>3. CASE UNCHANGED <<stream, latest>>
  <2>1. CASE UNCHANGED history /\ Now' = Now
    BY <1>0, <1>3, <2>1 DEF StreamIsCurrent
  <2>2. CASE Len(history') = Len(history) + 1
    <3>1. stream # None => stream.seen <= Len(history') /\ stream.seen # Len(history')
      BY <1>0, <1>1, <1>2, <2>2 DEF StreamIsCurrent
    <3> QED
      BY <1>3, <3>1 DEF StreamIsCurrent
  <2> QED
    BY <1>0, <2>1, <2>2, StepOfGame
<1>4. CASE stream' = None
  BY <1>4 DEF StreamIsCurrent
<1>5. CASE HandleStart
  <2>1. stream'.seen = Len(history) - 1 /\ history' = history
    BY <1>5 DEF HandleStart, platformVars
  <2> QED
    BY <1>1, <2>1 DEF StreamIsCurrent
<1>6. CASE StreamEmits
  <2>1. /\ stream'.seen \in 1..Len(history) /\ latest' = history[stream'.seen]
        /\ history' = history
    BY <1>0, <1>6, StreamShows
  <2> QED
    BY <1>1, <2>1 DEF StreamIsCurrent, Now
<1> QED
  BY <1>3, <1>4, <1>5, <1>6, UserKeeps, PlatformKeeps, StoreKeeps
  DEF Next, vars, workerVars, Worker, HandleStop, HandlePlay, HandleCall,
      CallSucceeds, CallFails, StreamEnds, StreamBreaks


\* Without a stream and a start in the queue there is none in the next state,
\* unless one is asked for.
LEMMA NoStartStays ==
  ASSUME OrderInv, [Next]_vars, NoStart, start' = None \/ UNCHANGED start
  PROVE  NoStart'
<1>0. TypeOK /\ Requests /\ StartIsLast /\ stream = None
      /\ \A c \in Range(commands) : c.kind # "start"
  BY DEF OrderInv, IInv, NoStart
<1>1. stream' = None
  <2>1. ~HandleStart
    BY <1>0, TakeQueue DEF HandleStart
  <2> QED
    BY <1>0, <2>1, UserKeeps, PlatformKeeps, StoreKeeps
    DEF Next, vars, workerVars, Worker, HandleStop, HandlePlay, HandleCall,
        CallSucceeds, CallFails, StreamEmits, StreamEnds, StreamBreaks
<1>2. ASSUME NEW kind \in {"stop", "play", "action", "list"},
             NEW m \in MyMove \cup {None}, Send(kind, m)
      PROVE  \A c \in Range(commands') : c.kind # "start"
  <2>1. /\ Range(commands') = Range(commands) \cup {Command(kind, m)}
        /\ Command(kind, m).kind = kind
    BY <1>0, <1>2, SendQueue
  <2> QED
    BY <1>0, <1>2, <2>1
<1>3. ASSUME NEW kind, Take(kind)
      PROVE  \A c \in Range(commands') : c.kind # "start"
  BY <1>0, <1>3, TakeQueue
<1>4. \A c \in Range(commands') : c.kind # "start"
  <2>1. CASE UNCHANGED commands
    BY <1>0, <2>1
  <2>2. CASE User
    <3>1. ~(\E preserving : StartLiveGame(preserving))
      <4> SUFFICES ASSUME NEW preserving, StartLiveGame(preserving) PROVE FALSE
        OBVIOUS
      <4>1. start' = asked + 1 /\ asked \in Nat
        BY <1>0 DEF StartLiveGame, TypeOK
      <4>2. start' # None
        BY <4>1, NoneAssumption
      <4>3. start # None => start <= asked /\ start \in Nat
        BY <1>0, Numbers DEF StartIsLast
      <4> QED
        BY <4>1, <4>2, <4>3
    <3> QED
      BY <1>2, <2>1, <2>2, <3>1 DEF User, OpenLiveGame, ReconnectLiveGame,
         StopObservingLiveGame, PlayMove, PerformGameAction, RefreshLiveGames, Ask
  <2>3. CASE Worker
    BY <1>3, <2>1, <2>3 DEF Worker, HandleStart, HandleStop, HandlePlay, HandleCall,
       CallSucceeds, CallFails, StreamEmits, StreamEnds, StreamBreaks
  <2>4. CASE Store
    BY <1>2, <2>1, <2>4 DEF Store, ReceiveLiveGame, ReceiveStreamEnded,
       ReceiveMovePrediction, ReceiveMoveSubmitted, ReceiveActionCompleted,
       ReceiveError, ReceiveLiveGames
  <2> QED
    BY <2>1, <2>2, <2>3, <2>4, PlatformKeeps DEF Next, vars, workerVars
<1> QED
  BY <1>1, <1>4 DEF NoStart

\* Which error can be the one of the pending start: that of its stream.
LEMMA ErrorOfStart ==
  ASSUME OrderInv, start # None
  PROVE  /\ CallFails => calling.command.request # start
         /\ HandlePlay => Head(commands).request # start
         /\ StreamBreaks /\ stream.request = start => NoStart'
<1>0. TypeOK /\ Requests /\ StartIsLast
  BY DEF OrderInv, IInv
<1>1. ASSUME HandlePlay PROVE Head(commands).request # start
  <2>1. Head(commands).kind = "play" /\ Head(commands) \in Range(commands)
    BY <1>0, <1>1, TakeQueue DEF HandlePlay
  <2> QED
    BY <1>0, <2>1 DEF StartIsLast
<1>2. ASSUME StreamBreaks, stream.request = start PROVE NoStart'
  <2>1. /\ stream # None /\ stream' = None /\ commands' = commands
        /\ \A c \in Range(commands) : start < c.request /\ c.request \in Nat
    BY <1>0, <1>2, Numbers DEF StreamBreaks, Requests
  <2>2. \A c \in Range(commands) : c.kind = "start" => c.request <= start
    BY <1>0 DEF StartIsLast
  <2>3. \A c \in Range(commands) : c.kind # "start"
    BY <1>0, <2>1, <2>2, Numbers
  <2> QED
    BY <2>1, <2>3 DEF NoStart
<1> QED
  BY <1>0, <1>1, <1>2 DEF CallFails, StartIsLast

LEMMA ErrorIsFinalStep ==
  ASSUME OrderInv, [Next]_vars
  PROVE  ErrorIsFinal'
<1>0. TypeOK /\ Requests /\ ErrorIsFinal
  BY DEF OrderInv, IInv
<1> SUFFICES ASSUME start' # None,
                    NEW i \in 1..Len(events'),
                    events'[i].type = "error", events'[i].request = start'
             PROVE  /\ NoStart'
                    /\ \A j \in 1..Len(events') : i < j => events'[j].type # "updated"
  BY DEF ErrorIsFinal
<1>1. CASE Send("start", None) /\ start' = asked + 1 /\ User
  <2>1. events' = events /\ asked \in Nat
    BY <1>0, <1>1, UserKeeps DEF TypeOK
  <2>2. events[i] \in Event /\ events[i].request <= asked
    BY <1>0, <2>1 DEF Requests, TypeOK
  <2>3. events[i].request \in Nat
    BY <2>1, <2>2, EventFields
  <2> QED
    BY <1>1, <2>1, <2>2, <2>3
<1>2. CASE start' = start
  <2>1. ASSUME NEW k \in 1..Len(events), events[k].type = "error",
               events[k].request = start
        PROVE  /\ NoStart /\ NoStart'
               /\ \A j \in 1..Len(events) : k < j => events[j].type # "updated"
    BY <1>0, <1>2, <2>1, NoStartStays DEF ErrorIsFinal
  <2>2. CASE events' = events
    BY <1>2, <2>1, <2>2
  <2>3. CASE Store
    <3>1. /\ Len(events) \in Nat /\ Len(events') = Len(events) - 1
          /\ \A j \in 1..Len(events') : /\ j + 1 \in 1..Len(events)
                                        /\ events'[j] = events[j + 1]
      BY <1>0, <2>3, StoreKeeps, ReceiveQueue
    <3>2. \A j \in 1..Len(events') : i < j => i + 1 < j + 1
      BY <3>1
    <3> QED
      BY <1>2, <2>1, <3>1, <3>2
  <2>4. ASSUME Worker, NEW e \in Event, Emit(e),
               e.type = "updated" => StreamEmits,
               e.type = "error" => \/ StreamBreaks /\ e.request = stream.request
                                   \/ CallFails /\ e.request = calling.command.request
                                   \/ HandlePlay /\ e.request = Head(commands).request
        PROVE  /\ NoStart'
               /\ \A j \in 1..Len(events') : i < j => events'[j].type # "updated"
    <3>1. /\ Len(events) \in Nat
          /\ 1..Len(events') = 1..Len(events) \cup {Len(events) + 1}
          /\ \A j \in 1..Len(events) : events'[j] = events[j]
          /\ events'[Len(events) + 1] = e
      BY <1>0, <2>4, EmitQueue
    <3>2. CASE i \in 1..Len(events)
      <4>1. /\ NoStart /\ NoStart'
            /\ \A j \in 1..Len(events) : i < j => events[j].type # "updated"
        BY <1>2, <2>1, <3>1, <3>2
      <4>2. e.type # "updated"
        BY <2>4, <4>1 DEF StreamEmits, NoStart
      <4> QED
        BY <3>1, <4>1, <4>2
    <3>3. CASE i = Len(events) + 1
      <4>1. e.type = "error" /\ e.request = start /\ start # None
        BY <1>2, <3>1, <3>3
      <4>2. NoStart'
        BY <2>4, <4>1, ErrorOfStart
      <4>3. \A j \in 1..Len(events') : ~(i < j)
        BY <3>1, <3>3
      <4> QED
        BY <4>2, <4>3
    <3> QED
      BY <3>1, <3>2, <3>3
  <2>5. CASE Worker
    BY <1>0, <2>2, <2>4, <2>5, StepOfWorkerEvents DEF Error
  <2> QED
    BY <2>2, <2>3, <2>5, UserKeeps, PlatformKeeps DEF Next, vars
<1> QED
  BY <1>1, <1>2, StepOfStart

LEMMA StartIsPendingStep ==
  ASSUME OrderInv, [Next]_vars
  PROVE  StartIsPending'
<1>0. TypeOK /\ Requests /\ StartIsLast /\ StartIsPending
  BY DEF OrderInv, IInv
<1> SUFFICES ASSUME start' # None PROVE StartIsPending'
  BY DEF StartIsPending
<1>1. CASE Send("start", None) /\ start' = asked + 1
  <2>1. /\ Range(commands') = Range(commands) \cup {Command("start", None)}
        /\ Command("start", None).request = asked + 1
    BY <1>0, <1>1, SendQueue
  <2> QED
    BY <1>1, <2>1 DEF StartIsPending
<1>2. CASE start' = start
  <2> DEFINE Tells(e) == e.type = "ended" \/ (e.type = "error" /\ e.request = start)
  <2>1. \/ \E c \in Range(commands) : c.request = start
        \/ stream # None /\ stream.request = start
        \/ \E i \in 1..Len(events) : Tells(events[i])
    <3>1. start # None
      BY <1>2
    <3> QED
      BY <1>0, <3>1 DEF StartIsPending
  <2>2. ASSUME \/ \E c \in Range(commands') : c.request = start
               \/ stream' # None /\ stream'.request = start
               \/ \E i \in 1..Len(events') : Tells(events'[i])
        PROVE  StartIsPending'
    BY <1>2, <2>2 DEF StartIsPending
  <2>3. ASSUME NEW i \in 1..Len(events), Tells(events[i])
        PROVE  \E j \in 1..Len(events') : Tells(events'[j])
    <3>1. CASE events' = events
      BY <2>3, <3>1
    <3>2. CASE Worker
      <4>1. ASSUME NEW e \in Event, Emit(e)
            PROVE  i \in 1..Len(events') /\ events'[i] = events[i]
        BY <1>0, <4>1, EmitQueue
      <4> QED
        BY <1>0, <2>3, <3>1, <3>2, <4>1, StepOfWorkerEvents
    <3>3. CASE Store
      <4>1. /\ Head(events) = events[1]
            /\ i # 1 => i - 1 \in 1..Len(events') /\ events'[i - 1] = events[i]
        BY <1>0, <3>3, StoreKeeps, ReceiveQueue
      <4>2. i # 1
        <5>1. ASSUME Head(events).type = "ended" PROVE start' = None
          BY <3>3, <5>1 DEF Store, ReceiveLiveGame, ReceiveStreamEnded,
             ReceiveMovePrediction, ReceiveMoveSubmitted, ReceiveActionCompleted,
             ReceiveError, ReceiveLiveGames, Receive
        <5>2. ASSUME Head(events).type = "error", Head(events).request = start
              PROVE  start' = None
          BY <3>3, <5>2 DEF Store, ReceiveLiveGame, ReceiveStreamEnded,
             ReceiveMovePrediction, ReceiveMoveSubmitted, ReceiveActionCompleted,
             ReceiveError, ReceiveLiveGames, Receive, EndsStream
        <5> QED
          BY <2>3, <4>1, <5>1, <5>2
      <4> QED
        BY <2>3, <4>1, <4>2
    <3> QED
      BY <3>1, <3>2, <3>3, UserKeeps, PlatformKeeps DEF Next, vars
  <2>4. ASSUME stream # None, stream.request = start
        PROVE  \/ stream' # None /\ stream'.request = start
               \/ \E j \in 1..Len(events') : Tells(events'[j])
    <3>1. CASE stream' = stream
      BY <2>4, <3>1
    <3>2. CASE HandleStart \/ HandleStop
      <4>1. /\ Head(commands) \in Range(commands)
            /\ Head(commands).kind \in {"start", "stop"}
            /\ Head(commands).request \in Nat
        BY <1>0, <3>2, TakeQueue DEF HandleStart, HandleStop
      <4>2. stream.request < Head(commands).request /\ start \in Nat
        BY <1>0, <1>2, <2>4, <4>1, Numbers DEF Requests
      <4>3. Head(commands).request <= start
        BY <1>0, <1>2, <4>1 DEF StartIsLast
      <4> QED
        BY <2>4, <4>1, <4>2, <4>3
    <3>3. CASE StreamEmits
      <4>1. stream' \in [request: Nat, seen: Nat] /\ stream'.request = stream.request
        <5>1. TypeOK'
          BY <1>0, TypeStep
        <5>2. stream \in [request: Nat, seen: Nat] /\ Len(history) \in Nat
          BY <1>0, <2>4, NowIsSnapshot DEF TypeOK
        <5>3. PICK k \in (stream.seen + 1)..Len(history) :
                stream' = [stream EXCEPT !.seen = k]
          BY <3>3 DEF StreamEmits
        <5> QED
          BY <5>2, <5>3
      <4>2. stream' # None
        BY <4>1, NoneAssumption
      <4> QED
        BY <2>4, <4>1, <4>2
    <3>4. CASE StreamEnds \/ StreamBreaks
      <4>1. stream.request \in Nat
        BY <1>0, <2>4, Numbers
      <4>2. [type |-> "ended"] \in Event /\ Error(stream.request) \in Event
        BY <4>1 DEF Event, Error
      <4>3. Tells([type |-> "ended"])
        OBVIOUS
      <4>4. Tells(Error(stream.request))
        BY <2>4 DEF Error
      <4>5. ASSUME NEW e \in Event, Emit(e), Tells(e)
            PROVE  \E j \in 1..Len(events') : Tells(events'[j])
        <5>1. /\ Len(events) + 1 \in 1..Len(events')
              /\ events'[Len(events) + 1] = e
          BY <1>0, <4>5, EmitQueue
        <5> QED
          BY <4>5, <5>1
      <4> HIDE DEF Tells
      <4> QED
        BY <3>4, <4>2, <4>3, <4>4, <4>5 DEF StreamEnds, StreamBreaks
    <3> QED
      BY <3>1, <3>2, <3>3, <3>4, UserKeeps, PlatformKeeps, StoreKeeps
      DEF Next, vars, workerVars, Worker, HandlePlay, HandleCall, CallSucceeds,
          CallFails
  <2>5. ASSUME NEW c \in Range(commands), c.request = start
        PROVE  \/ c \in Range(commands')
               \/ stream' # None /\ stream'.request = start
    <3>1. ASSUME NEW kind \in {"start", "stop", "play", "action", "list"},
                 Take(kind), c \notin Range(commands')
          PROVE  c = Head(commands) /\ kind = "start"
      <4>1. c = Head(commands) /\ Head(commands).kind = kind
        BY <1>0, <3>1, TakeQueue
      <4>2. c.kind = "start"
        BY <1>0, <1>2, <2>5 DEF StartIsLast
      <4> QED
        BY <4>1, <4>2
    <3>2. CASE HandleStart
      <4>1. c.request \in Nat /\ Len(history) \in Nat \ {0}
        BY <1>0, Numbers, NowIsSnapshot
      <4>2. ASSUME c = Head(commands)
            PROVE  stream' # None /\ stream'.request = start
        <5>1. stream' = [request |-> c.request, seen |-> Len(history) - 1]
          BY <3>2, <4>2 DEF HandleStart
        <5>2. stream' \in [request: Nat, seen: Nat]
          BY <4>1, <5>1
        <5> QED
          BY <2>5, <5>1, <5>2, NoneAssumption
      <4> QED
        BY <3>1, <3>2, <4>2 DEF HandleStart
    <3>3. ASSUME NEW kind, NEW m \in MyMove \cup {None},
                 kind \in {"start", "stop", "play", "action", "list"}, Send(kind, m)
          PROVE  c \in Range(commands')
      BY <1>0, <3>3, SendQueue
    <3>4. CASE User \/ Store
      BY <3>3, <3>4 DEF User, OpenLiveGame, ReconnectLiveGame, StartLiveGame,
         StopObservingLiveGame, PlayMove, PerformGameAction, RefreshLiveGames, Ask,
         Store, ReceiveLiveGame, ReceiveStreamEnded, ReceiveMovePrediction,
         ReceiveMoveSubmitted, ReceiveActionCompleted, ReceiveError, ReceiveLiveGames
    <3>5. CASE HandleStop \/ HandlePlay \/ HandleCall
      BY <3>1, <3>5 DEF HandleStop, HandlePlay, HandleCall
    <3> QED
      BY <3>2, <3>4, <3>5, PlatformKeeps DEF Next, vars, workerVars, Worker,
         CallSucceeds, CallFails, StreamEmits, StreamEnds, StreamBreaks
  <2> QED
    BY <2>1, <2>2, <2>3, <2>4, <2>5
<1> QED
  BY <1>1, <1>2, StepOfStart


\* The end of the stream, or its error, is behind all of its snapshots.
LEMMA EndIsKnownStep ==
  ASSUME OrderInv, [Next]_vars
  PROVE  EndIsKnown'
<1>0. TypeOK /\ Requests /\ EndedIsFinal /\ ErrorIsFinal /\ EndIsKnown
  BY DEF OrderInv, IInv
<1> SUFFICES ASSUME start' = None, ~cancelled'
             PROVE  NothingArrives' \/ OnlyTheEndArrives'
  BY DEF EndIsKnown
<1>1. ~StopObservingLiveGame /\ ~(\E preserving : StartLiveGame(preserving))
  <2>1. ~StopObservingLiveGame
    BY DEF StopObservingLiveGame
  <2>2. ASSUME NEW preserving, StartLiveGame(preserving) PROVE FALSE
    <3>1. start' = asked + 1 /\ asked \in Nat
      BY <1>0, <2>2 DEF StartLiveGame, TypeOK
    <3> QED
      BY <3>1, NoneAssumption
  <2> QED
    BY <2>1, <2>2
<1>2. cancelled' = cancelled
  BY <1>1, WorkerKeeps, PlatformKeeps, StoreKeeps
  DEF Next, vars, User, OpenLiveGame, ReconnectLiveGame, PlayMove,
      PerformGameAction, RefreshLiveGames
<1>3. /\ User => UNCHANGED <<live, connected, events>>
      /\ Worker => UNCHANGED <<live, connected>>
      /\ Platform => UNCHANGED <<live, connected, events>>
  BY <1>1, UserKeeps, WorkerKeeps, PlatformKeeps
  DEF User, OpenLiveGame, ReconnectLiveGame, PlayMove, PerformGameAction,
      RefreshLiveGames, boardVars, streamVars
<1>4. CASE ReceiveStreamEnded
  <2>1. /\ Len(events) \in Nat /\ Len(events') = Len(events) - 1
        /\ 1 \in 1..Len(events) /\ events[1].type = "ended"
        /\ \A j \in 1..Len(events') : /\ j + 1 \in 1..Len(events) /\ 1 < j + 1
                                      /\ events'[j] = events[j + 1]
    BY <1>0, <1>4, ReceiveQueue DEF ReceiveStreamEnded
  <2>2. /\ PlatformDone
        /\ \A j \in 1..Len(events) :
             1 < j /\ events[j].type = "updated" => events[j].game.over
    BY <1>0, <2>1 DEF EndedIsFinal
  <2>3. PlatformDone'
    BY <2>2, DoneStays
  <2>4. connected' = FALSE
    BY <1>4 DEF ReceiveStreamEnded
  <2> QED
    BY <2>1, <2>2, <2>3, <2>4 DEF OnlyTheEndArrives
<1>5. CASE ReceiveError /\ start # None
  <2>1. /\ Len(events) \in Nat /\ Len(events') = Len(events) - 1
        /\ 1 \in 1..Len(events) /\ events[1].type = "error" /\ events[1] = Head(events)
        /\ \A j \in 1..Len(events') : /\ j + 1 \in 1..Len(events) /\ 1 < j + 1
                                      /\ events'[j] = events[j + 1]
    BY <1>0, <1>5, ReceiveQueue DEF ReceiveError
  <2>2. events[1].request = start /\ connected' = FALSE
    BY <1>5, <2>1 DEF ReceiveError, EndsStream
  <2>3. /\ NoStart
        /\ \A j \in 1..Len(events) : 1 < j => events[j].type # "updated"
    BY <1>0, <1>5, <2>1, <2>2 DEF ErrorIsFinal
  <2>4. NoStart'
    BY <2>3, NoStartStays
  <2> QED
    BY <2>1, <2>2, <2>3, <2>4 DEF NothingArrives
<1>6. CASE start # None /\ ~ReceiveStreamEnded /\ ~ReceiveError
  <2>1. start' = start
    BY <1>1, <1>6, WorkerKeeps, PlatformKeeps
    DEF Next, vars, streamVars, User, OpenLiveGame, ReconnectLiveGame, PlayMove,
        PerformGameAction, RefreshLiveGames, Store, ReceiveLiveGame,
        ReceiveMovePrediction, ReceiveMoveSubmitted, ReceiveActionCompleted,
        ReceiveLiveGames
  <2> QED
    BY <1>6, <2>1
<1>7. CASE start = None /\ NothingArrives
  <2>1. NoStart /\ NoStart' /\ ~connected
    BY <1>7, NoStartStays DEF NothingArrives
  <2>2. \A i \in 1..Len(events) : events[i].type # "updated"
    BY <1>7 DEF NothingArrives
  <2>3. CASE Store
    <3>1. /\ 1 \in 1..Len(events) /\ events[1] = Head(events)
          /\ \A j \in 1..Len(events') : /\ j + 1 \in 1..Len(events)
                                        /\ events'[j] = events[j + 1]
      BY <1>0, <2>3, StoreKeeps, ReceiveQueue
    <3>2. ~ReceiveLiveGame
      BY <2>2, <3>1 DEF ReceiveLiveGame, Receive
    <3>3. connected' = FALSE
      BY <2>1, <2>3, <3>2 DEF Store, ReceiveStreamEnded, ReceiveMovePrediction,
         ReceiveMoveSubmitted, ReceiveActionCompleted, ReceiveError, ReceiveLiveGames
    <3> QED
      BY <2>1, <2>2, <3>1, <3>3 DEF NothingArrives
  <2>4. CASE Worker
    <3>1. ASSUME NEW e \in Event, Emit(e), e.type # "updated"
          PROVE  \A i \in 1..Len(events') : events'[i].type # "updated"
      BY <1>0, <2>2, <3>1, EmitQueue
    <3>2. ~StreamEmits
      BY <2>1 DEF StreamEmits, NoStart
    <3>3. \A i \in 1..Len(events') : events'[i].type # "updated"
      BY <1>0, <2>2, <2>4, <3>1, <3>2, StepOfWorkerEvents DEF Error
    <3> QED
      BY <1>3, <2>1, <2>4, <3>3 DEF NothingArrives
  <2> QED
    BY <1>3, <2>1, <2>2, <2>3, <2>4 DEF NothingArrives, Next, vars, streamVars
<1>8. CASE start = None /\ OnlyTheEndArrives
  <2>1. PlatformDone /\ PlatformDone'
    BY <1>8, DoneStays DEF OnlyTheEndArrives
  <2>2. /\ connected => live # None /\ live.over
        /\ \A i \in 1..Len(events) : events[i].type = "updated" => events[i].game.over
    BY <1>8 DEF OnlyTheEndArrives
  <2>3. CASE Store
    <3>1. /\ 1 \in 1..Len(events) /\ events[1] = Head(events) /\ Head(events) \in Event
          /\ \A j \in 1..Len(events') : /\ j + 1 \in 1..Len(events)
                                        /\ events'[j] = events[j + 1]
      BY <1>0, <2>3, StoreKeeps, ReceiveQueue
    <3>2. CASE ReceiveLiveGame
      <4>1. Head(events).type = "updated" /\ Head(events).game \in Snapshot
        BY <3>1, <3>2, EventFields DEF ReceiveLiveGame, Receive
      <4>2. Head(events).game.over /\ Head(events).game # None
        BY <2>2, <3>1, <4>1, NoneAssumption
      <4>3. connected' => live' # None /\ live'.over
        BY <2>2, <3>2, <4>2 DEF ReceiveLiveGame, boardVars
      <4> QED
        BY <2>1, <2>2, <3>1, <4>3 DEF OnlyTheEndArrives
    <3>3. CASE ~ReceiveLiveGame
      <4>1. live' = live /\ connected' \in {connected, FALSE}
        BY <2>3, <3>3 DEF Store, ReceiveStreamEnded, ReceiveMovePrediction,
           ReceiveMoveSubmitted, ReceiveActionCompleted, ReceiveError,
           ReceiveLiveGames, boardVars
      <4> QED
        BY <2>1, <2>2, <3>1, <4>1 DEF OnlyTheEndArrives
    <3> QED
      BY <3>2, <3>3
  <2>4. CASE Worker
    <3>1. ASSUME NEW e \in Event, Emit(e), e.type = "updated" => e.game.over
          PROVE  \A i \in 1..Len(events') :
                   events'[i].type = "updated" => events'[i].game.over
      BY <1>0, <2>2, <3>1, EmitQueue
    <3>2. StreamEmits => latest'.over
      BY <2>1, ShowsTheEnd
    <3>3. \A i \in 1..Len(events') :
            events'[i].type = "updated" => events'[i].game.over
      BY <1>0, <2>2, <2>4, <3>1, <3>2, StepOfWorkerEvents DEF Error
    <3> QED
      BY <1>3, <2>1, <2>2, <2>4, <3>3 DEF OnlyTheEndArrives
  <2> QED
    BY <1>3, <2>1, <2>2, <2>3, <2>4 DEF OnlyTheEndArrives, Next, vars, boardVars,
       streamVars
<1> QED
  BY <1>0, <1>2, <1>4, <1>5, <1>6, <1>7, <1>8 DEF EndIsKnown


-----------------------------------------------------------------------------
(* What the store sees when it reads an event.                             *)

LEMMA SeesLonger ==
  ASSUME TypeOK, NEW e \in Event, Emit(e), live' = live, NEW g,
         NEW n \in 1..(Len(events) + 1), Sees(n, g)
  PROVE  Sees(n, g)'
<1>1. /\ Len(events) \in Nat
      /\ \A i \in 1..Len(events) : events'[i] = events[i]
  BY EmitQueue
<1>2. \A i \in 1..(n - 1) : events'[i] = events[i]
  BY <1>1
<1> QED
  BY <1>2 DEF Sees

\* The next event does not change what is seen behind it, or shows it.
LEMMA SeesNext ==
  ASSUME TypeOK, NEW e \in Event, Emit(e), live' = live, NEW g,
         NEW n, n = Len(events) + 1,
         \/ e.type = "updated" /\ e.game = g
         \/ e.type # "updated" /\ Sees(n, g)
  PROVE  Sees(n + 1, g)'
<1>1. /\ Len(events) \in Nat /\ n \in Nat \ {0} /\ n - 1 = Len(events)
      /\ \A i \in 1..(n - 1) : events'[i] = events[i]
      /\ events'[n] = e
  BY EmitQueue
<1>2. /\ (n + 1) - 1 = n /\ 1..n = 1..(n - 1) \cup {n}
      /\ \A j \in 1..n : j <= n
  BY <1>1
<1>3. CASE e.type = "updated" /\ e.game = g
  <2>1. n \in 1..n /\ events'[n].type = "updated" /\ events'[n].game = g
    BY <1>1, <1>2, <1>3
  <2>2. \E i \in 1..n :
          /\ events'[i].type = "updated" /\ events'[i].game = g
          /\ \A j \in 1..n : events'[j].type = "updated" => j <= i
    BY <1>2, <2>1
  <2> QED
    BY <1>2, <2>2 DEF Sees
<1>4. CASE e.type # "updated" /\ Sees(n, g)
  <2>1. CASE /\ \A i \in 1..(n - 1) : events[i].type # "updated"
             /\ live = None \/ live.over \/ live = g
    <3>1. \A i \in 1..n : events'[i].type # "updated"
      BY <1>1, <1>2, <1>4, <2>1
    <3> QED
      BY <1>2, <2>1, <3>1 DEF Sees
  <2>2. ASSUME NEW i \in 1..(n - 1), events[i].type = "updated", events[i].game = g,
               \A j \in 1..(n - 1) : events[j].type = "updated" => j <= i
        PROVE  Sees(n + 1, g)'
    <3>1. /\ i \in 1..n /\ events'[i].type = "updated" /\ events'[i].game = g
          /\ \A j \in 1..n : events'[j].type = "updated" => j <= i
      BY <1>1, <1>2, <1>4, <2>2
    <3> QED
      BY <1>2, <3>1 DEF Sees
  <2> QED
    BY <1>4, <2>1, <2>2 DEF Sees
<1> QED
  BY <1>3, <1>4

\* The head of the queue becomes the board, or is ignored by a store that has
\* none or a finished one.
LEMMA SeesShorter ==
  ASSUME TypeOK, NEW type, Receive(type), NEW g,
         NEW n \in 2..(Len(events) + 1), Sees(n, g),
         IF type = "updated"
         THEN \/ live' = Head(events).game
              \/ live' = live /\ (live = None \/ live.over)
         ELSE live' = live
  PROVE  Sees(n - 1, g)'
<1>1. /\ Head(events) = events[1] /\ events[1].type = type
      /\ Len(events) \in Nat \ {0} /\ Len(events') = Len(events) - 1
      /\ \A i \in 1..Len(events') : /\ i + 1 \in 1..Len(events)
                                    /\ events'[i] = events[i + 1]
      /\ \A i \in 1..Len(events) : i # 1 => /\ i - 1 \in 1..Len(events')
                                            /\ events'[i - 1] = events[i]
  BY ReceiveQueue
<1>2. PICK k \in Nat : k = n - 2
  BY <1>1
<1>3. /\ (n - 1) - 1 = k /\ n - 1 = k + 1 /\ k <= Len(events')
      /\ 1 \in 1..(k + 1)
      /\ \A i \in 1..k : i + 1 \in 1..(k + 1) /\ i + 1 # 1 /\ events'[i] = events[i + 1]
  BY <1>1, <1>2
<1>4. CASE /\ \A i \in 1..(k + 1) : events[i].type # "updated"
           /\ live = None \/ live.over \/ live = g
  <2>1. type # "updated" /\ live' = live
    BY <1>1, <1>3, <1>4
  <2>2. \A i \in 1..k : events'[i].type # "updated"
    BY <1>3, <1>4
  <2> QED
    BY <1>3, <1>4, <2>1, <2>2 DEF Sees
<1>5. ASSUME NEW i \in 1..(k + 1), events[i].type = "updated", events[i].game = g,
             \A j \in 1..(k + 1) : events[j].type = "updated" => j <= i
      PROVE  Sees(n - 1, g)'
  <2>1. CASE i = 1
    <3>1. ASSUME NEW j \in 1..k PROVE events'[j].type # "updated"
      <4>1. j + 1 \in 1..(k + 1) /\ ~(j + 1 <= 1) /\ events'[j] = events[j + 1]
        BY <1>3
      <4> QED
        BY <1>5, <2>1, <4>1
    <3>2. live' = g \/ live' = None \/ live'.over
      BY <1>1, <1>5, <2>1
    <3> QED
      BY <1>3, <3>1, <3>2 DEF Sees
  <2>2. CASE i # 1
    <3>1. PICK h \in 1..k : h = i - 1 /\ i = h + 1
      BY <1>2, <2>2
    <3>2. events'[h].type = "updated" /\ events'[h].game = g
      BY <1>3, <1>5, <3>1
    <3>3. ASSUME NEW j \in 1..k, events'[j].type = "updated" PROVE j <= h
      <4>1. j + 1 <= h + 1
        BY <1>3, <1>5, <3>1, <3>3
      <4> QED
        BY <1>2, <4>1
    <3> QED
      BY <1>3, <3>2, <3>3 DEF Sees
  <2> QED
    BY <2>1, <2>2
<1> QED
  BY <1>3, <1>4, <1>5 DEF Sees

LEMMA SeesStill ==
  ASSUME events' = events, live' \in {live, None}, NEW g, NEW n, Sees(n, g)
  PROVE  Sees(n, g)'
BY DEF Sees

\* The board changes when the store reads a snapshot or stops observing.
LEMMA StepOfBoard ==
  ASSUME OrderInv, [Next]_vars
  PROVE  /\ ReceiveLiveGame => \/ live' = Head(events).game
                               \/ live' = live /\ (live = None \/ live.over)
         /\ ~ReceiveLiveGame => live' = live \/ (StopObservingLiveGame /\ live' = None)
<1>1. BoardIsLive
  BY DEF OrderInv
<1>2. CASE ReceiveLiveGame
  BY <1>1, <1>2 DEF ReceiveLiveGame, BoardIsLive, boardVars
<1>3. CASE StopObservingLiveGame /\ ~ReceiveLiveGame
  BY <1>3 DEF StopObservingLiveGame
<1>4. OpenLiveGame \/ ReconnectLiveGame => live' = live
  BY DEF OpenLiveGame, ReconnectLiveGame, StartLiveGame
<1>5. CASE ~ReceiveLiveGame /\ ~StopObservingLiveGame
  <2>1. live' = live
    BY <1>4, <1>5, WorkerKeeps, PlatformKeeps
    DEF Next, vars, boardVars, User, PlayMove, PerformGameAction, RefreshLiveGames,
        Store, ReceiveStreamEnded, ReceiveMovePrediction, ReceiveMoveSubmitted,
        ReceiveActionCompleted, ReceiveError, ReceiveLiveGames
  <2> QED
    BY <1>5, <2>1
<1> QED
  BY <1>2, <1>3, <1>5

\* What is seen at an event is still seen at it, wherever it stands now.
LEMMA SeesStays ==
  ASSUME OrderInv, [Next]_vars, NEW g, NEW n \in 1..(Len(events) + 1), Sees(n, g)
  PROVE  /\ ~Store => Sees(n, g)'
         /\ Store /\ n # 1 => Sees(n - 1, g)'
<1>0. TypeOK
  BY DEF OrderInv, IInv
<1>1. CASE Store
  <2>1. PICK type : Receive(type)
    BY <1>1, StoreKeeps
  <2>2. n # 1 => n \in 2..(Len(events) + 1)
    BY <1>0, <2>1, ReceiveQueue
  <2>3. CASE ReceiveLiveGame
    <3>1. type = "updated"
      BY <2>1, <2>3 DEF ReceiveLiveGame, Receive
    <3>2. live' = Head(events).game \/ (live' = live /\ (live = None \/ live.over))
      BY <2>3, StepOfBoard
    <3> QED
      BY <1>0, <1>1, <2>1, <2>2, <3>1, <3>2, SeesShorter
  <2>4. CASE ~ReceiveLiveGame
    <3>1. live' = live
      BY <1>1, <2>4 DEF Store, boardVars, ReceiveStreamEnded, ReceiveMovePrediction,
         ReceiveMoveSubmitted, ReceiveActionCompleted, ReceiveError, ReceiveLiveGames
    <3>2. type # "updated"
      BY <1>1, <2>1, <2>4 DEF Store, Receive, ReceiveStreamEnded,
         ReceiveMovePrediction, ReceiveMoveSubmitted, ReceiveActionCompleted,
         ReceiveError, ReceiveLiveGames
    <3> QED
      BY <1>0, <1>1, <2>1, <2>2, <3>1, <3>2, SeesShorter
  <2> QED
    BY <2>3, <2>4
<1>2. CASE ~Store
  <2>1. CASE events' = events
    <3>1. live' \in {live, None}
      BY <1>2, StepOfBoard DEF Store
    <3> QED
      BY <1>2, <2>1, <3>1, SeesStill
  <2>2. CASE Worker
    <3>1. live' = live
      BY <2>2, WorkerKeeps
    <3>2. ASSUME NEW e \in Event, Emit(e) PROVE Sees(n, g)'
      BY <1>0, <3>1, <3>2, SeesLonger
    <3> QED
      BY <1>0, <1>2, <2>1, <2>2, <3>2, StepOfWorkerEvents
  <2> QED
    BY <1>2, <2>1, <2>2, UserKeeps, PlatformKeeps DEF Next, vars
<1> QED
  BY <1>1, <1>2

LEMMA LatestIsSeenStep ==
  ASSUME OrderInv, [Next]_vars
  PROVE  LatestIsSeen'
<1>0. TypeOK /\ LatestIsSeen
  BY DEF OrderInv, IInv
<1>1. PICK n : n = Len(events) + 1
  OBVIOUS
<1>2. Len(events) \in Nat /\ n \in 1..(Len(events) + 1)
  BY <1>0, <1>1 DEF TypeOK
<1> SUFFICES ASSUME NEW g, g = latest', g # None
             PROVE  Sees(Len(events) + 1, g)'
  BY DEF LatestIsSeen
<1>3. ASSUME NEW k, k = Len(events') + 1, Sees(k, g)' PROVE Sees(Len(events) + 1, g)'
  BY <1>3 DEF Sees
<1>4. latest' = latest => Sees(n, g)
  BY <1>0, <1>1 DEF LatestIsSeen
<1>5. CASE Store
  <2>1. latest' = latest /\ Len(events') = Len(events) - 1 /\ n # 1
    BY <1>0, <1>1, <1>5, StoreKeeps, ReceiveQueue
  <2>2. Sees(n - 1, g)'
    BY <1>2, <1>4, <1>5, <2>1, SeesStays
  <2>3. n - 1 = Len(events') + 1
    BY <1>1, <1>2, <2>1
  <2> QED
    BY <1>3, <2>2, <2>3
<1>6. CASE ~Store /\ events' = events /\ latest' = latest
  BY <1>1, <1>2, <1>3, <1>4, <1>6, SeesStays
<1>7. ASSUME Worker, NEW e \in Event, Emit(e),
             IF e.type = "updated" THEN e.game = latest' ELSE latest' = latest
      PROVE  Sees(Len(events) + 1, g)'
  <2>1. live' = live
    BY <1>7, WorkerKeeps
  <2>2. Sees(n + 1, g)'
    BY <1>0, <1>1, <1>4, <1>7, <2>1, SeesNext
  <2>3. n + 1 = Len(events') + 1
    BY <1>0, <1>1, <1>7, EmitQueue
  <2> QED
    BY <1>3, <2>2, <2>3
<1>8. CASE HandleStop
  BY <1>8 DEF HandleStop
<1>9. CASE Worker /\ ~HandleStop
  <2>1. ~StreamEmits => latest' = latest
    BY <1>9 DEF Worker, workerVars, HandleStart, HandlePlay, HandleCall,
       CallSucceeds, CallFails, StreamEnds, StreamBreaks
  <2>2. CASE StreamEmits
    <3>1. PICK i \in (stream.seen + 1)..Len(history) :
            /\ latest' = history[i]
            /\ Emit([type |-> "updated", game |-> history[i]])
      BY <2>2 DEF StreamEmits
    <3>2. history[i] \in Snapshot
      BY <1>0, <2>2, <3>1, StreamShows
    <3>3. [type |-> "updated", game |-> history[i]] \in Event
      BY <3>2 DEF Event
    <3> QED
      BY <1>7, <1>9, <3>1, <3>3
  <2>3. CASE ~StreamEmits
    <3>1. CASE events' = events
      BY <1>6, <1>9, <2>1, <2>3, <3>1, <1>2, <1>1, <1>3, <1>4, SeesStill, WorkerKeeps
    <3> QED
      BY <1>0, <1>7, <1>9, <2>1, <2>3, <3>1, StepOfWorkerEvents DEF Error
  <2> QED
    BY <2>2, <2>3
<1>10. CASE ~Store /\ ~Worker
  BY <1>6, <1>10, UserKeeps, PlatformKeeps DEF Next, vars, workerVars
<1> QED
  BY <1>5, <1>8, <1>9, <1>10


LEMMA PredictionIsSeenStep ==
  ASSUME OrderInv, [Next]_vars
  PROVE  PredictionIsSeen'
<1>0. TypeOK /\ PredictionIsSeen /\ LatestIsSeen
  BY DEF OrderInv, IInv
<1> DEFINE Made(moves, g) == \E m \in MyMove \cup TheirMove : moves = Append(g.moves, m)
<1>1. ASSUME NEW i \in 1..Len(events), events[i].type = "predicted"
      PROVE  \E g \in Snapshot : Sees(i, g) /\ Made(events[i].moves, g)
  BY <1>0, <1>1 DEF PredictionIsSeen
<1> SUFFICES ASSUME NEW n \in 1..Len(events'), events'[n].type = "predicted"
             PROVE  \E g \in Snapshot : Sees(n, g)' /\ Made(events'[n].moves, g)
  BY DEF PredictionIsSeen
<1>2. Len(events) \in Nat
  BY <1>0 DEF TypeOK
<1>3. ASSUME ~Store, n \in 1..Len(events), events'[n] = events[n]
      PROVE  \E g \in Snapshot : Sees(n, g)' /\ Made(events'[n].moves, g)
  <2>1. PICK g \in Snapshot : Sees(n, g) /\ Made(events[n].moves, g)
    BY <1>1, <1>3
  <2>2. n \in 1..(Len(events) + 1)
    BY <1>2, <1>3
  <2>3. Sees(n, g)'
    BY <1>3, <2>1, <2>2, SeesStays
  <2> QED
    BY <1>3, <2>1, <2>3
<1>4. CASE events' = events /\ ~Store
  BY <1>3, <1>4
<1>5. CASE Store
  <2>1. PICK k \in 1..Len(events) : k = n + 1 /\ k # 1 /\ events'[n] = events[k]
    <3>1. Len(events') = Len(events) - 1 /\ n + 1 \in 1..Len(events)
          /\ events'[n] = events[n + 1] /\ 1 < n + 1
      BY <1>0, <1>5, StoreKeeps, ReceiveQueue
    <3> QED
      BY <3>1
  <2>2. PICK g \in Snapshot : Sees(k, g) /\ Made(events[k].moves, g)
    BY <1>1, <2>1
  <2>3. k \in 1..(Len(events) + 1) /\ k - 1 = n
    BY <1>2, <2>1
  <2>4. Sees(k - 1, g)'
    BY <1>5, <2>1, <2>2, <2>3, SeesStays
  <2> QED
    BY <2>1, <2>2, <2>3, <2>4
<1>6. ASSUME Worker, ~Store, NEW e \in Event, Emit(e),
             e.type = "predicted" =>
               /\ HandlePlay /\ latest # None
               /\ Head(commands).move \in LegalMoves(latest.moves)
               /\ e.moves = Append(latest.moves, Head(commands).move)
      PROVE  \E g \in Snapshot : Sees(n, g)' /\ Made(events'[n].moves, g)
  <2>1. /\ 1..Len(events') = 1..Len(events) \cup {Len(events) + 1}
        /\ \A i \in 1..Len(events) : events'[i] = events[i]
        /\ events'[Len(events) + 1] = e
    BY <1>0, <1>6, EmitQueue
  <2>2. CASE n \in 1..Len(events)
    BY <1>3, <1>6, <2>1, <2>2
  <2>3. CASE n = Len(events) + 1
    <3> DEFINE c == Head(commands)
    <3>1. events'[n] = e
      BY <2>1, <2>3
    <3>2. /\ latest # None /\ c.move \in LegalMoves(latest.moves)
          /\ e.moves = Append(latest.moves, c.move)
      BY <1>6, <3>1
    <3>3. PICK g \in Snapshot : g = latest
      BY <1>0, <3>2 DEF TypeOK
    <3>4. Sees(n, g)
      BY <1>0, <2>3, <3>2, <3>3 DEF LatestIsSeen
    <3>5. n \in 1..(Len(events) + 1)
      BY <1>2, <2>3
    <3>6. Sees(n, g)'
      BY <1>6, <3>4, <3>5, SeesStays
    <3>7. Made(e.moves, g)
      BY <3>2, <3>3 DEF LegalMoves
    <3> QED
      BY <3>1, <3>6, <3>7
  <2> QED
    BY <2>1, <2>2, <2>3
<1>7. CASE Worker /\ ~Store
  BY <1>0, <1>4, <1>6, <1>7, StepOfWorkerEvents DEF Error
<1> QED
  BY <1>4, <1>5, <1>7, UserKeeps, PlatformKeeps DEF Next, vars

LEMMA BoardIsLiveStep ==
  ASSUME OrderInv, [Next]_vars
  PROVE  BoardIsLive'
<1>0. TypeOK /\ BoardIsLive
  BY DEF OrderInv, IInv
<1>1. CASE UNCHANGED <<connected, live, active, move, prediction>>
  BY <1>0, <1>1 DEF BoardIsLive
<1>2. CASE OpenLiveGame \/ ReconnectLiveGame
  <2>1. live' = live /\ connected' = FALSE /\ UNCHANGED <<active, move, prediction>>
    BY <1>2 DEF OpenLiveGame, ReconnectLiveGame, StartLiveGame
  <2> QED
    BY <1>0, <2>1 DEF BoardIsLive
<1>3. CASE StopObservingLiveGame
  BY <1>3 DEF StopObservingLiveGame, BoardIsLive
<1>4. ASSUME NEW m, PlayMove(m) PROVE BoardIsLive'
  BY <1>0, <1>4 DEF PlayMove, Accepts, streamVars, BoardIsLive
<1>5. CASE ReceiveLiveGame
  <2> DEFINE game == Head(events).game
  <2>1. game \in Snapshot /\ game.over \in BOOLEAN
    BY <1>0, <1>5, ReceiveQueue, EventFields DEF ReceiveLiveGame, Snapshot
  <2>2. game # None
    BY <2>1, NoneAssumption
  <2> HIDE DEF game
  <2>3. \/ UNCHANGED <<connected, live, active, move, prediction>>
        \/ /\ live' = game /\ active' = ~game.over
           /\ game.over => move' = None /\ prediction' = None
    BY <1>5 DEF ReceiveLiveGame, ReconcilePrediction, boardVars, game
  <2> QED
    BY <1>1, <2>1, <2>2, <2>3 DEF BoardIsLive
<1>6. CASE ReceiveMovePrediction
  <2>1. /\ UNCHANGED <<connected, live, active, move>>
        /\ prediction' = prediction \/ move # None
    BY <1>6 DEF ReceiveMovePrediction
  <2> QED
    BY <1>0, <2>1 DEF BoardIsLive
<1>7. CASE ReceiveMoveSubmitted \/ ReceiveError \/ ReceiveStreamEnded
  <2>1. /\ UNCHANGED <<live, active>> /\ connected' \in {connected, FALSE}
        /\ move' \in {move, None} /\ prediction' \in {prediction, None}
    BY <1>7 DEF ReceiveMoveSubmitted, ReceiveError, RolledBack, ReceiveStreamEnded,
       boardVars
  <2>2. connected' => live' # None
    BY <1>0, <2>1 DEF BoardIsLive
  <2>3. live' # None /\ ~live'.over => active'
    BY <1>0, <2>1 DEF BoardIsLive
  <2>4. live' = None \/ live'.over => move' = None /\ prediction' = None
    BY <1>0, <2>1 DEF BoardIsLive
  <2> QED
    BY <2>2, <2>3, <2>4 DEF BoardIsLive
<1>8. CASE ReceiveLiveGames
  BY <1>0, <1>8 DEF ReceiveLiveGames, boardVars, BoardIsLive
<1> QED
  BY <1>1, <1>2, <1>3, <1>4, <1>5, <1>6, <1>7, <1>8, WorkerKeeps, PlatformKeeps
  DEF Next, vars, boardVars, streamVars, User, PerformGameAction, RefreshLiveGames,
      Store, ReceiveActionCompleted

\* A prediction is made on what the store shows when it reads it, and goes with
\* the first snapshot that is longer.
LEMMA PredictionIsAheadStep ==
  ASSUME OrderInv, [Next]_vars
  PROVE  PredictionIsAhead'
<1>0. TypeOK /\ BoardIsLive /\ PredictionIsSeen /\ PredictionIsAhead
  BY DEF OrderInv, IInv
<1>1. CASE live' = live /\ prediction' \in {prediction, None}
  BY <1>0, <1>1 DEF PredictionIsAhead
<1>2. CASE StopObservingLiveGame
  BY <1>2 DEF StopObservingLiveGame, PredictionIsAhead
<1>3. CASE OpenLiveGame \/ ReconnectLiveGame
  BY <1>1, <1>3 DEF OpenLiveGame, ReconnectLiveGame, StartLiveGame
<1>4. CASE ReceiveLiveGame
  <2> DEFINE game == Head(events).game
  <2>1. game \in Snapshot
    BY <1>0, <1>4, ReceiveQueue, EventFields DEF ReceiveLiveGame
  <2>2. CASE live' = game /\ prediction' = ReconcilePrediction(game)
    <3> SUFFICES ASSUME prediction' # None
                 PROVE  Len(live'.moves) <= Len(prediction'.base)
      BY DEF PredictionIsAhead
    <3>1. /\ prediction' = prediction /\ prediction # None
          /\ ~(Len(game.moves) > Len(prediction.base))
      BY <2>2 DEF ReconcilePrediction
    <3>2. game.moves \in Line /\ prediction.base \in Line
      BY <1>0, <2>1, <3>1 DEF TypeOK, Snapshot
    <3>3. Len(game.moves) \in Nat /\ Len(prediction.base) \in Nat
      BY <3>2, LenProperties DEF Line
    <3> QED
      BY <2>2, <3>1, <3>3
  <2> QED
    BY <1>1, <1>4, <2>2 DEF ReceiveLiveGame, boardVars
<1>5. CASE ReceiveMovePrediction
  <2> DEFINE e == Head(events)
  <2>1. live' = live
    BY <1>5 DEF ReceiveMovePrediction
  <2>2. CASE /\ move # None
             /\ e.moves = Append(move.base, move.move)
             /\ prediction' = [request |-> e.request, base |-> move.base,
                               moves |-> e.moves]
    <3>1. e = events[1] /\ e.type = "predicted" /\ 1 \in 1..Len(events)
      BY <1>0, <1>5, ReceiveQueue DEF ReceiveMovePrediction
    <3>2. PICK g \in Snapshot, m \in MyMove \cup TheirMove :
            Sees(1, g) /\ e.moves = Append(g.moves, m)
      BY <1>0, <3>1 DEF PredictionIsSeen
    <3>3. live = None \/ live.over \/ live = g
      BY <3>2 DEF Sees
    <3>4. live = g
      BY <1>0, <2>2, <3>3 DEF BoardIsLive
    <3>5. /\ g.moves \in Seq(MyMove \cup TheirMove)
          /\ move.base \in Seq(MyMove \cup TheirMove)
          /\ move.move \in MyMove \cup TheirMove
      BY <1>0, <2>2 DEF TypeOK, Snapshot, Line
    <3>6. Len(g.moves) = Len(move.base) /\ Len(g.moves) \in Nat
      <4>1. Append(g.moves, m) = Append(move.base, move.move)
        BY <2>2, <3>2
      <4>2. /\ Len(Append(g.moves, m)) = Len(g.moves) + 1 /\ Len(g.moves) \in Nat
            /\ Len(Append(move.base, move.move)) = Len(move.base) + 1
            /\ Len(move.base) \in Nat
        BY <3>5, AppendProperties, LenProperties
      <4> QED
        BY <4>1, <4>2
    <3>7. prediction'.base = move.base
      BY <2>2
    <3>8. Len(live'.moves) = Len(prediction'.base) /\ Len(live'.moves) \in Nat
      BY <2>1, <3>4, <3>6, <3>7
    <3> QED
      BY <3>8 DEF PredictionIsAhead
  <2> QED
    BY <1>1, <1>5, <2>1, <2>2 DEF ReceiveMovePrediction
<1>6. CASE ReceiveError
  BY <1>1, <1>6 DEF ReceiveError, RolledBack
<1> QED
  BY <1>1, <1>2, <1>3, <1>4, <1>5, <1>6, WorkerKeeps, PlatformKeeps
  DEF Next, vars, boardVars, User, PlayMove, PerformGameAction, RefreshLiveGames,
      Store, ReceiveStreamEnded, ReceiveMoveSubmitted, ReceiveActionCompleted,
      ReceiveLiveGames


\* A move stays pending until the store reads its answer.
LEMMA MoveIsPendingStep ==
  ASSUME OrderInv, [Next]_vars
  PROVE  MoveIsPending'
<1>0. TypeOK /\ MoveIsPending
  BY DEF OrderInv, IInv
<1>1. ASSUME NEW m \in MyMove, PlayMove(m) PROVE MoveIsPending'
  <2>1. /\ move' = [request |-> asked + 1, move |-> m, base |-> live.moves]
        /\ Send("play", m)
    BY <1>1 DEF PlayMove, Ask
  <2>2. /\ Range(commands') = Range(commands) \cup {Command("play", m)}
        /\ Command("play", m).kind = "play" /\ Command("play", m).request = asked + 1
    BY <1>0, <2>1, SendQueue
  <2>3. move'.request = asked + 1
    BY <2>1
  <2> QED
    BY <2>2, <2>3 DEF MoveIsPending
<1>2. CASE move' = None
  BY <1>2 DEF MoveIsPending
<1>3. CASE move' = move /\ move # None
  <2> DEFINE r == move.request
             Tells(e) == e.type \in {"submitted", "error"} /\ e.request = r
  <2>1. \/ \E c \in Range(commands) : c.kind = "play" /\ c.request = r
        \/ /\ calling # None /\ calling.command.kind = "play"
           /\ calling.command.request = r
        \/ \E i \in 1..Len(events) : Tells(events[i])
    BY <1>0, <1>3 DEF MoveIsPending
  <2>2. ASSUME \/ \E c \in Range(commands') : c.kind = "play" /\ c.request = r
               \/ /\ calling' # None /\ calling'.command.kind = "play"
                  /\ calling'.command.request = r
               \/ \E i \in 1..Len(events') : Tells(events'[i])
        PROVE  MoveIsPending'
    BY <1>3, <2>2 DEF MoveIsPending
  <2>3. ASSUME NEW e \in Event, Emit(e), Tells(e)
        PROVE  \E j \in 1..Len(events') : Tells(events'[j])
    <3>1. Len(events) + 1 \in 1..Len(events') /\ events'[Len(events) + 1] = e
      BY <1>0, <2>3, EmitQueue
    <3> QED
      BY <2>3, <3>1
  <2>4. ASSUME NEW i \in 1..Len(events), Tells(events[i])
        PROVE  \E j \in 1..Len(events') : Tells(events'[j])
    <3>1. CASE events' = events
      BY <2>4, <3>1
    <3>2. CASE Worker
      <4>1. ASSUME NEW e \in Event, Emit(e)
            PROVE  i \in 1..Len(events') /\ events'[i] = events[i]
        BY <1>0, <4>1, EmitQueue
      <4> QED
        BY <1>0, <2>4, <3>1, <3>2, <4>1, StepOfWorkerEvents
    <3>3. CASE Store
      <4>1. /\ Head(events) = events[1]
            /\ i # 1 => i - 1 \in 1..Len(events') /\ events'[i - 1] = events[i]
        BY <1>0, <3>3, StoreKeeps, ReceiveQueue
      <4>2. i # 1
        <5>1. ASSUME Head(events).type \in {"submitted", "error"},
                     Head(events).request = r
              PROVE  move' = None
          BY <1>3, <3>3, <5>1 DEF Store, ReceiveLiveGame, ReceiveStreamEnded,
             ReceiveMovePrediction, ReceiveMoveSubmitted, ReceiveActionCompleted,
             ReceiveError, ReceiveLiveGames, Receive, Concerns
        <5> QED
          BY <1>3, <2>4, <4>1, <5>1
      <4> QED
        BY <2>4, <4>1, <4>2
    <3> QED
      BY <3>1, <3>2, <3>3, UserKeeps, PlatformKeeps DEF Next, vars
  <2>5. ASSUME calling # None, calling.command.kind = "play",
               calling.command.request = r
        PROVE  \/ /\ calling' # None /\ calling'.command.kind = "play"
                  /\ calling'.command.request = r
               \/ \E j \in 1..Len(events') : Tells(events'[j])
    <3>1. r \in Nat
      BY <1>0, <1>3, Numbers
    <3> DEFINE submitted == [type |-> "submitted", request |-> r]
    <3>2. CASE CallSucceeds
      <4>1. Emit(submitted)
        BY <2>5, <3>2 DEF CallSucceeds
      <4>2. submitted \in Event /\ Tells(submitted)
        BY <3>1 DEF Event
      <4> HIDE DEF submitted, Tells
      <4> QED
        BY <2>3, <4>1, <4>2
    <3>3. CASE CallFails
      <4>1. Emit(Error(r))
        BY <2>5, <3>3 DEF CallFails
      <4>2. Error(r) \in Event /\ Tells(Error(r))
        BY <3>1 DEF Event, Error
      <4> HIDE DEF Tells
      <4> QED
        BY <2>3, <4>1, <4>2
    <3>4. CASE HandlePlay \/ HandleCall
      BY <1>0, <2>5, <3>4, TakeQueue DEF HandlePlay, HandleCall
    <3>5. calling' = None => CallSucceeds \/ CallFails \/ HandlePlay \/ HandleCall
      <4>1. ASSUME MoveArrives PROVE calling' # None
        <5>1. calling \in [command: Envelope, applied: BOOLEAN]
              /\ calling' = [calling EXCEPT !.applied = TRUE]
          BY <1>0, <4>1 DEF MoveArrives, TypeOK
        <5>2. calling' \in [command: Envelope, applied: BOOLEAN]
          BY <5>1
        <5> QED
          BY <5>2, NoneAssumption
      <4> QED
        BY <2>5, <4>1, UserKeeps, StoreKeeps
        DEF Next, vars, workerVars, Worker, HandleStart, HandleStop, StreamEmits,
            StreamEnds, StreamBreaks, Platform, StrayArrives, OpponentPlays,
            TakesBack, GameEnds
    <3> QED
      BY <1>0, <2>5, <3>2, <3>3, <3>4, <3>5, StepOfCalling
  <2>6. ASSUME NEW c \in Range(commands), c.kind = "play", c.request = r
        PROVE  \/ c \in Range(commands')
               \/ /\ calling' # None /\ calling'.command.kind = "play"
                  /\ calling'.command.request = r
               \/ \E j \in 1..Len(events') : Tells(events'[j])
    <3>1. ASSUME NEW kind \in {"start", "stop", "play", "action", "list"},
                 Take(kind), c \notin Range(commands')
          PROVE  c = Head(commands) /\ kind = "play"
      <4>1. c = Head(commands) /\ Head(commands).kind = kind
        BY <1>0, <3>1, TakeQueue
      <4> QED
        BY <2>6, <4>1
    <3>2. CASE HandlePlay /\ c = Head(commands)
      <4>1. r \in Nat /\ c \in Envelope
        BY <1>0, <1>3, Numbers
      <4>2. CASE Emit(Error(r))
        <5>1. Error(r) \in Event /\ Tells(Error(r))
          BY <4>1 DEF Event, Error
        <5> HIDE DEF Tells
        <5> QED
          BY <2>3, <4>2, <5>1
      <4>3. CASE calling' = [command |-> c, applied |-> FALSE]
        <5>1. calling' \in [command: Envelope, applied: BOOLEAN]
          BY <4>1, <4>3
        <5>2. calling'.command = c
          BY <4>3
        <5> QED
          BY <2>6, <5>1, <5>2, NoneAssumption
      <4> QED
        BY <2>6, <3>2, <4>2, <4>3 DEF HandlePlay
    <3>3. ASSUME NEW kind, NEW m \in MyMove \cup {None},
                 kind \in {"start", "stop", "play", "action", "list"}, Send(kind, m)
          PROVE  c \in Range(commands')
      BY <1>0, <3>3, SendQueue
    <3>4. ASSUME ~HandlePlay, c \notin Range(commands')
          PROVE  FALSE
      <4>1. CASE User \/ Store
        BY <3>3, <3>4, <4>1 DEF User, OpenLiveGame, ReconnectLiveGame, StartLiveGame,
           StopObservingLiveGame, PlayMove, PerformGameAction, RefreshLiveGames, Ask,
           Store, ReceiveLiveGame, ReceiveStreamEnded, ReceiveMovePrediction,
           ReceiveMoveSubmitted, ReceiveActionCompleted, ReceiveError,
           ReceiveLiveGames
      <4>2. CASE HandleStart \/ HandleStop \/ HandleCall
        BY <3>1, <3>4, <4>2 DEF HandleStart, HandleStop, HandleCall
      <4> QED
        BY <3>4, <4>1, <4>2, PlatformKeeps DEF Next, vars, workerVars, Worker,
           CallSucceeds, CallFails, StreamEmits, StreamEnds, StreamBreaks
    <3> QED
      BY <3>1, <3>2, <3>4 DEF HandlePlay
  <2> QED
    BY <2>1, <2>2, <2>4, <2>5, <2>6
<1>4. ASSUME move' # None, ~(\E m \in MyMove : PlayMove(m))
      PROVE  move' = move
  BY <1>4, WorkerKeeps, PlatformKeeps
  DEF Next, vars, boardVars, User, OpenLiveGame, ReconnectLiveGame, StartLiveGame,
      StopObservingLiveGame, PerformGameAction, RefreshLiveGames, Store,
      ReceiveLiveGame, ReceiveStreamEnded, ReceiveMovePrediction,
      ReceiveMoveSubmitted, ReceiveActionCompleted, ReceiveError, ReceiveLiveGames
<1> QED
  BY <1>1, <1>2, <1>3, <1>4

\* What the platform plays makes its line longer.
LEMMA LineOfPlay ==
  ASSUME TypeOK, NEW m, Plays(m)
  PROVE  Len(Now'.moves) = Len(Now.moves) + 1 /\ Len(Now.moves) \in Nat
<1>1. m \in MyMove \cup TheirMove
  BY DEF Plays, LegalMoves
<1>2. Now \in Snapshot /\ Now.moves \in Seq(MyMove \cup TheirMove)
  BY NowIsSnapshot DEF Snapshot, Line
<1> DEFINE game == [Now EXCEPT !.moves = Append(@, m)]
<1>3. game \in Snapshot /\ game.moves = Append(Now.moves, m)
  BY <1>1, <1>2 DEF Snapshot, Line
<1>4. history \in Seq(Snapshot) /\ history' = Append(history, game)
  BY DEF Plays, Becomes, TypeOK
<1> HIDE DEF game
<1>5. Now' = game
  BY <1>3, <1>4, LongerQueue DEF Now
<1> QED
  BY <1>1, <1>2, <1>3, <1>5, AppendProperties, LenProperties

\* As long as no takeback crosses a move, the line of the platform reaches what
\* the move is made on, and goes beyond it when the move is played.
LEMMA PlatformIsAheadStep ==
  ASSUME OrderInv, [Next]_vars
  PROVE  PlatformIsAhead'
<1>0. TypeOK /\ Requests /\ PlatformIsAhead
  BY DEF OrderInv, IInv
<1> DEFINE n == Len(Now.moves)
<1>1. /\ n \in Nat
      /\ move # None => Len(move.base) \in Nat
      /\ prediction # None => Len(prediction.base) \in Nat
  <2>1. ASSUME NEW l \in Line PROVE Len(l) \in Nat
    BY LenProperties DEF Line
  <2>2. Now.moves \in Line
    BY <1>0, NowIsSnapshot DEF Snapshot
  <2> QED
    BY <1>0, <2>1, <2>2 DEF TypeOK
<1> SUFFICES ASSUME ~crossed'
             PROVE  /\ move' # None => Reaches(move)'
                    /\ prediction' # None => Reaches(prediction)'
  BY DEF PlatformIsAhead
<1>2. ASSUME ~crossed
      PROVE  /\ move # None => Reaches(move)
             /\ prediction # None => Reaches(prediction)
  BY <1>0, <1>2 DEF PlatformIsAhead
<1>3. CASE /\ ~crossed /\ UNCHANGED <<history, accepted>>
           /\ move' \in {move, None} /\ prediction' \in {prediction, None}
  BY <1>2, <1>3 DEF Reaches, Now
<1>4. CASE move' = None /\ prediction' = None
  BY <1>4
<1>5. ASSUME NEW m \in MyMove, PlayMove(m)
      PROVE  /\ move' # None => Reaches(move)'
             /\ prediction' # None => Reaches(prediction)'
  <2>1. /\ move' = [request |-> asked + 1, move |-> m, base |-> live.moves]
        /\ UNCHANGED <<history, accepted, prediction>>
        /\ ~crossed /\ IsPrefix(live.moves, Now.moves) /\ live # None
    BY <1>5 DEF PlayMove, platformVars, Accepts
  <2>2. Len(live.moves) <= Len(Now.moves)
    BY <2>1 DEF IsPrefix
  <2>3. asked + 1 \notin accepted
    BY <1>0 DEF Requests, TypeOK
  <2>4. Reaches(move)'
    BY <2>1, <2>2, <2>3 DEF Reaches, Now
  <2>5. prediction' # None => Reaches(prediction)'
    BY <1>2, <2>1 DEF Reaches, Now
  <2> QED
    BY <2>4, <2>5
<1>6. ASSUME NEW m, Plays(m), UNCHANGED <<move, prediction>>, ~crossed
      PROVE  /\ move' # None => Reaches(move)'
             /\ prediction' # None => Reaches(prediction)'
  <2>1. Len(Now'.moves) = n + 1
    BY <1>0, <1>6, LineOfPlay
  <2>2. move # None => Len(move.base) < Len(Now'.moves)
    BY <1>1, <1>2, <1>6, <2>1 DEF Reaches
  <2>3. prediction # None => Len(prediction.base) < Len(Now'.moves)
    BY <1>1, <1>2, <1>6, <2>1 DEF Reaches
  <2> QED
    BY <1>1, <1>6, <2>1, <2>2, <2>3 DEF Reaches
<1>7. CASE Platform
  <2>1. UNCHANGED <<move, prediction>>
    BY <1>7, PlatformKeeps
  <2>2. CASE MoveArrives \/ OpponentPlays
    BY <1>6, <2>1, <2>2 DEF MoveArrives, OpponentPlays, storeVars
  <2>3. CASE StrayArrives
    BY <1>3, <1>6, <2>1, <2>3 DEF StrayArrives, storeVars
  <2>4. CASE TakesBack
    BY <1>4, <2>1, <2>4 DEF TakesBack
  <2>5. CASE GameEnds
    <3> DEFINE game == [Now EXCEPT !.over = TRUE]
    <3>1. /\ history \in Seq(Snapshot) /\ history' = Append(history, game)
          /\ game \in Snapshot /\ game.moves = Now.moves
      BY <1>0, <2>5, NowIsSnapshot DEF GameEnds, Becomes, TypeOK, Snapshot
    <3> HIDE DEF game
    <3>2. Now' = game
      BY <3>1, LongerQueue DEF Now
    <3>3. ~crossed /\ accepted' = accepted
      BY <2>5 DEF GameEnds, storeVars
    <3> QED
      BY <1>2, <2>1, <3>1, <3>2, <3>3 DEF Reaches
  <2> QED
    BY <1>7, <2>2, <2>3, <2>4, <2>5 DEF Platform
<1>8. CASE ReceiveMovePrediction
  <2>1. ~crossed /\ UNCHANGED <<move, history, accepted>>
    BY <1>8, StoreKeeps DEF ReceiveMovePrediction, Store
  <2>2. CASE prediction' = prediction
    BY <1>3, <2>1, <2>2
  <2>3. CASE /\ move # None /\ move.request = Head(events).request
             /\ prediction' = [request |-> Head(events).request, base |-> move.base,
                               moves |-> Head(events).moves]
    <3>1. prediction'.request = move.request /\ prediction'.base = move.base
      BY <2>3
    <3> QED
      BY <1>2, <2>1, <2>3, <3>1 DEF Reaches, Now
  <2> QED
    BY <1>8, <2>2, <2>3 DEF ReceiveMovePrediction
<1>9. CASE ReceiveLiveGame \/ ReceiveMoveSubmitted \/ ReceiveError
  <2>1. /\ UNCHANGED <<history, accepted>>
        /\ move' \in {move, None} /\ prediction' \in {prediction, None}
        /\ ~crossed \/ (move' = None /\ prediction' = None)
    BY <1>9, StoreKeeps DEF Store, ReceiveLiveGame, ReceiveMoveSubmitted,
       ReceiveError, Settle, RolledBack, ReconcilePrediction, boardVars
  <2> QED
    BY <1>3, <1>4, <2>1
<1>10. CASE OpenLiveGame \/ ReconnectLiveGame
  BY <1>3, <1>10 DEF OpenLiveGame, ReconnectLiveGame, StartLiveGame, platformVars
<1>11. CASE StopObservingLiveGame
  BY <1>4, <1>11 DEF StopObservingLiveGame
<1>12. CASE UNCHANGED vars
  BY <1>3, <1>12 DEF vars, platformVars, boardVars
<1>13. CASE PerformGameAction \/ RefreshLiveGames
  BY <1>3, <1>13 DEF PerformGameAction, RefreshLiveGames, platformVars, boardVars
<1>14. CASE ReceiveStreamEnded \/ ReceiveActionCompleted \/ ReceiveLiveGames
  BY <1>3, <1>14, StoreKeeps DEF Store, ReceiveStreamEnded, ReceiveActionCompleted,
     ReceiveLiveGames, boardVars
<1>15. CASE Worker
  BY <1>3, <1>15, WorkerKeeps
<1> QED
  BY <1>5, <1>7, <1>8, <1>9, <1>10, <1>11, <1>12, <1>13, <1>14, <1>15
  DEF Next, User, Store


-----------------------------------------------------------------------------
(* The invariant and what it says when everything has arrived.             *)

LEMMA InitIsOrdered == Init => OrderInv
<1> SUFFICES ASSUME Init PROVE OrderInv
  OBVIOUS
<1>1. IInv /\ TypeOK
  BY InitIsInductive DEF IInv
<1>2. /\ history = <<[moves |-> <<>>, over |-> FALSE]>> /\ Len(history) = 1
      /\ Now = [moves |-> <<>>, over |-> FALSE]
      /\ ~Now.over /\ history[1] = Now
  BY DEF Init, Now
<1>3. /\ events = <<>> /\ Len(events) = 0 /\ 1..Len(events) = {}
  BY DEF Init
<1>4. \/ commands = <<>> /\ start = None /\ asked = 0
      \/ /\ commands = <<[kind |-> "start", request |-> 1, move |-> None]>>
         /\ start = 1 /\ asked = 1
  BY DEF Init
<1> DEFINE first == [kind |-> "start", request |-> 1, move |-> None]
<1>5. Len(commands) \in {0, 1} /\ InOrder(commands)
  BY <1>4 DEF InOrder
<1>6. \/ Range(commands) = {} /\ start = None /\ asked = 0
      \/ Range(commands) = {first} /\ start = 1 /\ asked = 1
  <2>1. CASE commands = <<>> /\ start = None /\ asked = 0
    BY <2>1, NoEntries
  <2>2. CASE commands = <<first>> /\ start = 1 /\ asked = 1
    <3>1. commands \in Seq(Envelope)
      BY <1>1 DEF TypeOK
    <3>2. Range(commands) = {commands[i] : i \in 1..Len(commands)}
      BY <3>1, RangeEquality
    <3>3. Len(commands) = 1 /\ commands[1] = first
      BY <2>2
    <3> HIDE DEF first
    <3>4. 1..Len(commands) = {1}
      BY <3>3
    <3> QED
      BY <2>2, <3>2, <3>3, <3>4
  <2> QED
    BY <1>4, <2>1, <2>2
<1>7. first.kind = "start" /\ first.request = 1
  OBVIOUS
<1>8. /\ calling = None /\ stream = None /\ latest = None /\ accepted = {}
      /\ live = None /\ prediction = None /\ move = None
      /\ connected = FALSE /\ cancelled = FALSE
  BY DEF Init
<1> HIDE DEF first
<1>9. Requests
  BY <1>3, <1>5, <1>6, <1>7, <1>8 DEF Requests
<1>10. StartIsLast /\ StartIsPending
  BY <1>6, <1>7, <1>8 DEF StartIsLast, StartIsPending
<1>11. EndedIsFinal /\ ErrorIsFinal /\ LatestIsSeen /\ PredictionIsSeen
  BY <1>3, <1>8 DEF EndedIsFinal, ErrorIsFinal, LatestIsSeen, PredictionIsSeen
<1>12. EndIsKnown
  <2> SUFFICES ASSUME start = None PROVE NothingArrives
    BY DEF EndIsKnown
  <2>1. Range(commands) = {}
    BY <1>6, NoneAssumption
  <2> QED
    BY <1>3, <1>8, <2>1 DEF NothingArrives, NoStart
<1>13. OverIsLast /\ StreamIsCurrent /\ BoardIsLive /\ MoveIsPending
  BY <1>2, <1>8 DEF OverIsLast, StreamIsCurrent, BoardIsLive, MoveIsPending
<1>14. PredictionIsAhead /\ PlatformIsAhead
  BY <1>8 DEF PredictionIsAhead, PlatformIsAhead
<1> QED
  BY <1>1, <1>9, <1>10, <1>11, <1>12, <1>13, <1>14 DEF OrderInv

LEMMA StepIsOrdered == OrderInv /\ [Next]_vars => OrderInv'
<1> SUFFICES ASSUME OrderInv, [Next]_vars PROVE OrderInv'
  OBVIOUS
<1>1. IInv'
  BY StepIsInductive DEF OrderInv
<1> QED
  BY <1>1, RequestsStep, StartIsLastStep, EndedIsFinalStep, ErrorIsFinalStep,
     StartIsPendingStep, EndIsKnownStep, OverIsLastStep, StreamIsCurrentStep,
     LatestIsSeenStep, PredictionIsSeenStep, BoardIsLiveStep, MoveIsPendingStep,
     PredictionIsAheadStep, PlatformIsAheadStep
  DEF OrderInv

\* Commands and events wait in an order in which no start is lost, no old
\* snapshot follows the end of a stream, and every move is answered.
THEOREM OrderIsKept == Spec => []OrderInv
BY InitIsOrdered, StepIsOrdered, PTL DEF Spec

\* A board that is shown as finished is the finished game.
LEMMA FinishedIsNow ==
  ASSUME OrderInv, live # None, live.over
  PROVE  live = Now
<1>1. live \in Past /\ OverIsLast
  BY DEF OrderInv, IInv, ShownWasPlayedOrSent
<1> QED
  BY <1>1 DEF Past, OverIsLast, Now

LEMMA CurrentWhenQuiet ==
  ASSUME OrderInv, Quiet, connected, ~cancelled, ~crossed
  PROVE  live = Now /\ Displayed = Now.moves
<1>0. /\ TypeOK /\ BoardIsLive /\ StreamIsCurrent /\ LatestIsSeen
      /\ StartIsPending /\ EndIsKnown /\ MoveIsPending
      /\ PredictionIsAhead /\ PlatformIsAhead /\ ShownWasPlayedOrSent
  BY DEF OrderInv, IInv
<1>1. /\ Range(commands) = {} /\ Len(events) = 0 /\ 1..Len(events) = {}
      /\ calling = None
      /\ stream # None => stream.seen = Len(history)
  BY NoEntries DEF Quiet
<1>2. live # None
  BY <1>0 DEF BoardIsLive
<1>3. live = Now
  <2>1. CASE start = None
    <3>1. OnlyTheEndArrives
      BY <1>0, <2>1 DEF EndIsKnown, NothingArrives
    <3>2. live.over
      BY <3>1 DEF OnlyTheEndArrives
    <3> QED
      BY <1>2, <3>2, FinishedIsNow
  <2>2. CASE start # None
    <3>1. stream # None
      BY <1>0, <1>1, <2>2 DEF StartIsPending
    <3>2. latest = Now
      BY <1>0, <1>1, <3>1 DEF StreamIsCurrent
    <3>3. latest # None
      BY <1>0, <3>2, NowIsSnapshot, NoneAssumption
    <3>4. Sees(Len(events) + 1, latest) /\ 1..((Len(events) + 1) - 1) = {}
      BY <1>0, <1>1, <3>3 DEF LatestIsSeen
    <3>5. live = None \/ live.over \/ live = latest
      BY <3>4 DEF Sees
    <3> QED
      BY <1>2, <3>2, <3>5, FinishedIsNow
  <2> QED
    BY <2>1, <2>2
<1>4. prediction = None
  <2> SUFFICES ASSUME prediction # None PROVE FALSE
    OBVIOUS
  <2>1. move = None
    BY <1>0, <1>1 DEF MoveIsPending
  <2>2. prediction.request \in accepted
    BY <1>0, <2>1 DEF ShownWasPlayedOrSent, Concerns
  <2>3. Len(prediction.base) < Len(Now.moves)
    BY <1>0, <2>2 DEF PlatformIsAhead, Reaches
  <2>4. Len(Now.moves) <= Len(prediction.base)
    BY <1>0, <1>3 DEF PredictionIsAhead
  <2>5. Len(prediction.base) \in Nat /\ Len(Now.moves) \in Nat
    <3>1. prediction.base \in Line /\ Now.moves \in Line
      BY <1>0, NowIsSnapshot DEF TypeOK, Snapshot
    <3> QED
      BY <3>1, LenProperties DEF Line
  <2> QED
    BY <2>3, <2>4, <2>5
<1> QED
  BY <1>3, <1>4 DEF Displayed

\* When everything has arrived, a connected game is shown as it is: no prediction
\* outlives its answer (reconcilePrediction, clearPendingMove) and no stream is
\* lost silently (receiveStreamEnded, the error of a start request).
THEOREM ConnectedShowsTheGame == Spec => []ConnectedIsCurrent
<1>1. OrderInv => ConnectedIsCurrent
  BY CurrentWhenQuiet DEF ConnectedIsCurrent
<1> QED
  BY <1>1, OrderIsKept, PTL
=============================================================================
