---------------------------- MODULE WorkerProofs ----------------------------
(***************************************************************************)
(* Theorems about Worker, for every set of providers, games and requests,   *)
(* every set of kinds of commands and every bound.                          *)
(***************************************************************************)
EXTENDS Worker, SequenceTheorems, TLAPS

(***************************************************************************)
(* The inductive invariant.                                                *)
(***************************************************************************)

SessionCall == {"connect", "complete_oauth", "select_backend"}
BackendCall == {"ask", "refresh_account", "play_move"}
Teardown == {"disconnect", "clear_backend_selection", "shutdown"}

\* A handler waits with the command it handles, and one that replaces or ends
\* the session has stopped the independent tasks before it waits.
HandlerInv ==
  /\ stage = "idle" => doing = None
  /\ stage = "calling" =>
       /\ doing \in Envelope
       /\ doing.kind \in SessionCall \cup BackendCall
       /\ doing.kind \in SessionCall => tasks = {} /\ doing.provider \in Provider
       /\ doing.kind \in BackendCall => backend # None
  /\ stage = "stopping" =>
       /\ doing \in Envelope
       /\ doing.kind \in Teardown \cup {"select_backend"}
       /\ tasks = {}
  /\ stage = "stopped" => doing = None /\ tasks = {}

\* The backend is one of those connected since the streams were last stopped.
BackendIsRecent == backend # None => backend \in since

\* A game has one stream, which will not emit what is older than the snapshot
\* last shown: either it has shown that one itself, or it began when that one
\* was already there.
OneStream == \A s, t \in live : s.game = t.game => s = t
StreamsAreAhead ==
  \A t \in live :
    latest[t.game] # None /\ latest[t.game].on = t.on
      => latest[t.game].version <= t.seen + 1
ShownExists ==
  \A g \in Game :
    latest[g] # None => latest[g].version <= version[latest[g].on][g]

IInv ==
  /\ TypeOK
  /\ HandlerInv
  /\ TasksUseTheBackend
  /\ BackendIsRecent
  /\ NothingOutlivesTeardown
  /\ ConnectedIsTrue
  /\ ConnectingIsWorkedOn
  /\ AuthorizingCanComplete
  /\ SilentAfterStop
  /\ OneStream
  /\ StreamsAreAhead
  /\ ShownExists

-----------------------------------------------------------------------------
(***************************************************************************)
(* The queue.                                                              *)
(***************************************************************************)

\* What a handler takes from the queue is a command, and commands stay behind.
LEMMA HeadIsCommand ==
  ASSUME TypeOK, inbox # <<>>
  PROVE  /\ Head(inbox) \in Command
         /\ Head(inbox) \in Envelope
         /\ Tail(inbox) \in Seq(Command)
<1>1. inbox \in Seq(Command)
  BY DEF TypeOK
<1>2. Head(inbox) \in Command /\ Tail(inbox) \in Seq(Command)
  BY <1>1, HeadTailProperties
<1> QED BY <1>2 DEF Command

\* A command that names a provider or a game names one of them.
LEMMA ArgumentsArePresent ==
  ASSUME NEW c \in Command
  PROVE  /\ c.kind \in ProviderKind => c.provider \in Provider
         /\ c.kind \in GameKind => c.game \in Game
BY DEF Command, Envelope

-----------------------------------------------------------------------------
(***************************************************************************)
(* Types.                                                                  *)
(***************************************************************************)

\* complete_oauth goes on with the provider of the session it has taken.
LEMMA CompletingIsEnvelope ==
  ASSUME NEW c \in Envelope, NEW p \in Provider
  PROVE  /\ [c EXCEPT !.provider = p] \in Envelope
         /\ [c EXCEPT !.provider = p].kind = c.kind
         /\ [c EXCEPT !.provider = p].provider = p
BY DEF Envelope

\* While it waits, complete_oauth is a well-typed command.
LEMMA CompleteOAuthWaits ==
  ASSUME TypeOK, StartCompleteOAuth, pending # None
  PROVE  /\ stage' = "calling"
         /\ doing' \in Envelope
         /\ doing'.kind = "complete_oauth"
         /\ doing'.provider \in Provider
<1>1. pending \in Provider
  BY DEF TypeOK, SessionTypeOK
<1>2. Head(inbox) \in Envelope /\ Head(inbox).kind = "complete_oauth"
  BY HeadIsCommand DEF StartCompleteOAuth, Taking
<1>3. doing' = [Head(inbox) EXCEPT !.provider = pending] /\ stage' = "calling"
  BY DEF StartCompleteOAuth
<1> QED BY <1>1, <1>2, <1>3, CompletingIsEnvelope

\* complete_oauth, with or without a pending session.
LEMMA CompleteOAuthTypes ==
  ASSUME TypeOK, StartCompleteOAuth
  PROVE  TypeOK'
<1>1. TakeOAuth /\ tasks' = {} /\ inbox # <<>>
  BY DEF StartCompleteOAuth, StopIndependentTasks, Taking
<1>2. told' \in [selected: Provider \cup {None},
               state: {"disconnected", "authorizing", "connecting", "connected"},
               account: Connection \cup {None}]
  BY DEF StartCompleteOAuth, Tell, TypeOK
<1>3. inbox' \in Seq(Command)
  BY <1>1, HeadIsCommand DEF StartCompleteOAuth, HandledAtOnce
<1>4. CASE pending = None
  BY <1>1, <1>2, <1>3, <1>4
  DEF StartCompleteOAuth, HandledAtOnce, handlerVars, streamVars, cacheVars,
      TakeOAuth, TypeOK, SessionTypeOK
<1>5. CASE pending # None
  BY <1>1, <1>2, <1>3, <1>5, CompleteOAuthWaits
  DEF StartCompleteOAuth, streamVars, cacheVars, TakeOAuth, TypeOK,
      SessionTypeOK, Stage
<1> QED BY <1>4, <1>5

\* A new task runs on the connected backend.
LEMMA FetchTypes ==
  ASSUME TypeOK, Fetch
  PROVE  TypeOK'
<1> DEFINE t == [request |-> Head(inbox).request, game |-> Head(inbox).game, on |-> backend]
<1>1. Head(inbox) \in Envelope /\ inbox' \in Seq(Command)
  BY HeadIsCommand DEF Fetch, Taking, HandledAtOnce
<1>2. backend # None => t \in Task
  BY <1>1 DEF Envelope, Task, TypeOK, SessionTypeOK
<1>3. tasks' \subseteq Task
  BY <1>2 DEF Fetch, TypeOK
<1> QED
  BY <1>1, <1>3
  DEF Fetch, HandledAtOnce, handlerVars, sessionVars, streamVars, cacheVars,
      TypeOK, SessionTypeOK

\* A new stream begins just before a snapshot of the connected backend.
LEMMA StartLiveGameTypes ==
  ASSUME TypeOK, StartLiveGame
  PROVE  TypeOK'
<1> DEFINE g == Head(inbox).game
           s == [game |-> g, on |-> backend, seen |-> version[backend][g] - 1]
<1>1. g \in Game /\ inbox' \in Seq(Command)
  BY HeadIsCommand, ArgumentsArePresent
  DEF StartLiveGame, Taking, GameKind, HandledAtOnce
<1>2. backend # None => s \in LiveTask
  <2> SUFFICES ASSUME backend # None PROVE s \in LiveTask
    OBVIOUS
  <2>1. backend \in Connection
    BY DEF TypeOK, SessionTypeOK
  <2>2. version[backend][g] \in 0..MaxVersion
    BY <1>1, <2>1 DEF TypeOK
  <2> QED BY <1>1, <2>1, <2>2, WorkerAssumption DEF LiveTask
<1>3. live' \subseteq LiveTask
  BY <1>2 DEF StartLiveGame, OtherStreams, TypeOK
<1> QED
  BY <1>1, <1>3
  DEF StartLiveGame, HandledAtOnce, handlerVars, sessionVars, cacheVars,
      TypeOK, SessionTypeOK

\* What a stream emits is a snapshot of its backend.
LEMMA StreamEmitsTypes ==
  ASSUME TypeOK, NEW t \in live, StreamEmits(t)
  PROVE  TypeOK'
<1>1. t \in LiveTask /\ t.game \in Game /\ t.on \in Connection
  BY DEF TypeOK, LiveTask
<1>2. PICK v \in (t.seen + 1)..version[t.on][t.game] :
        /\ live' = (live \ {t}) \cup {[t EXCEPT !.seen = v]}
        /\ latest' = [latest EXCEPT ![t.game] = [on |-> t.on, version |-> v]]
  BY DEF StreamEmits
<1>3. version[t.on][t.game] \in 0..MaxVersion /\ t.seen \in -1..MaxVersion
  BY <1>1 DEF TypeOK, LiveTask
<1>4. v \in 0..MaxVersion
  BY <1>2, <1>3, WorkerAssumption
<1>5. live' \subseteq LiveTask
  <2>1. v \in -1..MaxVersion
    BY <1>4
  <2>2. [t EXCEPT !.seen = v] \in LiveTask
    BY <1>1, <2>1 DEF LiveTask
  <2> QED BY <1>2, <2>2 DEF TypeOK
<1>6. latest' \in [Game -> Snapshot \cup {None}]
  BY <1>1, <1>2, <1>4 DEF Snapshot, TypeOK
<1> QED
  BY <1>5, <1>6 DEF StreamEmits, TypeOK, SessionTypeOK, sessionVars, handlerVars

\* Snapshots stay within their bound.
LEMMA BackendMovesOnTypes ==
  ASSUME TypeOK, NEW c \in Connection, NEW g \in Game, BackendMovesOn(c, g)
  PROVE  TypeOK'
<1>1. version[c][g] + 1 \in 0..MaxVersion
  BY WorkerAssumption DEF BackendMovesOn, TypeOK
<1>2. version' \in [Connection -> [Game -> 0..MaxVersion]]
  BY <1>1 DEF BackendMovesOn, TypeOK
<1> QED
  BY <1>2
  DEF BackendMovesOn, TypeOK, SessionTypeOK, sessionVars, handlerVars,
      streamVars, cacheVars

\* Every step leaves the state well typed.
LEMMA TypesStay ==
  ASSUME TypeOK, HandlerInv, [Next]_vars
  PROVE  TypeOK'
<1>1. CASE UNCHANGED <<inbox, doing, stage, tasks, live, catalog, latest,
                       reviews, version, told, since, selected, backend,
                       pending>>
  BY <1>1
  DEF TypeOK, SessionTypeOK
<1>2. CASE BeginOAuthSucceeds
  BY <1>2, HeadIsCommand, ArgumentsArePresent
  DEF BeginOAuthSucceeds, Taking, BeginOAuth, HandledAtOnce, Tell, TypeOK,
      SessionTypeOK, ProviderKind, handlerVars, streamVars, cacheVars
<1>3. CASE BeginOAuthFails
  BY <1>3, HeadIsCommand
  DEF BeginOAuthFails, Taking, HandledAtOnce, Tell, TypeOK, SessionTypeOK,
      sessionVars, handlerVars, streamVars, cacheVars
<1>4. CASE HandleCancelOAuth
  BY <1>4, HeadIsCommand
  DEF HandleCancelOAuth, Taking, CancelOAuth, HandledAtOnce, Tell, TypeOK,
      SessionTypeOK, handlerVars, streamVars, cacheVars
<1>5. CASE StartConnect
  BY <1>5, HeadIsCommand, ArgumentsArePresent
  DEF StartConnect, Taking, StopIndependentTasks, SelectForConnect, WaitsAs,
      Tell, TypeOK, SessionTypeOK, ProviderKind, Stage, streamVars, cacheVars
<1>6. CASE StartCompleteOAuth
  BY <1>6, CompleteOAuthTypes
<1>7. CASE StartSelectBackend
  BY <1>7, HeadIsCommand
  DEF StartSelectBackend, Taking, StopIndependentTasks, WaitsAs, TypeOK,
      SessionTypeOK, Stage, sessionVars, streamVars, cacheVars
<1>8. CASE StartTeardown
  BY <1>8, HeadIsCommand
  DEF StartTeardown, Taking, StopIndependentTasks, WaitsAs, TypeOK,
      SessionTypeOK, Stage, sessionVars, streamVars, cacheVars
<1>9. CASE AnswerAtOnce
  BY <1>9
  DEF AnswerAtOnce, Taking, HandledAtOnce, TypeOK, SessionTypeOK, sessionVars,
      handlerVars, streamVars, cacheVars
<1>10. CASE Ask
  BY <1>10, HeadIsCommand
  DEF Ask, Taking, CallBackend, HandledAtOnce, WaitsAs, TypeOK, SessionTypeOK,
      Task, Snapshot, Stage, SessionCall, Teardown, sessionVars, handlerVars,
      streamVars, cacheVars
<1>11. CASE PlayMove
  BY <1>11, HeadIsCommand
  DEF PlayMove, Taking, CallBackend, HandledAtOnce, WaitsAs, TypeOK,
      SessionTypeOK, Task, Snapshot, Stage, SessionCall, Teardown,
      sessionVars, handlerVars, streamVars, cacheVars
<1>12. CASE Fetch
  BY <1>12, FetchTypes
<1>13. CASE WatchLiveGames
  BY <1>13
  DEF WatchLiveGames, Taking, HandledAtOnce, TypeOK, SessionTypeOK,
      sessionVars, handlerVars, cacheVars
<1>14. CASE StartLiveGame
  BY <1>14, StartLiveGameTypes
<1>15. CASE StopLiveGame
  BY <1>15, HeadIsCommand
  DEF StopLiveGame, Taking, OtherStreams, HandledAtOnce, TypeOK,
      SessionTypeOK, HandlerInv, sessionVars, handlerVars
<1>16. CASE ConnectSucceeds
  BY <1>16
  DEF ConnectSucceeds, Fresh, Connected, TellConnected, Done, TypeOK,
      SessionTypeOK, HandlerInv, Connection, Task, Stage, Teardown,
      streamVars, cacheVars
<1>17. CASE ConnectFails
  BY <1>17
  DEF ConnectFails, Tell, Done, TypeOK, SessionTypeOK, Stage, sessionVars,
      streamVars, cacheVars
<1>18. CASE SelectSwitches
  BY <1>18
  DEF SelectSwitches, Waiting, Fresh, Select, TypeOK, SessionTypeOK,
      HandlerInv, Stage, SessionCall, streamVars, cacheVars
<1>19. CASE SelectFails
  BY <1>19
  DEF SelectFails, Done, TypeOK, SessionTypeOK, Stage, sessionVars,
      streamVars, cacheVars
<1>20. CASE CallReturns
  BY <1>20
  DEF CallReturns, Done, TypeOK, SessionTypeOK, Stage, sessionVars,
      streamVars, cacheVars
<1>21. CASE AccountRefreshed
  BY <1>21
  DEF AccountRefreshed, Done, TypeOK, SessionTypeOK, Stage, sessionVars,
      streamVars, cacheVars
<1>22. CASE FinishSelectBackend
  BY <1>22
  DEF FinishSelectBackend, StopStreams, ClearCaches, Done, TypeOK,
      SessionTypeOK, Stage, sessionVars
<1>23. CASE FinishDisconnect
  BY <1>23
  DEF FinishDisconnect, StopStreams, ClearCaches, Disconnect, Tell, Done,
      TypeOK, SessionTypeOK, Stage
<1>24. CASE FinishClearSelection
  BY <1>24
  DEF FinishClearSelection, StopStreams, ClearCaches, ClearSelection, Done,
      TypeOK, SessionTypeOK, Stage
<1>25. CASE FinishShutdown
  BY <1>25
  DEF FinishShutdown, StopStreams, TypeOK, SessionTypeOK, Stage, sessionVars,
      cacheVars
<1>26. ASSUME NEW t \in tasks, ReviewLoads(t)
       PROVE  TypeOK'
  BY <1>26
  DEF ReviewLoads, TaskAnswers, TypeOK, SessionTypeOK, Task, sessionVars,
      handlerVars, streamVars
<1>27. ASSUME NEW t \in tasks, FetchEnds(t)
       PROVE  TypeOK'
  BY <1>27
  DEF FetchEnds, TaskAnswers, TypeOK, SessionTypeOK, sessionVars, handlerVars,
      streamVars
<1>28. ASSUME NEW t \in live, StreamEmits(t)
       PROVE  TypeOK'
  BY <1>28, StreamEmitsTypes
<1>29. ASSUME NEW t \in live, StreamEnds(t)
       PROVE  TypeOK'
  BY <1>29
  DEF StreamEnds, TypeOK, SessionTypeOK, sessionVars, handlerVars, cacheVars
<1>30. ASSUME NEW c \in Command, Send(c)
       PROVE  TypeOK'
  BY <1>30
  DEF Send, TypeOK, SessionTypeOK, sessionVars, handlerVars, streamVars,
      cacheVars
<1>31. ASSUME NEW c \in Connection, NEW g \in Game, BackendMovesOn(c, g)
       PROVE  TypeOK'
  BY <1>31, BackendMovesOnTypes
<1>32. CASE CatalogEnds
  BY <1>32
  DEF CatalogEnds, TypeOK, SessionTypeOK, sessionVars, handlerVars, cacheVars
<1> QED
  BY <1>1, <1>2, <1>3, <1>4, <1>5, <1>6, <1>7, <1>8, <1>9, <1>10, <1>11,
     <1>12, <1>13, <1>14, <1>15, <1>16, <1>17, <1>18, <1>19, <1>20, <1>21,
     <1>22, <1>23, <1>24, <1>25, <1>26, <1>27, <1>28, <1>29, <1>30, <1>31,
     <1>32
  DEF Next, HandleNext, CallSettles, FinishStopping, TaskSettles, Environment,
      vars, sessionVars, handlerVars, streamVars, cacheVars

-----------------------------------------------------------------------------
(***************************************************************************)
(* Handlers and tasks.                                                     *)
(***************************************************************************)

\* complete_oauth stops the tasks and waits as a command, or is done.
LEMMA CompleteOAuthHandler ==
  ASSUME TypeOK, HandlerInv, StartCompleteOAuth
  PROVE  HandlerInv'
<1>1. CASE pending = None
  BY <1>1
  DEF StartCompleteOAuth, HandlerInv, StopIndependentTasks, HandledAtOnce,
      handlerVars, Taking
<1>2. CASE pending # None
  BY <1>2, CompleteOAuthWaits
  DEF StartCompleteOAuth, HandlerInv, StopIndependentTasks, SessionCall,
      BackendCall, Taking
<1> QED BY <1>1, <1>2

\* Handlers wait with their command, and the session changes without tasks.
LEMMA HandlersAgree ==
  ASSUME TypeOK, HandlerInv, [Next]_vars
  PROVE  HandlerInv'
<1>1. CASE UNCHANGED <<tasks, doing, stage, backend>>
  BY <1>1
  DEF HandlerInv
<1>2. CASE StartConnect
  BY <1>2, HeadIsCommand, ArgumentsArePresent
  DEF StartConnect, Taking, StopIndependentTasks, WaitsAs, HandlerInv,
      SessionCall, BackendCall, ProviderKind
<1>3. CASE StartCompleteOAuth
  BY <1>3, CompleteOAuthHandler
<1>4. CASE StartSelectBackend
  BY <1>4, HeadIsCommand, ArgumentsArePresent
  DEF StartSelectBackend, Taking, StopIndependentTasks, WaitsAs, HandlerInv,
      SessionCall, BackendCall, ProviderKind
<1>5. CASE StartTeardown
  BY <1>5, HeadIsCommand
  DEF StartTeardown, Taking, StopIndependentTasks, WaitsAs, HandlerInv,
      Teardown
<1>6. CASE Ask
  BY <1>6, HeadIsCommand
  DEF Ask, Taking, CallBackend, HandledAtOnce, WaitsAs, HandlerInv,
      SessionCall, BackendCall, sessionVars, handlerVars
<1>7. CASE PlayMove
  BY <1>7, HeadIsCommand
  DEF PlayMove, Taking, CallBackend, HandledAtOnce, WaitsAs, HandlerInv,
      SessionCall, BackendCall, sessionVars, handlerVars
<1>8. CASE Fetch
  BY <1>8
  DEF Fetch, Taking, HandledAtOnce, HandlerInv, handlerVars
<1>9. CASE ConnectSucceeds
  BY <1>9
  DEF ConnectSucceeds, Done, HandlerInv
<1>10. CASE ConnectFails
  BY <1>10
  DEF ConnectFails, Done, HandlerInv
<1>11. CASE SelectSwitches
  BY <1>11
  DEF SelectSwitches, Waiting, HandlerInv, SessionCall
<1>12. CASE SelectFails
  BY <1>12
  DEF SelectFails, Done, HandlerInv
<1>13. CASE CallReturns
  BY <1>13
  DEF CallReturns, Done, HandlerInv
<1>14. CASE AccountRefreshed
  BY <1>14
  DEF AccountRefreshed, Done, HandlerInv
<1>15. CASE FinishSelectBackend
  BY <1>15
  DEF FinishSelectBackend, Done, HandlerInv
<1>16. CASE FinishDisconnect
  BY <1>16
  DEF FinishDisconnect, Done, HandlerInv
<1>17. CASE FinishClearSelection
  BY <1>17
  DEF FinishClearSelection, Done, HandlerInv
<1>18. CASE FinishShutdown
  BY <1>18
  DEF FinishShutdown, Waiting, HandlerInv
<1>19. ASSUME NEW t \in tasks, ReviewLoads(t)
       PROVE  HandlerInv'
  BY <1>19
  DEF ReviewLoads, TaskAnswers, HandlerInv, sessionVars, handlerVars
<1>20. ASSUME NEW t \in tasks, FetchEnds(t)
       PROVE  HandlerInv'
  BY <1>20
  DEF FetchEnds, TaskAnswers, HandlerInv, sessionVars, handlerVars
<1> QED
  BY <1>1, <1>2, <1>3, <1>4, <1>5, <1>6, <1>7, <1>8, <1>9, <1>10, <1>11,
     <1>12, <1>13, <1>14, <1>15, <1>16, <1>17, <1>18, <1>19, <1>20
  DEF Next, HandleNext, CallSettles, FinishStopping, TaskSettles, Environment,
      BeginOAuthSucceeds, BeginOAuth, HandledAtOnce, BeginOAuthFails,
      HandleCancelOAuth, CancelOAuth, AnswerAtOnce, WatchLiveGames,
      StartLiveGame, StopLiveGame, StreamEmits, StreamEnds, Send,
      BackendMovesOn, CatalogEnds, vars, sessionVars, handlerVars

\* The backend changes only while no task runs.
LEMMA TasksAgree ==
  ASSUME TypeOK, HandlerInv, TasksUseTheBackend, [Next]_vars
  PROVE  TasksUseTheBackend'
<1>1. CASE UNCHANGED <<tasks, backend>>
  BY <1>1
  DEF TasksUseTheBackend
<1>2. CASE StartConnect
  BY <1>2
  DEF StartConnect, StopIndependentTasks, TasksUseTheBackend
<1>3. CASE StartCompleteOAuth
  BY <1>3
  DEF StartCompleteOAuth, StopIndependentTasks, TasksUseTheBackend
<1>4. CASE StartSelectBackend
  BY <1>4
  DEF StartSelectBackend, StopIndependentTasks, TasksUseTheBackend
<1>5. CASE StartTeardown
  BY <1>5
  DEF StartTeardown, StopIndependentTasks, TasksUseTheBackend
<1>6. CASE Fetch
  BY <1>6
  DEF Fetch, TasksUseTheBackend, sessionVars
<1>7. CASE ConnectSucceeds
  BY <1>7
  DEF ConnectSucceeds, Connecting, TasksUseTheBackend, HandlerInv, SessionCall
<1>8. CASE SelectSwitches
  BY <1>8
  DEF SelectSwitches, Waiting, TasksUseTheBackend, HandlerInv, SessionCall
<1>9. CASE FinishDisconnect
  BY <1>9
  DEF FinishDisconnect, Waiting, TasksUseTheBackend, HandlerInv
<1>10. CASE FinishClearSelection
  BY <1>10
  DEF FinishClearSelection, Waiting, TasksUseTheBackend, HandlerInv
<1>11. ASSUME NEW t \in tasks, ReviewLoads(t)
       PROVE  TasksUseTheBackend'
  BY <1>11
  DEF ReviewLoads, TaskAnswers, TasksUseTheBackend, sessionVars
<1>12. ASSUME NEW t \in tasks, FetchEnds(t)
       PROVE  TasksUseTheBackend'
  BY <1>12
  DEF FetchEnds, TaskAnswers, TasksUseTheBackend, sessionVars
<1> QED
  BY <1>1, <1>2, <1>3, <1>4, <1>5, <1>6, <1>7, <1>8, <1>9, <1>10, <1>11, <1>12
  DEF Next, HandleNext, CallSettles, FinishStopping, TaskSettles, Environment,
      BeginOAuthSucceeds, BeginOAuth, BeginOAuthFails, HandleCancelOAuth,
      CancelOAuth, AnswerAtOnce, Ask, PlayMove, WatchLiveGames, StartLiveGame,
      StopLiveGame, ConnectFails, SelectFails, CallReturns, AccountRefreshed,
      FinishSelectBackend, FinishShutdown, StreamEmits, StreamEnds, Send,
      BackendMovesOn, CatalogEnds, vars, sessionVars

-----------------------------------------------------------------------------
(***************************************************************************)
(* Streams and caches.                                                     *)
(***************************************************************************)

\* A stream fills the cache from its own backend.
LEMMA StreamEmitsRecent ==
  ASSUME TypeOK, BackendIsRecent, NothingOutlivesTeardown, NEW t \in live,
         StreamEmits(t)
  PROVE  (BackendIsRecent /\ NothingOutlivesTeardown)'
<1> DEFINE shown(v) == [on |-> t.on, version |-> v]
<1>1. PICK v \in (t.seen + 1)..version[t.on][t.game] :
        /\ live' = (live \ {t}) \cup {[t EXCEPT !.seen = v]}
        /\ latest' = [latest EXCEPT ![t.game] = shown(v)]
  BY DEF StreamEmits
<1>2. t \in LiveTask /\ [t EXCEPT !.seen = v].on = t.on
  BY DEF TypeOK, LiveTask
<1>3. UNCHANGED <<backend, since, catalog, reviews>>
  BY DEF StreamEmits, sessionVars
<1>4. \A s \in live' : s.on \in since'
  BY <1>1, <1>2, <1>3 DEF NothingOutlivesTeardown
<1>5. \A g \in Game : latest'[g] # None => latest'[g].on \in since'
  BY <1>1, <1>2, <1>3 DEF NothingOutlivesTeardown, TypeOK, LiveTask
<1> QED
  BY <1>3, <1>4, <1>5 DEF BackendIsRecent, NothingOutlivesTeardown

\* Streams start on the backend, which is recent, and caches are filled by them.
LEMMA StreamsAreRecent ==
  ASSUME TypeOK, HandlerInv, TasksUseTheBackend, BackendIsRecent,
         NothingOutlivesTeardown, [Next]_vars
  PROVE  (BackendIsRecent /\ NothingOutlivesTeardown)'
<1>1. CASE UNCHANGED <<backend, since, live, catalog, latest, reviews>>
  BY <1>1
  DEF BackendIsRecent, NothingOutlivesTeardown
<1>2. CASE WatchLiveGames
  BY <1>2
  DEF WatchLiveGames, BackendIsRecent, NothingOutlivesTeardown, sessionVars,
      cacheVars
<1>3. CASE StartLiveGame
  BY <1>3
  DEF StartLiveGame, OtherStreams, BackendIsRecent, NothingOutlivesTeardown,
      sessionVars, cacheVars
<1>4. CASE StopLiveGame
  BY <1>4
  DEF StopLiveGame, OtherStreams, BackendIsRecent, NothingOutlivesTeardown,
      sessionVars
<1>5. CASE ConnectSucceeds
  BY <1>5
  DEF ConnectSucceeds, Connected, BackendIsRecent, NothingOutlivesTeardown,
      streamVars, cacheVars
<1>6. CASE SelectSwitches
  BY <1>6
  DEF SelectSwitches, Select, BackendIsRecent, NothingOutlivesTeardown,
      streamVars, cacheVars
<1>7. CASE FinishSelectBackend
  BY <1>7
  DEF FinishSelectBackend, StopStreams, ClearCaches, BackendIsRecent,
      NothingOutlivesTeardown, sessionVars
<1>8. CASE FinishDisconnect
  BY <1>8
  DEF FinishDisconnect, StopStreams, ClearCaches, Disconnect, BackendIsRecent,
      NothingOutlivesTeardown
<1>9. CASE FinishClearSelection
  BY <1>9
  DEF FinishClearSelection, StopStreams, ClearCaches, ClearSelection,
      BackendIsRecent, NothingOutlivesTeardown
<1>10. CASE FinishShutdown
  BY <1>10
  DEF FinishShutdown, StopStreams, BackendIsRecent, NothingOutlivesTeardown,
      sessionVars, cacheVars
<1>11. ASSUME NEW t \in tasks, ReviewLoads(t)
       PROVE  (BackendIsRecent /\ NothingOutlivesTeardown)'
  BY <1>11
  DEF ReviewLoads, TaskAnswers, TasksUseTheBackend, BackendIsRecent,
      NothingOutlivesTeardown, sessionVars, streamVars
<1>12. ASSUME NEW t \in live, StreamEmits(t)
       PROVE  (BackendIsRecent /\ NothingOutlivesTeardown)'
  BY <1>12, StreamEmitsRecent
<1>13. ASSUME NEW t \in live, StreamEnds(t)
       PROVE  (BackendIsRecent /\ NothingOutlivesTeardown)'
  BY <1>13
  DEF StreamEnds, BackendIsRecent, NothingOutlivesTeardown, sessionVars,
      cacheVars
<1>14. CASE CatalogEnds
  BY <1>14
  DEF CatalogEnds, BackendIsRecent, NothingOutlivesTeardown, sessionVars,
      cacheVars
<1> QED
  BY <1>1, <1>2, <1>3, <1>4, <1>5, <1>6, <1>7, <1>8, <1>9, <1>10, <1>11,
     <1>12, <1>13, <1>14
  DEF Next, HandleNext, CallSettles, FinishStopping, TaskSettles, Environment,
      BeginOAuthSucceeds, BeginOAuth, BeginOAuthFails, HandleCancelOAuth,
      CancelOAuth, StartConnect, SelectForConnect, StartCompleteOAuth,
      TakeOAuth, StartSelectBackend, StartTeardown, AnswerAtOnce, Ask,
      PlayMove, Fetch, ConnectFails, SelectFails, CallReturns,
      AccountRefreshed, FetchEnds, TaskAnswers, Send, BackendMovesOn, vars,
      sessionVars, streamVars, cacheVars

\* A stream that emits has then shown what the cache holds.
LEMMA StreamEmitsAhead ==
  ASSUME TypeOK, OneStream, StreamsAreAhead, ShownExists, NEW t \in live,
         StreamEmits(t)
  PROVE  (OneStream /\ StreamsAreAhead /\ ShownExists)'
<1> DEFINE shown(v) == [on |-> t.on, version |-> v]
<1>1. PICK v \in (t.seen + 1)..version[t.on][t.game] :
        /\ live' = (live \ {t}) \cup {[t EXCEPT !.seen = v]}
        /\ latest' = [latest EXCEPT ![t.game] = shown(v)]
  BY DEF StreamEmits
<1> DEFINE s == [t EXCEPT !.seen = v]
<1>2. /\ t \in LiveTask /\ s.game = t.game /\ s.on = t.on /\ s.seen = v
      /\ live' = (live \ {t}) \cup {s}
  BY <1>1 DEF TypeOK, LiveTask
<1> HIDE DEF s
<1>3. latest \in [Game -> Snapshot \cup {None}] /\ version' = version
  BY DEF StreamEmits, TypeOK
<1>4. latest'[t.game] = shown(v) /\ \A g \in Game \ {t.game} : latest'[g] = latest[g]
  BY <1>1, <1>2, <1>3 DEF LiveTask
<1>5. OneStream'
  <2> SUFFICES ASSUME NEW x \in live', NEW y \in live', x.game = y.game
               PROVE  x = y
    BY DEF OneStream
  <2>1. ASSUME NEW u \in live'
        PROVE  u = s \/ (u \in live /\ u.game # t.game)
    <3>1. t \in live
      OBVIOUS
    <3>2. u = s \/ (u \in live /\ u # t)
      BY <1>2, <2>1
    <3>3. u \in live /\ u # t => u.game # t.game
      BY <3>1 DEF OneStream
    <3> QED BY <3>2, <3>3
  <2>2. CASE x = s \/ y = s
    BY <1>2, <2>1, <2>2
  <2>3. CASE x \in live /\ y \in live
    BY <2>3 DEF OneStream
  <2> QED BY <2>1, <2>2, <2>3
<1>6. StreamsAreAhead'
  <2>1. v \in Int
    BY <1>1
  <2>2. ASSUME NEW u \in live'
        PROVE  latest'[u.game] # None /\ latest'[u.game].on = u.on
                 => latest'[u.game].version <= u.seen + 1
    <3>1. CASE u = s
      BY <1>2, <1>4, <2>1, <3>1
    <3>2. CASE u \in live /\ u.game # t.game
      BY <1>4, <3>2 DEF StreamsAreAhead, TypeOK, LiveTask
    <3> QED BY <1>2, <2>2, <3>1, <3>2 DEF OneStream
  <2> QED BY <2>2 DEF StreamsAreAhead
<1>7. ShownExists'
  BY <1>1, <1>2, <1>3, <1>4 DEF ShownExists
<1> QED BY <1>5, <1>6, <1>7

\* A new stream replaces the one its game had.
LEMMA StartLiveGameAhead ==
  ASSUME TypeOK, OneStream, StreamsAreAhead, ShownExists, StartLiveGame
  PROVE  (OneStream /\ StreamsAreAhead /\ ShownExists)'
<1> DEFINE g == Head(inbox).game
           s == [game |-> g, on |-> backend, seen |-> version[backend][g] - 1]
<1>1. g \in Game /\ live' \subseteq OtherStreams(g) \cup (IF backend = None THEN {} ELSE {s})
  BY HeadIsCommand, ArgumentsArePresent DEF StartLiveGame, Taking, GameKind
<1>2. UNCHANGED <<latest, version, backend>>
  BY DEF StartLiveGame, cacheVars, sessionVars
<1>3. OneStream'
  BY <1>1 DEF OneStream, OtherStreams
<1>4. StreamsAreAhead'
  <2> SUFFICES ASSUME NEW t \in live', latest[t.game] # None, latest[t.game].on = t.on
               PROVE  latest[t.game].version <= t.seen + 1
    BY <1>2 DEF StreamsAreAhead
  <2>1. CASE t \in live
    BY <2>1 DEF StreamsAreAhead
  <2>2. CASE t = s /\ backend \in Connection
    <3>1. version[backend][g] \in Int
      BY <1>1, <2>2 DEF TypeOK
    <3>2. latest[g].version <= version[backend][g]
      BY <1>1, <2>2 DEF ShownExists
    <3> QED BY <2>2, <3>1, <3>2
  <2> QED BY <1>1, <2>1, <2>2 DEF OtherStreams, TypeOK, SessionTypeOK
<1>5. ShownExists'
  BY <1>2 DEF ShownExists
<1> QED BY <1>3, <1>4, <1>5

\* A game keeps to one stream that does not fall behind the cache.
LEMMA StreamsStayAhead ==
  ASSUME TypeOK, OneStream, StreamsAreAhead, ShownExists, [Next]_vars
  PROVE  (OneStream /\ StreamsAreAhead /\ ShownExists)'
<1>1. CASE UNCHANGED <<live, latest, version>>
  BY <1>1
  DEF OneStream, StreamsAreAhead, ShownExists
<1>2. CASE StartLiveGame
  BY <1>2, StartLiveGameAhead
<1>3. CASE StopLiveGame
  BY <1>3
  DEF StopLiveGame, OtherStreams, OneStream, StreamsAreAhead, ShownExists
<1>4. CASE FinishSelectBackend
  BY <1>4
  DEF FinishSelectBackend, StopStreams, ClearCaches, OneStream,
      StreamsAreAhead, ShownExists
<1>5. CASE FinishDisconnect
  BY <1>5
  DEF FinishDisconnect, StopStreams, ClearCaches, OneStream, StreamsAreAhead,
      ShownExists
<1>6. CASE FinishClearSelection
  BY <1>6
  DEF FinishClearSelection, StopStreams, ClearCaches, OneStream,
      StreamsAreAhead, ShownExists
<1>7. CASE FinishShutdown
  BY <1>7
  DEF FinishShutdown, StopStreams, OneStream, StreamsAreAhead, ShownExists,
      cacheVars
<1>8. ASSUME NEW t \in live, StreamEmits(t)
       PROVE  (OneStream /\ StreamsAreAhead /\ ShownExists)'
  BY <1>8, StreamEmitsAhead
<1>9. ASSUME NEW t \in live, StreamEnds(t)
       PROVE  (OneStream /\ StreamsAreAhead /\ ShownExists)'
  BY <1>9
  DEF StreamEnds, OneStream, StreamsAreAhead, ShownExists, cacheVars
<1>10. ASSUME NEW c \in Connection, NEW g \in Game, BackendMovesOn(c, g)
       PROVE  (OneStream /\ StreamsAreAhead /\ ShownExists)'
  BY <1>10
  DEF BackendMovesOn, TypeOK, OneStream, StreamsAreAhead, ShownExists,
      Snapshot, streamVars, cacheVars
<1> QED
  BY <1>1, <1>2, <1>3, <1>4, <1>5, <1>6, <1>7, <1>8, <1>9, <1>10
  DEF Next, HandleNext, CallSettles, FinishStopping, TaskSettles, Environment,
      BeginOAuthSucceeds, BeginOAuthFails, HandleCancelOAuth, StartConnect,
      StartCompleteOAuth, StartSelectBackend, StartTeardown, AnswerAtOnce,
      Ask, PlayMove, Fetch, WatchLiveGames, ConnectSucceeds, ConnectFails,
      SelectSwitches, SelectFails, CallReturns, AccountRefreshed, ReviewLoads,
      TaskAnswers, FetchEnds, Send, CatalogEnds, vars, streamVars, cacheVars

-----------------------------------------------------------------------------
(***************************************************************************)
(* Events and the end.                                                     *)
(***************************************************************************)

\* complete_oauth announces a connection if there is one to wait for.
LEMMA CompleteOAuthEvents ==
  ASSUME TypeOK, HandlerInv, ConnectedIsTrue, ConnectingIsWorkedOn,
         AuthorizingCanComplete, StartCompleteOAuth
  PROVE  (ConnectedIsTrue /\ ConnectingIsWorkedOn /\ AuthorizingCanComplete)'
<1>1. CASE pending = None
  BY <1>1
  DEF AuthorizingCanComplete, StartCompleteOAuth, HandledAtOnce, handlerVars,
      Taking, Tell, TypeOK, ConnectedIsTrue, ConnectingIsWorkedOn, Connecting,
      Waiting
<1>2. CASE pending # None
  BY <1>2, CompleteOAuthWaits
  DEF AuthorizingCanComplete, StartCompleteOAuth, Tell, TypeOK,
      ConnectedIsTrue, ConnectingIsWorkedOn, Connecting, Waiting
<1> QED BY <1>1, <1>2

\* What the events say is what the handlers do.
LEMMA EventsAgree ==
  ASSUME TypeOK, HandlerInv, ConnectedIsTrue, ConnectingIsWorkedOn,
         AuthorizingCanComplete, [Next]_vars
  PROVE  (ConnectedIsTrue /\ ConnectingIsWorkedOn /\ AuthorizingCanComplete)'
<1>1. CASE UNCHANGED <<told, backend, pending, doing, stage>>
  BY <1>1
  DEF ConnectedIsTrue, ConnectingIsWorkedOn, AuthorizingCanComplete,
      Connecting, Waiting
<1>2. CASE BeginOAuthSucceeds
  BY <1>2, HeadIsCommand, ArgumentsArePresent, SessionAssumption
  DEF BeginOAuthSucceeds, Taking, BeginOAuth, HandledAtOnce, Tell,
      ConnectedIsTrue, ConnectingIsWorkedOn, AuthorizingCanComplete,
      ProviderKind, Connecting, handlerVars
<1>3. CASE BeginOAuthFails
  BY <1>3
  DEF BeginOAuthFails, Taking, HandledAtOnce, Tell, ConnectedIsTrue,
      ConnectingIsWorkedOn, AuthorizingCanComplete, Connecting, handlerVars
<1>4. CASE HandleCancelOAuth
  BY <1>4
  DEF HandleCancelOAuth, Taking, HandledAtOnce, Tell, ConnectedIsTrue,
      ConnectingIsWorkedOn, AuthorizingCanComplete, Connecting, handlerVars
<1>5. CASE StartConnect
  BY <1>5
  DEF StartConnect, Taking, WaitsAs, Tell, ConnectedIsTrue,
      ConnectingIsWorkedOn, AuthorizingCanComplete, Connecting
<1>6. CASE StartCompleteOAuth
  BY <1>6, CompleteOAuthEvents
<1>7. CASE StartSelectBackend
  BY <1>7
  DEF StartSelectBackend, Taking, WaitsAs, ConnectedIsTrue,
      ConnectingIsWorkedOn, AuthorizingCanComplete, Connecting, Waiting,
      sessionVars
<1>8. CASE StartTeardown
  BY <1>8
  DEF StartTeardown, Taking, WaitsAs, ConnectedIsTrue, ConnectingIsWorkedOn,
      AuthorizingCanComplete, Connecting, Waiting, sessionVars
<1>9. CASE Ask
  BY <1>9
  DEF Ask, Taking, CallBackend, HandledAtOnce, WaitsAs, ConnectedIsTrue,
      ConnectingIsWorkedOn, AuthorizingCanComplete, Connecting, Waiting,
      sessionVars, handlerVars
<1>10. CASE PlayMove
  BY <1>10
  DEF PlayMove, Taking, CallBackend, HandledAtOnce, WaitsAs, ConnectedIsTrue,
      ConnectingIsWorkedOn, AuthorizingCanComplete, Connecting, Waiting,
      sessionVars, handlerVars
<1>11. CASE ConnectSucceeds
  BY <1>11, NoneIsNoConnection
  DEF ConnectSucceeds, Connecting, Fresh, Connected, TellConnected, Done,
      ConnectedIsTrue, ConnectingIsWorkedOn, AuthorizingCanComplete
<1>12. CASE ConnectFails
  BY <1>12
  DEF ConnectFails, Connecting, Tell, Done, ConnectedIsTrue,
      ConnectingIsWorkedOn, AuthorizingCanComplete
<1>13. CASE SelectSwitches
  BY <1>13
  DEF SelectSwitches, Waiting, ConnectedIsTrue, ConnectingIsWorkedOn,
      AuthorizingCanComplete, Connecting
<1>14. CASE SelectFails
  BY <1>14
  DEF SelectFails, Waiting, Done, ConnectedIsTrue, ConnectingIsWorkedOn,
      AuthorizingCanComplete, Connecting, sessionVars
<1>15. CASE CallReturns
  BY <1>15
  DEF CallReturns, Waiting, Done, ConnectedIsTrue, ConnectingIsWorkedOn,
      AuthorizingCanComplete, Connecting, sessionVars
<1>16. CASE AccountRefreshed
  BY <1>16
  DEF AccountRefreshed, Waiting, Done, ConnectedIsTrue, ConnectingIsWorkedOn,
      AuthorizingCanComplete, Connecting, sessionVars
<1>17. CASE FinishSelectBackend
  BY <1>17
  DEF FinishSelectBackend, Done, ConnectedIsTrue, ConnectingIsWorkedOn,
      AuthorizingCanComplete, Connecting, sessionVars
<1>18. CASE FinishDisconnect
  BY <1>18
  DEF FinishDisconnect, Tell, Done, ConnectedIsTrue, ConnectingIsWorkedOn,
      AuthorizingCanComplete, Connecting
<1>19. CASE FinishClearSelection
  BY <1>19
  DEF FinishClearSelection, Done, ConnectedIsTrue, ConnectingIsWorkedOn,
      AuthorizingCanComplete, Connecting
<1>20. CASE FinishShutdown
  BY <1>20
  DEF FinishShutdown, Waiting, ConnectedIsTrue, ConnectingIsWorkedOn,
      AuthorizingCanComplete, Connecting, sessionVars
<1> QED
  BY <1>1, <1>2, <1>3, <1>4, <1>5, <1>6, <1>7, <1>8, <1>9, <1>10, <1>11,
     <1>12, <1>13, <1>14, <1>15, <1>16, <1>17, <1>18, <1>19, <1>20
  DEF Next, HandleNext, CallSettles, FinishStopping, TaskSettles, Environment,
      AnswerAtOnce, HandledAtOnce, Fetch, WatchLiveGames, StartLiveGame,
      StopLiveGame, ReviewLoads, TaskAnswers, FetchEnds, StreamEmits,
      StreamEnds, Send, BackendMovesOn, CatalogEnds, vars, sessionVars,
      handlerVars

\* Nothing starts after the worker has stopped.
LEMMA SilenceStays ==
  ASSUME HandlerInv, SilentAfterStop, [Next]_vars
  PROVE  SilentAfterStop'
<1>1. CASE UNCHANGED <<doing, stage, tasks, live, catalog>>
  BY <1>1
  DEF SilentAfterStop
<1>2. CASE StartConnect
  BY <1>2
  DEF StartConnect, WaitsAs, SilentAfterStop
<1>3. CASE StartCompleteOAuth
  BY <1>3
  DEF StartCompleteOAuth, Taking, HandledAtOnce, SilentAfterStop, handlerVars
<1>4. CASE StartSelectBackend
  BY <1>4
  DEF StartSelectBackend, WaitsAs, SilentAfterStop
<1>5. CASE StartTeardown
  BY <1>5
  DEF StartTeardown, WaitsAs, SilentAfterStop
<1>6. CASE Ask
  BY <1>6
  DEF Ask, Taking, CallBackend, HandledAtOnce, WaitsAs, SilentAfterStop,
      handlerVars
<1>7. CASE PlayMove
  BY <1>7
  DEF PlayMove, Taking, CallBackend, HandledAtOnce, WaitsAs, SilentAfterStop,
      handlerVars
<1>8. CASE Fetch
  BY <1>8
  DEF Fetch, Taking, HandledAtOnce, SilentAfterStop, handlerVars
<1>9. CASE WatchLiveGames
  BY <1>9
  DEF WatchLiveGames, Taking, HandledAtOnce, SilentAfterStop, handlerVars
<1>10. CASE StartLiveGame
  BY <1>10
  DEF StartLiveGame, Taking, HandledAtOnce, SilentAfterStop, handlerVars
<1>11. CASE StopLiveGame
  BY <1>11
  DEF StopLiveGame, Taking, HandledAtOnce, SilentAfterStop, handlerVars
<1>12. CASE ConnectSucceeds
  BY <1>12
  DEF ConnectSucceeds, Done, SilentAfterStop
<1>13. CASE ConnectFails
  BY <1>13
  DEF ConnectFails, Done, SilentAfterStop
<1>14. CASE SelectSwitches
  BY <1>14
  DEF SelectSwitches, SilentAfterStop
<1>15. CASE SelectFails
  BY <1>15
  DEF SelectFails, Done, SilentAfterStop
<1>16. CASE CallReturns
  BY <1>16
  DEF CallReturns, Done, SilentAfterStop
<1>17. CASE AccountRefreshed
  BY <1>17
  DEF AccountRefreshed, Done, SilentAfterStop
<1>18. CASE FinishSelectBackend
  BY <1>18
  DEF FinishSelectBackend, Done, SilentAfterStop
<1>19. CASE FinishDisconnect
  BY <1>19
  DEF FinishDisconnect, Done, SilentAfterStop
<1>20. CASE FinishClearSelection
  BY <1>20
  DEF FinishClearSelection, Done, SilentAfterStop
<1>21. CASE FinishShutdown
  BY <1>21
  DEF FinishShutdown, Waiting, StopStreams, HandlerInv, SilentAfterStop
<1>22. ASSUME NEW t \in tasks, ReviewLoads(t)
       PROVE  SilentAfterStop'
  BY <1>22
  DEF ReviewLoads, TaskAnswers, SilentAfterStop, handlerVars
<1>23. ASSUME NEW t \in tasks, FetchEnds(t)
       PROVE  SilentAfterStop'
  BY <1>23
  DEF FetchEnds, TaskAnswers, SilentAfterStop, handlerVars
<1>24. ASSUME NEW t \in live, StreamEmits(t)
       PROVE  SilentAfterStop'
  BY <1>24
  DEF StreamEmits, SilentAfterStop, handlerVars
<1>25. ASSUME NEW t \in live, StreamEnds(t)
       PROVE  SilentAfterStop'
  BY <1>25
  DEF StreamEnds, SilentAfterStop, handlerVars
<1>26. CASE CatalogEnds
  BY <1>26
  DEF CatalogEnds, SilentAfterStop, handlerVars
<1> QED
  BY <1>1, <1>2, <1>3, <1>4, <1>5, <1>6, <1>7, <1>8, <1>9, <1>10, <1>11,
     <1>12, <1>13, <1>14, <1>15, <1>16, <1>17, <1>18, <1>19, <1>20, <1>21,
     <1>22, <1>23, <1>24, <1>25, <1>26
  DEF Next, HandleNext, CallSettles, FinishStopping, TaskSettles, Environment,
      BeginOAuthSucceeds, HandledAtOnce, BeginOAuthFails, HandleCancelOAuth,
      AnswerAtOnce, Send, BackendMovesOn, vars, handlerVars, streamVars

-----------------------------------------------------------------------------
(***************************************************************************)
(* The invariant holds, and with it what it was made for.                  *)
(***************************************************************************)

LEMMA InvariantStarts == Init => IInv
<1> SUFFICES ASSUME Init PROVE IInv
  OBVIOUS
<1>1. inbox \in Seq(Command)
  BY DEF Init
<1>2. TypeOK
  BY <1>1, WorkerAssumption
  DEF Init, SessionInit, TypeOK, SessionTypeOK, Stage
<1> QED
  BY <1>2
  DEF Init, SessionInit, IInv, HandlerInv, TasksUseTheBackend, BackendIsRecent,
      NothingOutlivesTeardown, ConnectedIsTrue, ConnectingIsWorkedOn, Connecting,
      AuthorizingCanComplete, SilentAfterStop, OneStream, StreamsAreAhead,
      ShownExists

\* Every reachable state of the worker satisfies the inductive invariant: the
\* command loop of lib.rs, whatever the frontend sends and the providers answer.
THEOREM Invariant == Spec => []IInv
<1>1. IInv /\ [Next]_vars => IInv'
  BY TypesStay, HandlersAgree, TasksAgree, StreamsAreRecent, EventsAgree,
     SilenceStays, StreamsStayAhead
  DEF IInv
<1> QED BY InvariantStarts, <1>1, PTL DEF Spec

\* The queue, the tasks, the streams and the caches stay well typed.
THEOREM TypeCorrect == Spec => []TypeOK
<1>1. IInv => TypeOK
  BY DEF IInv
<1> QED BY Invariant, <1>1, PTL

\* When the events say "connected", the account they name is that of the
\* backend the worker holds.
THEOREM ConnectedIsNeverALie == Spec => []ConnectedIsTrue
<1>1. IInv => ConnectedIsTrue
  BY DEF IInv
<1> QED BY Invariant, <1>1, PTL

\* The events say "connecting" exactly while connect or complete_oauth waits.
THEOREM ConnectingIsNeverStuck == Spec => []ConnectingIsWorkedOn
<1>1. IInv => ConnectingIsWorkedOn
  BY DEF IInv
<1> QED BY Invariant, <1>1, PTL

\* "authorizing" is never left standing without the session it speaks of.
THEOREM SignInsCanComplete == Spec => []AuthorizingCanComplete
<1>1. IInv => AuthorizingCanComplete
  BY DEF IInv
<1> QED BY Invariant, <1>1, PTL

\* Exports, history pages and reviews run on the connected backend.
THEOREM TasksFollowTheBackend == Spec => []TasksUseTheBackend
<1>1. IInv => TasksUseTheBackend
  BY DEF IInv
<1> QED BY Invariant, <1>1, PTL

\* Streams and caches never hold a backend from before the last teardown.
THEOREM TeardownIsComplete == Spec => []NothingOutlivesTeardown
<1>1. IInv => NothingOutlivesTeardown
  BY DEF IInv
<1> QED BY Invariant, <1>1, PTL

\* After the worker has stopped no task is left that could call back.
THEOREM DestroyedIsSilent == Spec => []SilentAfterStop
<1>1. IInv => SilentAfterStop
  BY DEF IInv
<1> QED BY Invariant, <1>1, PTL

-----------------------------------------------------------------------------
(***************************************************************************)
(* What a step may do to the cache and to the tasks.                       *)
(***************************************************************************)

\* The cached snapshot of a game on one backend is only replaced by a newer one
\* or by itself: only the stream of the game writes it.
THEOREM CacheMovesForward == Spec => SnapshotsNeverGoBack
<1> DEFINE Forward(g) ==
      latest[g] # None /\ latest'[g] # None /\ latest'[g].on = latest[g].on
        => latest'[g].version >= latest[g].version
<1>1. ASSUME IInv, [Next]_vars, NEW g \in Game
      PROVE  Forward(g)
  <2>1. latest \in [Game -> Snapshot \cup {None}]
    BY <1>1 DEF IInv, TypeOK
  <2>2. CASE UNCHANGED latest
    BY <2>1, <2>2 DEF Snapshot
  <2>3. CASE StopLiveGame
    BY <2>1, <2>3 DEF StopLiveGame, Snapshot
  <2>4. CASE ClearCaches
    BY <2>4 DEF ClearCaches
  <2>5. ASSUME NEW t \in live, StreamEmits(t)
        PROVE  Forward(g)
    <3>1. PICK v \in (t.seen + 1)..version[t.on][t.game] :
            latest' = [latest EXCEPT ![t.game] = [on |-> t.on, version |-> v]]
      BY <2>5 DEF StreamEmits
    <3>2. CASE g # t.game
      BY <2>1, <3>1, <3>2 DEF Snapshot
    <3>3. CASE g = t.game
      <4>1. latest'[g] = [on |-> t.on, version |-> v]
        BY <2>1, <3>1, <3>3
      <4>2. latest[g] # None /\ latest[g].on = t.on
              => latest[g].version \in Int /\ latest[g].version <= t.seen + 1
        BY <1>1, <2>1, <3>3 DEF IInv, StreamsAreAhead, Snapshot
      <4>3. t.seen \in Int
        BY <1>1, <2>5 DEF IInv, TypeOK, LiveTask
      <4> QED BY <3>1, <4>1, <4>2, <4>3
    <3> QED BY <3>2, <3>3
  <2> QED
    BY <1>1, <2>2, <2>3, <2>4, <2>5
    DEF Next, HandleNext, CallSettles, FinishStopping, TaskSettles, Environment,
        BeginOAuthSucceeds, BeginOAuthFails, HandleCancelOAuth, StartConnect,
        StartCompleteOAuth, StartSelectBackend, StartTeardown, AnswerAtOnce, Ask,
        PlayMove, Fetch, WatchLiveGames, StartLiveGame, ConnectSucceeds,
        ConnectFails, SelectSwitches, SelectFails, CallReturns, AccountRefreshed,
        FinishSelectBackend, FinishDisconnect, FinishClearSelection,
        FinishShutdown, ReviewLoads, FetchEnds, TaskAnswers, Send, StreamEnds,
        CatalogEnds, BackendMovesOn, vars, cacheVars
<1>2. IInv /\ [Next]_vars => [\A g \in Game : Forward(g)]_vars
  BY <1>1
<1>3. Spec => [][\A g \in Game : Forward(g)]_vars
  BY Invariant, <1>2, PTL DEF Spec
<1> QED BY <1>3 DEF SnapshotsNeverGoBack

\* A request is given up only for a command that ends or replaces the session.
THEOREM OnlyTheSessionAborts == Spec => AnswersAreNotLost
<1> DEFINE Kept ==
      tasks \ tasks' # {} /\ inbox' # inbox
        => Head(inbox).kind \in {"connect", "complete_oauth", "select_backend",
                                 "disconnect", "clear_backend_selection",
                                 "shutdown"}
<1>1. [Next]_vars => Kept
  <2> SUFFICES ASSUME [Next]_vars PROVE Kept
    OBVIOUS
  <2>1. CASE tasks \subseteq tasks' \/ UNCHANGED inbox
    BY <2>1
  <2>2. CASE StartConnect \/ StartCompleteOAuth \/ StartSelectBackend
    BY <2>2 DEF StartConnect, StartCompleteOAuth, StartSelectBackend, Taking
  <2>3. CASE StartTeardown
    BY <2>3 DEF StartTeardown, Taking
  <2> QED
    BY <2>1, <2>2, <2>3
    DEF Next, HandleNext, CallSettles, FinishStopping, TaskSettles, Environment,
        BeginOAuthSucceeds, BeginOAuthFails, HandleCancelOAuth, AnswerAtOnce, Ask,
        PlayMove, Fetch, WatchLiveGames, StartLiveGame, StopLiveGame,
        ConnectSucceeds, ConnectFails, SelectSwitches, SelectFails, CallReturns,
        AccountRefreshed, FinishSelectBackend, FinishDisconnect,
        FinishClearSelection, FinishShutdown, ReviewLoads, FetchEnds, TaskAnswers,
        Send, StreamEmits, StreamEnds, CatalogEnds, BackendMovesOn, vars, Done
<1>2. [Next]_vars => [Kept]_vars
  BY <1>1
<1>3. Spec => [][Kept]_vars
  BY <1>2, PTL DEF Spec
<1> QED BY <1>3 DEF AnswersAreNotLost

-----------------------------------------------------------------------------
(***************************************************************************)
(* Where moves go.  A local backend is made by select_backend alone, which  *)
(* tears down whatever came before; so while it is connected no other has   *)
(* been since the last teardown.  A connection over a standing session can  *)
(* only be to a backend that signs in.                                     *)
(***************************************************************************)

LocalIsAlone ==
  backend # None /\ backend.provider \in Local
      /\ ~Waiting("select_backend", "stopping")
    => since \subseteq {backend}

\* A move waits only for a game whose snapshot is cached.
MovesAreShown ==
  stage = "calling" /\ doing.kind = "play_move"
    => doing.game \in Game /\ latest[doing.game] # None

LEMMA LocalIsAloneStays ==
  ASSUME HandlerInv, LocalIsAlone, [Next]_vars
  PROVE  LocalIsAlone'
<1>1. CASE UNCHANGED <<backend, since>> /\ ~Waiting("select_backend",
                       "stopping")
  BY <1>1 DEF LocalIsAlone
<1>2. CASE UNCHANGED <<backend, since, doing, stage>>
  BY <1>2 DEF LocalIsAlone, Waiting
<1>3. CASE ConnectSucceeds
  <2>1. PICK c \in Fresh(doing.provider) : Connected(c)
    BY <1>3 DEF ConnectSucceeds
  <2>2. backend'.provider \notin Local
    BY <1>3, <2>1 DEF ConnectSucceeds, Fresh, Connected
  <2> QED BY <2>2 DEF LocalIsAlone
<1>4. CASE SelectSwitches
  BY <1>4 DEF SelectSwitches, Waiting, LocalIsAlone
<1>5. CASE FinishSelectBackend
  BY <1>5 DEF FinishSelectBackend, sessionVars, LocalIsAlone
<1>6. CASE FinishDisconnect \/ FinishClearSelection
  BY <1>6
  DEF FinishDisconnect, FinishClearSelection, Disconnect, ClearSelection,
      LocalIsAlone
<1> QED
  BY <1>1, <1>2, <1>3, <1>4, <1>5, <1>6
  DEF Next, HandleNext, CallSettles, FinishStopping, TaskSettles, Environment,
      BeginOAuthSucceeds, BeginOAuthFails, HandleCancelOAuth, StartConnect,
      StartCompleteOAuth, StartSelectBackend, StartTeardown, AnswerAtOnce, Ask,
      PlayMove, Fetch, WatchLiveGames, StartLiveGame, StopLiveGame, Taking,
      ConnectFails, SelectFails, CallReturns, AccountRefreshed, FinishShutdown,
      ReviewLoads, FetchEnds, TaskAnswers, Send, StreamEmits, StreamEnds,
      CatalogEnds, BackendMovesOn, BeginOAuth, CancelOAuth, SelectForConnect,
      TakeOAuth, Connecting, Waiting, vars, sessionVars, handlerVars

LEMMA MovesAreShownStays ==
  ASSUME TypeOK, HandlerInv, MovesAreShown, [Next]_vars
  PROVE  MovesAreShown'
<1>1. CASE UNCHANGED <<latest, doing, stage>>
  BY <1>1 DEF MovesAreShown
<1>2. CASE stage' # "calling"
  BY <1>2 DEF MovesAreShown
<1>3. CASE stage' = "calling" /\ doing'.kind # "play_move"
  BY <1>3 DEF MovesAreShown
<1>4. CASE PlayMove
  <2>1. Head(inbox).game \in Game
    BY <1>4, HeadIsCommand, ArgumentsArePresent DEF PlayMove, Taking, GameKind
  <2> QED
    BY <1>4, <2>1
    DEF PlayMove, Taking, CallBackend, HandledAtOnce, WaitsAs, handlerVars,
        cacheVars, MovesAreShown
<1>5. ASSUME NEW t \in live, StreamEmits(t)
      PROVE  MovesAreShown'
  <2>1. PICK v \in (t.seen + 1)..version[t.on][t.game] :
          latest' = [latest EXCEPT ![t.game] = [on |-> t.on, version |-> v]]
    BY <1>5 DEF StreamEmits
  <2>2. [on |-> t.on, version |-> v] # None
    <3>1. t.on \in Connection /\ t.game \in Game
      BY DEF TypeOK, LiveTask
    <3>2. version[t.on][t.game] \in 0..MaxVersion /\ t.seen \in -1..MaxVersion
      BY <3>1 DEF TypeOK, LiveTask
    <3> QED BY <2>1, <3>1, <3>2, NoneIsNoSnapshot, WorkerAssumption DEF Snapshot
  <2> QED
    BY <1>5, <2>1, <2>2 DEF StreamEmits, handlerVars, MovesAreShown, TypeOK
<1>6. CASE stage = "idle" /\ HandledAtOnce
  BY <1>6, <1>2 DEF HandledAtOnce, handlerVars
<1> QED
  BY <1>1, <1>2, <1>3, <1>4, <1>5, <1>6, CompleteOAuthWaits
  DEF Next, HandleNext, CallSettles, FinishStopping, TaskSettles, Environment,
      BeginOAuthSucceeds, BeginOAuthFails, HandleCancelOAuth, StartConnect,
      StartCompleteOAuth, StartSelectBackend, StartTeardown, AnswerAtOnce, Ask,
      Fetch, WatchLiveGames, StartLiveGame, StopLiveGame, CallBackend, WaitsAs,
      Taking, Done, ConnectSucceeds, ConnectFails, SelectSwitches, SelectFails,
      CallReturns, AccountRefreshed, FinishSelectBackend, FinishDisconnect,
      FinishClearSelection, FinishShutdown, ReviewLoads, FetchEnds, TaskAnswers,
      Send, StreamEnds, CatalogEnds, BackendMovesOn, vars, handlerVars, cacheVars

\* Whatever the frontend sends and in whatever order, a move goes to the backend
\* whose snapshot it was predicted on, unless the backend signs in and was
\* connected over a session that still stood.
THEOREM MovesGoWherePredicted == Spec => []PlayedWherePredicted
<1>1. Init => LocalIsAlone /\ MovesAreShown
  BY DEF Init, SessionInit, LocalIsAlone, MovesAreShown
<1>2. IInv /\ LocalIsAlone /\ MovesAreShown /\ [Next]_vars
        => (LocalIsAlone /\ MovesAreShown)'
  BY LocalIsAloneStays, MovesAreShownStays DEF IInv
<1>3. IInv /\ LocalIsAlone /\ MovesAreShown => PlayedWherePredicted
  <2> SUFFICES ASSUME IInv, LocalIsAlone, MovesAreShown,
                      stage = "calling", doing.kind = "play_move"
               PROVE  /\ latest[doing.game] # None
                      /\ \/ latest[doing.game].on = backend
                         \/ ConnectedOver(latest[doing.game].on)
    BY DEF PlayedWherePredicted
  <2> DEFINE on == latest[doing.game].on
  <2>1. latest[doing.game] # None /\ on \in since
    BY DEF IInv, MovesAreShown, NothingOutlivesTeardown
  <2>2. backend # None /\ backend \in since
    BY DEF IInv, HandlerInv, BackendCall, BackendIsRecent
  <2>3. CASE on # backend
    <3>1. backend.provider \notin Local
      BY <2>1, <2>2, <2>3 DEF LocalIsAlone, Waiting
    <3> QED BY <2>1, <2>2, <2>3, <3>1 DEF ConnectedOver
  <2> QED BY <2>1, <2>3
<1> QED BY Invariant, <1>1, <1>2, <1>3, PTL DEF Spec

=============================================================================
