------------------------------- MODULE Worker -------------------------------
(***************************************************************************)
(* The worker of libchess-ffi: one thread that takes commands from an       *)
(* unbounded queue, one at a time, and runs them on the session, while the  *)
(* tasks it has spawned take turns with it on the same thread whenever it   *)
(* waits for a provider.  Everything between two awaits is one step.        *)
(*                                                                         *)
(* Stopping a task is abort() and an await, on the thread the task runs on: *)
(* from the abort on it never runs again.  What the other tasks do during   *)
(* that await they could have done just before it or just after, so a       *)
(* handler that stops one task is one step, and one that stops the          *)
(* independent tasks, then the streams, is two.                             *)
(***************************************************************************)
EXTENDS Session, Sequences, Integers, FiniteSets

CONSTANTS
  Game,           \* game identifiers
  Request,        \* request identifiers of the frontend
  Kinds,          \* the kinds of commands this frontend sends
  MaxInbox,       \* bound on the queue
  MaxVersion      \* bound on the snapshots of one game

ASSUME WorkerAssumption ==
  /\ None \notin Game
  /\ MaxInbox \in Nat
  /\ MaxVersion \in Nat

ProviderKind == {"begin_oauth", "connect", "select_backend"}
GameKind == {"start_live_game", "stop_live_game", "play_move", "load_game_review"}
\* "ask" is a command that waits for the backend and changes nothing here
\* (create_bot_game, perform_game_action, refresh_live_games), "fetch" one that
\* runs as a task of its own (export_game, refresh_game_history), and "list" one
\* that is answered from memory.
PlainKind == {"cancel_oauth", "complete_oauth", "clear_backend_selection",
              "disconnect", "watch_live_games", "refresh_account", "ask",
              "fetch", "list", "shutdown"}

Envelope == [kind: ProviderKind \cup GameKind \cup PlainKind, request: Request,
             provider: Provider \cup {None}, game: Game \cup {None}]

ASSUME NoneIsNoCommand == None \notin Envelope

\* What a frontend can send: each kind of command with its own arguments.
Command ==
  { c \in Envelope : /\ c.provider # None <=> c.kind \in ProviderKind
                     /\ c.game # None <=> c.kind \in GameKind }

VARIABLES
  inbox,          \* the command queue
  doing,          \* the command whose handler waits, None if there is none
  stage,          \* what it waits for: see Stage
  tasks,          \* independent_tasks that have not finished
  live,           \* the live-game tasks that have not finished
  catalog,        \* the backend that catalog_task watches, if it has not finished
  latest,         \* latest_games: the snapshot last emitted of each game
  reviews,        \* game_reviews: the backend each review came from
  version,        \* per backend and game, its newest snapshot
  told,           \* what the events so far say about the connection
  since           \* the backends connected since the streams were last stopped

handlerVars == <<doing, stage>>
streamVars == <<live, catalog>>
cacheVars == <<latest, reviews>>
vars == <<sessionVars, inbox, handlerVars, tasks, streamVars, cacheVars,
          version, told, since>>

\* "calling" a provider or its backend, "stopping" the streams, or gone.
Stage == {"idle", "calling", "stopping", "stopped"}

\* A review of a game, or with no game an export or a history page.
Task == [request: Request, game: Game \cup {None}, on: Connection]

\* A live task has emitted nothing newer than `seen`.
LiveTask == [game: Game, on: Connection, seen: -1..MaxVersion]

Snapshot == [on: Connection, version: 0..MaxVersion]

ASSUME NoneIsNoSnapshot == None \notin Snapshot

TypeOK ==
  /\ SessionTypeOK
  /\ inbox \in Seq(Command)
  /\ doing \in Envelope \cup {None}
  /\ stage \in Stage
  /\ tasks \subseteq Task
  /\ live \subseteq LiveTask
  /\ catalog \in Connection \cup {None}
  /\ latest \in [Game -> Snapshot \cup {None}]
  /\ reviews \in [Game -> Connection \cup {None}]
  /\ version \in [Connection -> [Game -> 0..MaxVersion]]
  /\ told \in [selected: Provider \cup {None},
               state: {"disconnected", "authorizing", "connecting", "connected"},
               account: Connection \cup {None}]
  /\ since \subseteq Connection

Init ==
  /\ SessionInit
  /\ inbox = <<>>
  /\ doing = None
  /\ stage = "idle"
  /\ tasks = {}
  /\ live = {}
  /\ catalog = None
  /\ latest = [g \in Game |-> None]
  /\ reviews = [g \in Game |-> None]
  /\ version = [c \in Connection |-> [g \in Game |-> 0]]
  /\ told = [selected |-> None, state |-> "disconnected", account |-> None]
  /\ since = {}

-----------------------------------------------------------------------------
(***************************************************************************)
(* The frontend's side of the queue.                                       *)
(***************************************************************************)

Queued == {inbox[i] : i \in 1..Len(inbox)}

\* The request has been sent and neither answered nor given up.
Pending(r) ==
  \/ \E c \in Queued : c.request = r
  \/ doing # None /\ doing.request = r
  \/ \E t \in tasks : t.request = r

ShutdownSent ==
  \/ stage = "stopped"
  \/ doing # None /\ doing.kind = "shutdown"
  \/ \E c \in Queued : c.kind = "shutdown"

\* libchess_client_send; "shutdown" is libchess_client_destroy, after which the
\* handle is gone.
Send(c) ==
  /\ c.kind \in Kinds
  /\ ~ShutdownSent
  /\ Len(inbox) < MaxInbox
  /\ ~Pending(c.request)
  /\ inbox' = Append(inbox, c)
  /\ UNCHANGED <<sessionVars, handlerVars, tasks, streamVars, cacheVars,
                 version, told, since>>

-----------------------------------------------------------------------------
(***************************************************************************)
(* How a handler begins and ends.                                          *)
(***************************************************************************)

\* The next command is of this kind, and the worker is free to take it.
Taking(kind) ==
  /\ stage = "idle"
  /\ inbox # <<>>
  /\ Head(inbox).kind = kind

\* The whole handler runs in this step.
HandledAtOnce ==
  /\ inbox' = Tail(inbox)
  /\ UNCHANGED handlerVars

\* The handler goes on to wait.
WaitsAs(next) ==
  /\ inbox' = Tail(inbox)
  /\ doing' = Head(inbox)
  /\ stage' = next

\* The handler that was waiting has a command of this kind.
Waiting(kind, at) == stage = at /\ doing.kind = kind

Done ==
  /\ doing' = None
  /\ stage' = "idle"
  /\ UNCHANGED inbox

\* connection_state_changed, alone or after the events that precede it.
Tell(state) == told' = [told EXCEPT !.state = state]

TellConnected(c) == told' = [told EXCEPT !.state = "connected", !.account = c]

StopIndependentTasks == tasks' = {}

\* Mutant: the catalog is forgotten.
StopLiveOnly == live' = {} /\ UNCHANGED catalog

StopStreams == live' = {} /\ catalog' = None

\* Mutants: one of the two caches is forgotten.
ClearLatestOnly == latest' = [g \in Game |-> None] /\ UNCHANGED reviews
ClearReviewsOnly == reviews' = [g \in Game |-> None] /\ UNCHANGED latest

ClearCaches ==
  /\ latest' = [g \in Game |-> None]
  /\ reviews' = [g \in Game |-> None]

\* A backend that is not one of those the current streams and caches may
\* still come from.
Fresh(p) == {c \in Connection : c.provider = p /\ c \notin since}

-----------------------------------------------------------------------------
(***************************************************************************)
(* Commands of the session.                                                *)
(***************************************************************************)

\* Mutant of BeginOAuthSucceeds: the factory trait does not refuse by default,
\* so a local provider opens a sign-in too.
BeginOAuthAnywhere ==
  /\ Taking("begin_oauth")
  /\ BeginOAuth(Head(inbox).provider)
  /\ HandledAtOnce
  /\ Tell("authorizing")
  /\ UNCHANGED <<tasks, streamVars, cacheVars, version, since>>

\* begin_oauth: a factory that signs in with OAuth opens a request; a local one
\* refuses.
BeginOAuthSucceeds ==
  /\ Taking("begin_oauth")
  /\ Head(inbox).provider \notin Local
  /\ BeginOAuth(Head(inbox).provider)
  /\ HandledAtOnce
  /\ Tell("authorizing")
  /\ UNCHANGED <<tasks, streamVars, cacheVars, version, since>>

BeginOAuthFails ==
  /\ Taking("begin_oauth")
  /\ HandledAtOnce
  /\ Tell("disconnected")
  /\ UNCHANGED <<sessionVars, tasks, streamVars, cacheVars, version, since>>

HandleCancelOAuth ==
  /\ Taking("cancel_oauth")
  /\ CancelOAuth
  /\ HandledAtOnce
  /\ Tell("disconnected")
  /\ UNCHANGED <<tasks, streamVars, cacheVars, version, since>>

\* Mutant: the tasks of the old backend go on.
StartConnectOnly ==
  /\ Taking("connect")
  /\ SelectForConnect(Head(inbox).provider)
  /\ WaitsAs("calling")
  /\ Tell("connecting")
  /\ UNCHANGED <<tasks, streamVars, cacheVars, version, since>>

StartConnect ==
  /\ Taking("connect")
  /\ StopIndependentTasks
  /\ SelectForConnect(Head(inbox).provider)
  /\ WaitsAs("calling")
  /\ Tell("connecting")
  /\ UNCHANGED <<streamVars, cacheVars, version, since>>

\* complete_oauth takes the pending session before it can fail.
StartCompleteOAuth ==
  /\ Taking("complete_oauth")
  /\ StopIndependentTasks
  /\ TakeOAuth
  /\ IF pending = None
     THEN HandledAtOnce /\ Tell("disconnected")
     ELSE /\ inbox' = Tail(inbox)
          /\ doing' = [Head(inbox) EXCEPT !.provider = pending]
          /\ stage' = "calling"
          /\ Tell("connecting")
  /\ UNCHANGED <<streamVars, cacheVars, version, since>>

Connecting == stage = "calling" /\ doing.kind \in {"connect", "complete_oauth"}

\* The account of the new backend has answered.
ConnectSucceeds ==
  /\ Connecting
  /\ doing.provider \notin Local
  /\ \E c \in Fresh(doing.provider) :
       /\ Connected(c)
       /\ TellConnected(c)
       /\ since' = since \cup {c}
  /\ Done
  /\ UNCHANGED <<tasks, streamVars, cacheVars, version>>

\* Mutant: an error, but no new state.
ConnectFailsSilently ==
  /\ Connecting
  /\ Done
  /\ UNCHANGED <<sessionVars, tasks, streamVars, cacheVars, version, told, since>>

\* It has not, or the token, the code or the provider was refused.
ConnectFails ==
  /\ Connecting
  /\ Tell("disconnected")
  /\ Done
  /\ UNCHANGED <<sessionVars, tasks, streamVars, cacheVars, version, since>>

StartSelectBackend ==
  /\ Taking("select_backend")
  /\ StopIndependentTasks
  /\ WaitsAs("calling")
  /\ UNCHANGED <<sessionVars, streamVars, cacheVars, version, told, since>>

\* select_backend of the client returns; nothing has been stopped or told yet.
SelectSwitches ==
  /\ Waiting("select_backend", "calling")
  /\ IF doing.provider \in Local
     THEN \E c \in Fresh(doing.provider) :
            Select(doing.provider, c) /\ since' = since \cup {c}
     ELSE Select(doing.provider, None) /\ UNCHANGED since
  /\ stage' = "stopping"
  /\ UNCHANGED <<doing, inbox, tasks, streamVars, cacheVars, version, told>>

\* Mutant: the client disconnects before it knows that it can select.
SelectFailsDisconnected ==
  /\ Waiting("select_backend", "calling")
  /\ Done
  /\ Disconnect
  /\ UNCHANGED <<tasks, streamVars, cacheVars, version, told, since>>

SelectFails ==
  /\ Waiting("select_backend", "calling")
  /\ Done
  /\ UNCHANGED <<sessionVars, tasks, streamVars, cacheVars, version, told, since>>

FinishSelectBackend ==
  /\ Waiting("select_backend", "stopping")
  /\ StopStreams
  /\ ClearCaches
  /\ told' = [selected |-> selected,
              state |-> IF backend = None THEN "disconnected" ELSE "connected",
              account |-> IF backend = None THEN told.account ELSE backend]
  /\ since' = {backend} \ {None}
  /\ Done
  /\ UNCHANGED <<sessionVars, tasks, version>>

StartTeardown ==
  /\ \E kind \in {"disconnect", "clear_backend_selection", "shutdown"} : Taking(kind)
  /\ StopIndependentTasks
  /\ WaitsAs("stopping")
  /\ UNCHANGED <<sessionVars, streamVars, cacheVars, version, told, since>>

FinishDisconnect ==
  /\ Waiting("disconnect", "stopping")
  /\ StopStreams
  /\ ClearCaches
  /\ Disconnect
  /\ Tell("disconnected")
  /\ since' = {}
  /\ Done
  /\ UNCHANGED <<tasks, version>>

FinishClearSelection ==
  /\ Waiting("clear_backend_selection", "stopping")
  /\ StopStreams
  /\ ClearCaches
  /\ ClearSelection
  /\ told' = [told EXCEPT !.selected = None, !.state = "disconnected"]
  /\ since' = {}
  /\ Done
  /\ UNCHANGED <<tasks, version>>

\* Mutant: the worker waits for its streams instead of aborting them.
FinishShutdownWhenQuiet ==
  /\ Waiting("shutdown", "stopping")
  /\ live = {} /\ catalog = None
  /\ doing' = None
  /\ stage' = "stopped"
  /\ UNCHANGED <<sessionVars, inbox, tasks, streamVars, cacheVars, version, told, since>>

\* The loop is left, and the thread that libchess_client_destroy joins ends.
FinishShutdown ==
  /\ Waiting("shutdown", "stopping")
  /\ StopStreams
  /\ doing' = None
  /\ stage' = "stopped"
  /\ UNCHANGED <<sessionVars, inbox, tasks, cacheVars, version, told, since>>

-----------------------------------------------------------------------------
(***************************************************************************)
(* Commands about games.                                                   *)
(***************************************************************************)

\* The lists, the board themes and show_game_review_position; also any command
\* whose arguments are refused before it reaches a backend.
AnswerAtOnce ==
  /\ \E kind \in {"list", "ask", "fetch", "play_move", "load_game_review"} :
       Taking(kind)
  /\ HandledAtOnce
  /\ UNCHANGED <<sessionVars, tasks, streamVars, cacheVars, version, told, since>>

\* Without a backend the answer is an error at once.
CallBackend == IF backend = None THEN HandledAtOnce ELSE WaitsAs("calling")

Ask ==
  /\ \E kind \in {"ask", "refresh_account"} : Taking(kind)
  /\ CallBackend
  /\ UNCHANGED <<sessionVars, tasks, streamVars, cacheVars, version, told, since>>

\* A move is predicted on the latest snapshot of its game, then submitted.
PlayMove ==
  /\ Taking("play_move")
  /\ latest[Head(inbox).game] # None
  /\ CallBackend
  /\ UNCHANGED <<sessionVars, tasks, streamVars, cacheVars, version, told, since>>

\* Mutant: a move is acknowledged once its snapshot has been shown.
CallReturnsWhenShown ==
  /\ \E kind \in {"ask", "refresh_account", "play_move"} :
       /\ Waiting(kind, "calling")
       /\ kind = "play_move"
            => latest[doing.game].version = version[backend][doing.game]
  /\ Done
  /\ UNCHANGED <<sessionVars, tasks, streamVars, cacheVars, version, told, since>>

\* The backend answers or fails; what the call did to its games is for
\* BackendMovesOn.
CallReturns ==
  /\ \E kind \in {"ask", "refresh_account", "play_move"} : Waiting(kind, "calling")
  /\ Done
  /\ UNCHANGED <<sessionVars, tasks, streamVars, cacheVars, version, told, since>>

AccountRefreshed ==
  /\ Waiting("refresh_account", "calling")
  /\ told' = [told EXCEPT !.account = backend]
  /\ Done
  /\ UNCHANGED <<sessionVars, tasks, streamVars, cacheVars, version, since>>

\* export_game, refresh_game_history and load_game_review.
Fetch ==
  /\ \E kind \in {"fetch", "load_game_review"} : Taking(kind)
  /\ tasks' = tasks \cup
       (IF backend = None THEN {}
        ELSE {[request |-> Head(inbox).request, game |-> Head(inbox).game, on |-> backend]})
  /\ HandledAtOnce
  /\ UNCHANGED <<sessionVars, streamVars, cacheVars, version, told, since>>

WatchLiveGames ==
  /\ Taking("watch_live_games")
  /\ catalog' = backend
  /\ HandledAtOnce
  /\ UNCHANGED <<sessionVars, tasks, live, cacheVars, version, told, since>>

\* Mutant: the handle of the old stream is dropped, which does not abort it.
AllStreams(g) == live

OtherStreams(g) == {t \in live : t.game # g}

\* Mutant: opening a game aborts what else is under way.
StartLiveGameAlone ==
  /\ Taking("start_live_game")
  /\ live' = OtherStreams(Head(inbox).game) \cup
       (IF backend = None THEN {}
        ELSE {[game |-> Head(inbox).game, on |-> backend,
               seen |-> version[backend][Head(inbox).game] - 1]})
  /\ StopIndependentTasks
  /\ HandledAtOnce
  /\ UNCHANGED <<sessionVars, catalog, cacheVars, version, told, since>>

\* The new stream begins with the snapshot that is current when it first runs.
StartLiveGame ==
  /\ Taking("start_live_game")
  /\ LET g == Head(inbox).game IN
       live' = OtherStreams(g) \cup
                 (IF backend = None THEN {}
                  ELSE {[game |-> g, on |-> backend, seen |-> version[backend][g] - 1]})
  /\ HandledAtOnce
  /\ UNCHANGED <<sessionVars, tasks, catalog, cacheVars, version, told, since>>

\* Nothing is emitted: the request of this command gets no answer.
StopLiveGame ==
  /\ Taking("stop_live_game")
  /\ live' = OtherStreams(Head(inbox).game)
  /\ latest' = [latest EXCEPT ![Head(inbox).game] = None]
  /\ HandledAtOnce
  /\ UNCHANGED <<sessionVars, tasks, catalog, reviews, version, told, since>>

-----------------------------------------------------------------------------
(***************************************************************************)
(* The tasks, and the backends they watch.  Once the worker has stopped     *)
(* its runtime is gone and no task runs.                                   *)
(***************************************************************************)

TaskAnswers(t) ==
  /\ stage # "stopped"
  /\ t \in tasks
  /\ tasks' = tasks \ {t}
  /\ UNCHANGED <<sessionVars, inbox, handlerVars, streamVars, latest, version,
                 told, since>>

\* The review is kept for show_game_review_position.
ReviewLoads(t) ==
  /\ t.game # None
  /\ reviews' = [reviews EXCEPT ![t.game] = t.on]
  /\ TaskAnswers(t)

FetchEnds(t) == TaskAnswers(t) /\ UNCHANGED reviews

\* A stream may skip snapshots, but does not go back.
StreamEmits(t) ==
  /\ stage # "stopped"
  /\ t \in live
  /\ \E v \in (t.seen + 1)..version[t.on][t.game] :
       /\ live' = (live \ {t}) \cup {[t EXCEPT !.seen = v]}
       /\ latest' = [latest EXCEPT ![t.game] = [on |-> t.on, version |-> v]]
  /\ UNCHANGED <<sessionVars, inbox, handlerVars, tasks, catalog, reviews,
                 version, told, since>>

\* With the end of the game or an error; its last snapshot stays.
StreamEnds(t) ==
  /\ stage # "stopped"
  /\ t \in live
  /\ live' = live \ {t}
  /\ UNCHANGED <<sessionVars, inbox, handlerVars, tasks, catalog, cacheVars,
                 version, told, since>>

CatalogEnds ==
  /\ stage # "stopped"
  /\ catalog # None
  /\ catalog' = None
  /\ UNCHANGED <<sessionVars, inbox, handlerVars, tasks, live, cacheVars,
                 version, told, since>>

\* A game changes at its backend: by a call of this worker or without one.
BackendMovesOn(c, g) ==
  /\ c \in since
  /\ version[c][g] < MaxVersion
  /\ version' = [version EXCEPT ![c][g] = @ + 1]
  /\ UNCHANGED <<sessionVars, inbox, handlerVars, tasks, streamVars, cacheVars,
                 told, since>>

-----------------------------------------------------------------------------
HandleNext ==
  \/ BeginOAuthSucceeds \/ BeginOAuthFails \/ HandleCancelOAuth
  \/ StartConnect \/ StartCompleteOAuth \/ StartSelectBackend \/ StartTeardown
  \/ AnswerAtOnce \/ Ask \/ PlayMove \/ Fetch
  \/ WatchLiveGames \/ StartLiveGame \/ StopLiveGame

CallSettles ==
  \/ ConnectSucceeds \/ ConnectFails
  \/ SelectSwitches \/ SelectFails
  \/ CallReturns \/ AccountRefreshed

FinishStopping ==
  \/ FinishSelectBackend \/ FinishDisconnect
  \/ FinishClearSelection \/ FinishShutdown

TaskSettles(r) ==
  \E t \in tasks : t.request = r /\ (ReviewLoads(t) \/ FetchEnds(t))

Environment ==
  \/ \E c \in Command : Send(c)
  \/ \E t \in live : StreamEmits(t) \/ StreamEnds(t)
  \/ CatalogEnds
  \/ \E c \in Connection, g \in Game : BackendMovesOn(c, g)

Next ==
  \/ HandleNext \/ CallSettles \/ FinishStopping
  \/ \E r \in Request : TaskSettles(r)
  \/ Environment

Spec == Init /\ [][Next]_vars

\* The loop goes on as long as there are commands.  Every request to a provider
\* has a time limit (15 or 20 seconds at Lichess, the deadline of a
\* UCI search), so calls and tasks settle.  Neither the frontend nor a stream
\* has to do anything.
FairSpec ==
  /\ Spec
  /\ WF_vars(HandleNext)
  /\ WF_vars(CallSettles)
  /\ WF_vars(FinishStopping)
  /\ \A r \in Request : WF_vars(TaskSettles(r))

-----------------------------------------------------------------------------
(***************************************************************************)
(* What must hold.                                                         *)
(***************************************************************************)

\* When the events say that an account is connected, it is the account of the
\* backend that commands will reach; only between the switch and its own
\* announcement may the two differ (lib.rs, SelectBackend).
ConnectedIsTrue ==
  told.state = "connected" /\ ~Waiting("select_backend", "stopping")
    => backend # None /\ told.account = backend

\* The events say "connecting" exactly while a connection is being made: no
\* failure leaves a frontend with a connection that never comes.
ConnectingIsWorkedOn == told.state = "connecting" <=> Connecting

\* While the events ask for a sign-in, its session is there to be completed,
\* again up to the announcement of a new selection.
AuthorizingCanComplete ==
  told.state = "authorizing" /\ ~Waiting("select_backend", "stopping")
    => pending # None

\* An export, a history page or a review under way runs on the connected
\* backend, never on one that has been replaced since.
TasksUseTheBackend == \A t \in tasks : t.on = backend

\* Once a teardown or a new selection has been announced, no stream, snapshot or
\* review of an earlier backend is left.
NothingOutlivesTeardown ==
  /\ \A t \in live : t.on \in since
  /\ catalog # None => catalog \in since
  /\ \A g \in Game : /\ latest[g] # None => latest[g].on \in since
                     /\ reviews[g] # None => reviews[g] \in since

\* After libchess_client_destroy has returned there is nothing left to call the
\* frontend back.
SilentAfterStop == stage = "stopped" => tasks = {} /\ live = {} /\ catalog = None

\* The snapshot a move is predicted on never goes back in time: a stream that
\* was replaced cannot overwrite what its successor has shown.
SnapshotsNeverGoBack ==
  [][\A g \in Game :
       latest[g] # None /\ latest'[g] # None /\ latest'[g].on = latest[g].on
         => latest'[g].version >= latest[g].version]_vars

\* c is not the connected backend and nothing has torn it down: the connection
\* was made over it, by connect or complete_oauth, which leave the streams and
\* the cache alone.  A local backend is never connected that way.
ConnectedOver(c) == c # backend /\ {c, backend} \subseteq since
                                /\ backend.provider \notin Local

\* A move is submitted to the backend whose snapshot it was predicted on: always
\* to a local one, and to any other unless it was connected over a session that
\* still stood (Command::PlayMove, Command::Connect).
PlayedWherePredicted ==
  stage = "calling" /\ doing.kind = "play_move" =>
    /\ latest[doing.game] # None
    /\ \/ latest[doing.game].on = backend
       \/ ConnectedOver(latest[doing.game].on)

\* An answer is given up only for a command that ends or replaces the session:
\* looking at other games does not abort an export.
AnswersAreNotLost ==
  [][tasks \ tasks' # {} /\ inbox' # inbox
       => Head(inbox).kind \in {"connect", "complete_oauth", "select_backend",
                                "disconnect", "clear_backend_selection",
                                "shutdown"}]_vars

\* Every request is answered or given up.
EveryRequestSettles == \A r \in Request : Pending(r) ~> ~Pending(r)

\* Every connection that is announced succeeds or fails.
ConnectingResolves == told.state = "connecting" ~> told.state # "connecting"

\* libchess_client_destroy returns.
ShutdownCompletes == ShutdownSent ~> stage = "stopped"

\* docs/current_architecture.md:241 says that backend_selection_changed keeps
\* each native frontend synchronized with the selection.
SelectionSynchronized == stage = "idle" => told.selected = selected

=============================================================================
