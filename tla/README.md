# LibChess: TLA+ models, checks and proofs

LibChess is a Rust chess client library with a command worker behind a C
interface, two native frontends, and two backends: Lichess over HTTP and a local
Stockfish process. This directory holds TLA+ models of the parts of it whose
correctness depends on the order of things: what happens when an engine answers
late, when an operation fails half way, when a stream is opened while a move is
being published, when the user disconnects while tasks are still running, when a
takeback, a snapshot and a refused move cross each other on their way.

Run the tools inside this directory:

    tlc -workers 2 -config LocalGame.cfg MCLocalGame
    tlc -workers 2 -config WorkerSession.cfg MCWorker
    tlc -workers 2 -config LiveBoard.cfg MCLiveBoard
    tlapm LocalGameProofs.tla
    tlapm LiveBoardProofs.tla
    tlapm ArchiveProofs.tla

## 1. Inventory of the system

| Component | Source | State it keeps | Operations |
|---|---|---|---|
| Local game | `crates/libchess-stockfish/src/lib.rs` | per game a mutex over the snapshot, the engine handle and a watch channel; a catalog counter | create, play_move, perform_game_action, watch_live_game, watch_live_game_catalog, live_games, history, export, review |
| UCI driver | `crates/libchess-stockfish/src/uci.rs` | child process, its stdin, a channel filled by a reader thread | launch, set_skill, new_game, analyse, drop |
| Client session | `crates/libchess/src/lib.rs` | selected backend, connected backend, account, pending OAuth session, custom board themes and piece sets | select, connect, begin/complete/cancel OAuth, disconnect, clear, forwarders |
| Worker | `crates/libchess-ffi/src/lib.rs` | unbounded command queue, live tasks by game, catalog task, independent tasks, latest snapshots, loaded reviews | one command at a time; tasks emit events in between |
| Native store | `frontends/macos/.../LibChessStore.swift` | connection and selection state, games, predictions, pending moves, streams it believes are open | user actions, event handlers |
| Lichess live streams | `crates/libchess-lichess/src/live.rs` | NDJSON buffer, StreamContext (the full game, presence) | watch, watch_catalog, moves and actions |
| Lichess history | `crates/libchess-lichess/src/history.rs` | none; a cursor travels through the client | page, export, review |
| OAuth | `crates/libchess-lichess/src/lib.rs` | verifier, state and expiry of one session | begin, complete, account |
| Rules | `crates/libchess-rules/src/lib.rs` | none | reconstruct, SAN, insufficient material |
| Models and presentation | `crates/libchess-core`, `crates/libchess-board` | none | validation, palettes, SVG |
| macOS views, Windows frontend, scripts | `frontends`, `scripts` | view state | rendering, packaging |

How they interact: the frontend sends commands into the worker's queue and reads
events from a callback; the worker calls the client; the client forwards to the
connected backend; a backend's event streams are futures that the worker runs as
tasks on its single-threaded runtime. Local operations leave that thread: they
run on blocking threads with the mutex of their game held.

What is hard: an engine that is slow, silent or dead; an operation that fails
after it has changed something; streams and listings that run while an operation
is half done; commands that replace the backend while tasks of the old one are
running; predictions that are confirmed, rejected or overtaken.

What makes each component correct:

- local game: nobody sees half a turn; a failed operation leaves the snapshot as it
  was; a game can be continued whenever it says so; watchers miss nothing and streams end;
- client session and worker: the account, the backend and the events agree; no
  task outlives the connection it was started for; every request is answered;
- native store: the board it shows is one of the game plus at most the player's
  own move; once everything has arrived it agrees with the platform;
- Lichess streams: lines are consumed whole however a body is cut; nothing before
  the full game, exactly one full game, presence carried over; a stream ends with
  a finished game or with an error that has a reason;
- history: the list is newest first without repetitions and skips as little as
  the cursor allows; a review speaks of one line of its game;
- themes: what is registered can be saved and loaded again, the file follows the
  registry, the screen shows themes that exist;
- account: only codes of the pending request are exchanged, in time and once; a
  created game is reported as it is.

## 2. Modules and plan

| Module | What it is |
|---|---|
| `Arena` | the rules as the local backend sees them, and the pure functions of a game |
| `TurnGame` | abstract specification of a local game: whole turns only |
| `LocalGame` | the local backend: mutex, engine pipe, rollback, watch channel, streams, catalog |
| `LocalGameProofs`, `LocalGameRefinement` | theorems about `LocalGame`; it implements `TurnGame` |
| `MCLocalGame` | a small arena for the two runs of `LocalGame` |
| `Session` | the operations of `Client` that change the connection |
| `Worker` | the command loop of the C interface, running `Session` and its tasks |
| `WorkerProofs` | theorems about `Worker` |
| `MCWorker` | symmetries for the safety runs of `Worker` |
| `LiveBoard` | one live game from its platform through the worker's queue and stream to the native store and back |
| `LiveBoardProofs`, `MCLiveBoard` | theorems about `LiveBoard`; the symmetry of its runs |
| `LichessStream`, `MCLichessStream` | the two NDJSON streams of the Lichess backend; lines to feed them |
| `LichessStreamProofs` | theorems about `LichessStream` |
| `Archive`, `MCArchive` | pages of finished games and reviews, of both backends; worths of lines |
| `ArchiveProofs` | theorems about `Archive`: its pages and its reviews |
| `Themes`, `MCThemes` | the registry of custom themes from the client to the screen and the disk; a provider with a small limit |
| `ThemesProofs` | theorems about `Themes` |
| `Authorization` | signing in with Lichess |
| `LichessAccount`, `MCLichessAccount` | extends `Authorization` by the creation of games; requests and mangled callbacks |
| `LichessAccountProofs` | theorems about `Authorization` and `LichessAccount` |

`Worker` and `LiveBoard` look at the same program from two sides. `Worker` has
every command, two games and the session, and takes a frontend to be anything
that sends commands. `LiveBoard` keeps one game, connected throughout, and has
the store, the event queue and the platform in full.

Left for later: an abstract specification of the client as a frontend sees it
(selected, connected, account), which `Worker` implements for frontends that only
select; the timers of the store (refresh after 250 ms, reconnect of the catalog
after 2 s); the Windows frontend's bookkeeping, which is a second, simpler store.

## 3. The models and the code

### LocalGame

One value of `op` is one critical section of `LocalGame::play_player_move`,
`perform_action` or `create` in `libchess-stockfish/src/lib.rs`; between `Create`,
`PlayMove` or `TakeBack` and the step that ends the operation the mutex is held
and the engine is being asked.

| Variable | Code |
|---|---|
| `live`, `original` | the snapshot behind the mutex, and the clone that the rollback restores |
| `published` | the value of the watch channel |
| `engine` | the `Option<UciEngine>` of the game, and whether its process has exited |
| `asked`, `output`, `sent` | the `go` commands the process has not answered, the `bestmove` lines nobody has received, and whether the waiting operation has written its own `go` |
| `stream` | the stages of `watch_live_game` and its receiver's unseen flag |
| `signalDue`, `unseenSignal`, `refreshDue`, `listed` | the catalog counter on its way from the operation to a listing, and whether that listing held the game |

A search that times out leaves its `bestmove` in the pipe, because
`UciEngine::analyse` returns at the deadline and the engine stays; that is why
`asked` and `output` are sequences and not single values. An illegal answer, a closed pipe and a
timeout all lead to the rollback of `play_player_move`. The rollback restores the
snapshot (`lib.rs:597`) and not `last_move_at_millis`, which `replace_moves` has set
(`lib.rs:657`); that time appears in the history only and is not modelled. An
engine whose process has exited is still held by its game: `EngineMatchesGame` says
that a playable game has an engine handle, not that the process behind it answers.

Positions come from `Arena`: constants give the legal moves of a position, the
position after a move, whose turn it is, and which positions are in check or
dead. `RulesAssumption` says no more of them than that legal moves stay inside
the set of positions and pass the turn, and that dead material stays dead;
`OpeningsAssumption` that a preloaded line is a legal one. Repetition, fifty moves, and the engine's strength do not
occur in this code and are not in the model.

### Session and Worker

`Session` has one operator for each method of `Client` that assigns to its
fields, cut where the method awaits a provider: `SelectForConnect` is `connect`
up to its first await, `Connected` is what `connect_with_access_token` does after
the last one. `Worker` has one action for each piece of a handler of
`run_worker_with_client` between two awaits.

| Variable | Code |
|---|---|
| `inbox` | the command channel; `Send` is `libchess_client_send`, and `libchess_client_destroy` for the shutdown message |
| `doing`, `stage` | the command whose handler is suspended, and whether it waits for a provider or for streams to stop |
| `tasks` | `independent_tasks`: exports, history pages, reviews |
| `live`, `catalog` | `live_tasks` and `catalog_task` that have not ended |
| `latest`, `reviews` | the caches `latest_games` and `game_reviews` |
| `version` | how often a game has changed at its backend |
| `told` | what a frontend knows from `backend_selection_changed`, `connection_state_changed` and `account_updated` |
| `since` | the backends connected since streams and caches were last cleared; properties read it, and actions only to make a new backend differ from these |

Handlers that do the same thing to this state share an action. `Ask` stands for
the commands that await the backend and change nothing here; `AnswerAtOnce` for
those answered from memory and for those whose arguments are refused. `Fetch`
starts an export, a history page or a review.

The runtime is single-threaded, so tasks run only while a handler is suspended
or the loop waits for a command. Aborting a task and awaiting it therefore ends
it, and the model removes it in one step. The order in which the streams are
stopped is not told apart: no task of another game writes what a stopped one
could have read. What is told apart is that `Client::select_backend` has replaced
the backend *before* the streams of the old one are stopped (`SelectSwitches`,
then `FinishSelectBackend`): streams run in between and may fill the cache.

`connect` and `complete_oauth` replace the backend and clear nothing: streams and
snapshots of the old backend stay until a selection, `disconnect` or
`clear_backend_selection`. Frontends can get there. The macOS store sends both
commands (`LibChessStore.swift:137`, `:158`), and `connectUsingSavedCredential`
captures the provider before it reads the keychain in a task of its own, so its
`connect` may reach the worker after the user has selected the local backend and
opened games. `PlayedWherePredicted` is about what a move meets then. It holds for every
frontend and has one exception, `ConnectedOver`: the backend signs in, and was
connected over a session that nothing has torn down. A move that
falls under it reaches a backend that does not know the game; the answer is an error
and the store rolls the prediction back. A local backend is connected by
`select_backend` alone, and never falls under it.

A live stream belongs to a set and not to a map from games, because dropping a
`JoinHandle` does not abort the task: had `StartLiveGame` not stopped the old task,
both would run. Whether the snapshots of two subsequent streams of the same game
and backend are in order is a promise of the backend: for the local one it is the
watch channel of `LocalGame`, for Lichess the service.

### LiveBoard

A board is the line of moves that leads to it; the player moves first. The
actions come in four groups: what the user does in the store, what the worker
and its stream task do, what the platform does, and what the store does with the
next event.

| Variable | Code |
|---|---|
| `history` | all snapshots the game has had at its platform; the last one is now |
| `stray` | a move whose call was given up and that may arrive all the same |
| `commands`, `calling` | the worker's queue, and the command whose provider call it awaits, with whether the platform has carried it out |
| `stream`, `latest` | the task of `StartLiveGame` with the snapshot it has reached, and `latest_games` |
| `events` | what the callback has queued for the store |
| `live`, `prediction`, `move`, `action` | `liveGames`; `predictions` with `predictedBoards`; `pendingMoveRequests` with `submittingMoveGameIDs`; `pendingGameActionRequests` with `performingActionGameIDs` |
| `start`, `loading`, `connected` | `pendingLiveGameRequests`, `loadingGameIDs`, `connectedGameIDs` |
| `active`, `created` | whether the game is in `activeGames` and in `createdBotGames` |
| `asked` | request identifiers are numbered |
| `accepted`, `cancelled`, `crossed` | history for the properties: moves the platform has played; observation was stopped and not started again; a takeback met a move under way, or the move was made on a board that a takeback had replaced |

The platform is external: `MoveArrives`, `OpponentPlays`, `TakesBack` and
`GameEnds` say that a game changes by a legal move of either side, a takeback of
one or two plies, and an end. A call can be answered, refused, or given up at its
15 seconds; in the last case the request may still arrive (`StrayArrives`).
A stream emits the newest snapshot or an older one it has not emitted yet,
and misses what a watch channel coalesces; a new stream starts with
a snapshot that is not older than the newest at that moment.

`ConnectedIsCurrent` has two exceptions, and both are real. After `cancelled` see
the third finding below. After `crossed`: `reconcilePrediction`
(`LibChessStore.swift:1443`) drops a prediction only for a longer line than the
one it was made on, so a takeback that crosses the move leaves the prediction on
the board; it shows the opponent to move, and the player cannot move until the
line has grown past it, the game ends or observation stops.

### LichessStream

One module for `watch` and `watch_catalog`, which share the loop that cuts a body
into lines. A line is a record of its kind and of what the code looks at;
it takes `width` cells of the body, so `Limit` (256 KiB in the code) is a small
number of cells. What comes in one chunk is any prefix of what was written.

| Variable | Code |
|---|---|
| `said`, `wire`, `closed` | what Lichess has written, what is still on the way, whether the body is complete |
| `at` | where the loop of `watch` is: before the response, waiting for a chunk, cutting lines |
| `buffer` | the bytes received and not consumed |
| `game` | `StreamContext::game`, with presence |
| `heard`, `shown`, `outcome` | the lines consumed, the events they led to, how the call ended |

`EndsForAReason` says of a protocol error that the next line was bad or the game
missing, and of success that the last state said so. Two oddities are in the model
as they are in the code: a line of exactly the limit that ends in CR LF is accepted
or refused depending on where chunks end, because the check of the buffer counts the CR;
and the rest of a body without a line end keeps its CR.

### Archive

`provider` chooses between the two implementations of a page. They differ in the
comparison with the cursor (Lichess takes games up to it, `LocalGame` only those
before it), and only Lichess can send a record that `map_game` refuses (`Odd`).
`recent`, `cursor` and `request` are those of the store; `review` is a review being made
by the local backend ply by ply, or loaded from Lichess at once. `ends` and
`since` are read by properties only. `SkipsOnlyNeighbours` states exactly what the
cursor may lose: games created in the same millisecond as the last one of a page,
and for the local backend those one millisecond before. `Newest` is any order of the
finished games in which creation times never grow, since nothing decides between
equals; `Merge` is the `append(contentsOf:)` of `receiveGameHistory`, and `Unlisted`
its filter, written by the rank of each game that stays.

### Themes

| Variable | Code |
|---|---|
| `custom` | the two registries of `Client` |
| `commands`, `events` | the worker's queue and the events for the store |
| `phase` | how far `beginSavedBoardCustomizationRestore` has come |
| `catalog`, `shown`, `change`, `saving`, `showing` | `boardProviders`, `boardPresentation`, the pending customization request with its follow-up, `isSavingBoardCustomization`, the pending presentation request |
| `saves`, `file`, `preference` | the chain of save tasks, the file, the user defaults |
| `unsaved`, `edits`, `crashes`, `lastRequest` | whether the last write or restore failed; bounds |
| `declined` | history for a property: the presentation that was awaited last was refused |

Restarts lose everything but `file` and `preference`; at the first start these hold
what earlier sessions left (`Foreign`, `Remembered`). The worker, the store and
the disk are composed because the hazards lie between them: a save that has not
been written, an answer that arrives after the theme was removed, a file written
by another version. Seen while modelling and not excluded by any document:
registering a new look for the theme on the screen selects what is already
selected, so the old look stays (`LibChessStore.swift:239`); the selection that a
restore makes from the preferences can override one the user made meanwhile; a
file that was refused is overwritten by the next save. And the exception of
`ShownIsAdvertised`: when the board theme on the screen is removed, the store asks for
the default (`LibChessStore.swift:977`); a selection of other pieces made
before the answer takes the place of that request (`LibChessStore.swift:256`) and
names the removed board theme or a theme whose own removal is under way; the
worker refuses it, and the removed theme stays on the screen until something else
is selected.

### Authorization and LichessAccount

A request stands for its unique state, verifier and redirect URI. Connecting with a
saved token (`Client::connect`) uses no request and is left to `Worker`. Browsers answer
requests when they like; `callbacks` are the URLs they were sent to, and
`Unrelated` are mangled ones. `session` is `Client::oauth_session`, `step` is what
`complete_oauth` (or `create_bot_game`) awaits, `asked` lists the token requests that
reached Lichess, `backend` is the request whose token is in use. The
clock is taken to be monotone, as `Instant` is. `LichessAccount` adds `games` at
Lichess and those `reported`; Lichess creates a game before it answers, may rename the
variant, and the answer may be lost (`ChallengeFails`), after which another
request creates another game.

## 4. Runs

| Run | Configuration | What it shows |
|---|---|---|
| `local_game` | lines of up to four plies, three openings, one stream, a pipe of two answers | Nobody sees half a turn; a failed operation changes no snapshot; the engine handle is held exactly while the game goes on; a takeback never needs the engine; lines stay legal although answers come late; streams miss nothing; a finished game stays as it is; the whole implements `TurnGame`. Operations end although the engine may be silent; streams of finished games end; finished games leave the listing. |
| `local_game_stale_reply` | three plies | A counterexample: an answer that is not for the position asked about is played. |
| `worker_session` | Lichess-like and local provider, two backends each, one game, two requests | All orders of the session commands, with moves, a review, a stream and the catalog under way and every call free to fail. A move goes to the backend it was predicted on, except one that signs in and was connected over a standing session. |
| `worker_play` | two games, selections and connections over each other, streams, exports | The cached snapshot of a game never goes back; exports are given up for session commands only. |
| `worker_live` | one game, one backend per provider | Requests settle, connections resolve, destruction returns. |
| `worker_selection` | `connect` and `select_backend` | A counterexample: the selection moves and nobody is told. |
| `live_board` | two moves of the player, one of the opponent, four plies, five snapshots, four requests, two events | The store shows what the game has had plus the player's own move, and agrees with the platform when everything has arrived. |
| `live_board_cancelled` | one move each, two plies | A counterexample: a snapshot that arrives after observation has stopped makes the game count as connected. |
| `lichess_stream` | three lines out of sixteen, a limit of two cells | Lines arrive whole for every cut into chunks; what is shown is what was said; calls end for a reason. |
| `archive` | three games, pages of one, three milliseconds, lines of two plies | Pages are merged in order, skip only neighbours, and reviews are of one line. |
| `themes` | at most three themes of a kind, eight drafts, three files, two remembered selections, three edits, one crash | The registry can be loaded again, the file follows it, the screen shows what exists unless the last presentation was refused. |
| `lichess_account` | two requests, a lifetime of one tick, five mangled callbacks, two games | Codes are exchanged only for the pending request, in time and once; games are reported as they are. |

Bounds. Four plies are a player's move, a reply, and the same again: enough for a
late answer to meet another position, for a takeback of a full turn after it, and
for a game that ends on either side's move. Two pending answers are enough for a
stale one to be followed by the one that was asked for. Two backends per provider
let a connection be replaced by another to the same provider, so that "the same
provider" and "the same backend" differ; two games let a command about one meet
the stream of the other; a queue of one beside the command under way lets a move
wait behind the command that takes its backend away. With one more snapshot than the first a stream can be
behind. Requests and backends are symmetric in the safety runs; the liveness runs
use no symmetry.

Five snapshots of a live game are a move, its reply, a takeback, another move and
an end, so a takeback can meet a move that is on its way and be followed by
another; four requests let a stream be started twice around a move, or two moves be
made of which the first was given up; an event queue of two lets an answer and a
snapshot overtake each other. Three lines are a `gameFull`, an update and whatever
contradicts it; with two cells per buffer some lines fit, some fill it and some do
not. Pages of one game make every game the last of its page, and three
milliseconds for three games make neighbours, equals and others. A limit of three
is reached by one custom board theme or two piece themes.

`CHECK_DEADLOCK FALSE` is set where the system may really stop: `Worker` after
destruction, a stream after its body has ended, and where only bounds are left
(the user has no edits, requests or time left): `Themes`, `LichessAccount`,
`LiveBoard`.

Each property fails on a mutant of the model: a rollback that restores
nothing, a handle that is dropped without being aborted, a cache that is not
cleared, an error without a change of state, and so on. The mutated definitions
stand next to the ones they replace and are used nowhere else.

### Fairness

`LocalGame`: a search ends, because `UciEngine::receive_until` has a deadline; streams and the catalog are polled, because they are
tasks of a runtime with nothing else to block it. A player is never forced to
move. `Worker`: the loop takes the next command, because `recv` is awaited in a
loop; calls and tasks end, because every Lichess request has a timeout of 15 or 20
seconds and every local search a deadline; stopping streams takes finitely many
steps. Streams need not end and frontends need not send.

### Findings

* `local_game_stale_reply`: after a timed-out search its `bestmove` is still to
  come, and the next search takes it for its answer. If legal it is played, if not
  the next move fails as well (`uci.rs:244`).
* `worker_selection`: `docs/current_architecture.md:241` says
  `backend_selection_changed` keeps frontends synchronized; `Client::connect`
  changes the selection without that event, also when it then fails
  (`libchess/src/lib.rs:432`).

* `live_board_cancelled`: `docs/current_architecture.md:518` says the store reports
  stream state and can reconnect a game. A `live_game_updated` that was on its way
  when `stopObservingLiveGame` ran marks the game as connected
  (`LibChessStore.swift:1186`), although its stream has been stopped; opening the
  game then does nothing (`LibChessStore.swift:346`) and the board stays as it is until
  the user reconnects by hand.

Not counted as findings, since no document says otherwise: a game that was
created against a bot, has ended, and is no longer observed is listed as ongoing
again by the next refresh, because `createdBotGames` is never pruned and
`createdBotGameIsActive` takes a game without a snapshot for an active one
(`LibChessStore.swift:1282`); a move is submitted by its identifier alone, so one that
is also legal after a takeback is played in another position than the one it was chosen in.

Two facts about the worker are recorded as hazards rather than findings, since no
document says otherwise: `stop_live_game` has no answer, and the requests of
tasks that a session command aborts have none either, also when that command
then fails. `EveryRequestSettles` counts such a request as settled.

## 5. Proofs

`LocalGameProofs` (for every arena, opening set, set of streams, and pipe bound):
`TypeCorrect`, `EngineMatches`, `NothingIsUnpublished`, `TakeBackIsAtomic`,
`LinesStayLegal`, `PlayableIsNotOver`, `StreamsAreComplete`. The assumptions are
`RulesAssumption`, `OpeningsAssumption`, `NoGameAssumption` and `PipeAssumption`.
The properties speak of moments when the mutex is free, so none is inductive:
`IInv` adds what an operation has changed while it waits (`CreateInv`, `MoveInv`),
that the published snapshot is adjudicated with the player to move
(`PublishedInv`), and what each stream has seen (`StreamInv`). Takebacks need
their own argument: a truncated line is playable because every position on the
way was one that the game went on from.

`LocalGameRefinement`: `ImplementsTurnGame` maps the abstract game to `published`.
Most steps are stutters; the ones that publish are a whole turn of `TurnGame`, by
`MoveInv` for the turn that waited for the engine. `FinishedStaysFinal` follows
from the same cases.

`WorkerProofs` (for every set of providers, games, requests and kinds of
commands, and every bound): the theorems named in `PROJECT.json`. The assumptions
only say that `None` is none of the things it stands for the absence of, and that
bounds are natural numbers. `IInv` adds to the properties

* `HandlerInv`: a suspended handler has its command, and one that changes the
  session has stopped the independent tasks before it waits. Without it
  `TasksUseTheBackend` would not survive `ConnectSucceeds`;
* `BackendIsRecent`: the backend itself is in `since`, so what is started on it
  is;
* `OneStream`, `StreamsAreAhead`, `ShownExists`: a game has one stream, which is at
  most one snapshot behind the cache, and that only while it has emitted nothing.
  This is what makes `SnapshotsNeverGoBack` provable.

The proof of each part is by cases on the actions that touch its variables; all
other steps are covered by one case in which they are unchanged.
`MovesGoWherePredicted` has no premise on the frontend. It adds two facts to `IInv`: a
move that waits was predicted on a snapshot that is still cached (`MovesAreShown`),
and while a local backend is connected it is the only one in `since`
(`LocalIsAlone`), because `ConnectSucceeds` never makes a local one and
`FinishSelectBackend` clears whatever came before.

`LiveBoardProofs` (for every set of moves and every bound; `NoneAssumption` says
that `None` is no snapshot, number or record): `LiveBoardTypeCorrect`,
`BoardsAreHonest` and `ConnectedShowsTheGame`. For `BoardsAreHonest`, the invariant
`ShownWasPlayedOrSent`, `IInv` follows the data on its way: every snapshot and
every confirmation in the event queue was true when it was emitted (`EventsAreTrue`),
the call under way is (`CallIsTrue`), and a pending move was made on a snapshot
(`MoveIsGrounded`). Since `history` and `accepted` only grow (`PastStays`), what
was true when emitted is true when read.

`ConnectedShowsTheGame`, the invariant `ConnectedIsCurrent`, speaks of moments when
nothing is under way, so it says nothing of how they are reached. `OrderInv` says
what may be under way, and in what order:

* requests are numbered as they are sent, and the stream is older than what waits
  in the worker's queue (`Requests`); a pending start is the last command that
  starts or stops the stream (`StartIsLast`), and its command, its stream, the
  stream's end or its error is on its way (`StartIsPending`);
* behind the end of a stream come only snapshots of the finished game
  (`EndedIsFinal`), behind the error of the last start none at all (`ErrorIsFinal`);
  without a pending start nothing arrives or only the end of the game
  (`EndIsKnown`), and nothing happens in a game that is over (`OverIsLast`);
* a stream that has caught up has left its snapshot with the worker
  (`StreamIsCurrent`), that snapshot is what the store shows once it has read the
  events (`LatestIsSeen`), and a move is predicted on the snapshot shown by
  then (`PredictionIsSeen`); only a board that goes on has moves (`BoardIsLive`);
* a pending move will be answered (`MoveIsPending`); a prediction stays only while
  the board is not longer than the line it was made on (`PredictionIsAhead`), and the
  platform's line grows beyond that when the move is played, unless a takeback
  crossed it (`PlatformIsAhead`).

When nothing is under way, what is left of these is that the board is the newest
snapshot and that no prediction stands over it. `OrderIsKept` has one lemma per part,
by cases on the steps that take from a queue, append to one, or replace the stream.

`ThemesProofs` (for every set of identifiers, looks, drafts, files and remembered
selections, every limit, any number of edits and restarts): `ThemesTypeCorrect`,
`SavedThemesLoadAgain`, `FileHoldsRegistry` and `ScreenShowsWhatExists`. The
type invariant is inductive because it types queued states and saves with the
states that pass a full load; its core is `RegisterKeepsLoadable`, a counting
argument on what replacing and adding a theme does to the limit. `IInv` is for the
other two. Requests are answered in the order in which they are sent
(`RequestsInOrder`); one change is pending at a time, its answer says what the
registry still holds, and it will be answered (`OneChange`, `ChangeIsPending`,
`SavingMeansPending`, `StartsOnce`), so what the registry holds is in an answer, in the
last save or in the file, unless a write or the restore has failed
(`RegistryIsKept`). The presentation that is awaited will be answered
(`ShowingIsPending`), the catalog of the store is the registry's once no change is on
its way (`CatalogFollows`), a presentation holds themes that are in the catalog when
it is received (`PresentationsExist`), and the screen shows themes of the catalog when
none is awaited (`ShownFollows`). The assumptions used are that the built-in themes
are within the limit, that files and remembered selections have the form of such,
and that `None` is none of them. It was the attempt to prove `ShownIsAdvertised`
without its exception that brought the superseded default of section 3 to light; the
run starts from a remembered selection so that its three edits reach it.

`LichessAccountProofs` (for every lifetime, number of requests, callbacks, and
catalog): `OnlyOurCodesAreExchanged` and `ReportedGamesAreTrue`. `AuthInv` adds that the
pending request is the one begun last and has never been exchanged
(`PendingIsFresh`); `GameInv` that the challenge under way is one that was
accepted. `AuthorizationAssumption` says that mangled callbacks lack the target, or
one state, or one code.

`LichessStreamProofs` (for every set of lines and positions, every limit, number of
lines, and way to cut a body into chunks): `StreamTypeCorrect`, `AnyChunksSameLines`,
`SnapshotsAreFaithful` and `EndsAreJustified`. The invariant has three parts.
`ContextInv` follows `StreamContext`: the current game combines all lines heard.
`BodyInv` says that the unconsumed body, buffer and wire together, is *framed*:
positions exist at which the lines not heard yet end, each of them holding its cells,
CR and LF. That is what makes chunk boundaries irrelevant: the first LF in the buffer is
then the end of the next line, wherever it came from (`FirstNewline`), and what is
left after it is framed again (`DropFirst`). `OutcomeInv` adds the verdicts. The
assumptions used are that lines are lines of the given form (`LineAssumption`), CR
and LF are not part of one (`ControlAssumption`), the limit is positive, and no game
is `NoGame`. The limit bounds nothing else: a line that is too long is heard whole
or refused.

`ArchiveProofs` (for every set of games, moves and lengths, every page limit and
clock, and every engine whose judgement depends on the line only):
`ArchiveTypes`, `ListIsOrdered`, `PagesSkipOnlyNeighbours` and `ReviewsAreFaithful`.
`PagingInv` is the inductive invariant of the pages. The cursor is behind every
game of the list (`CursorIsBehind`), and a request with a cursor has the cursor of the
list (`RequestIsCursor`), so a later page has no game of the list and is appended
as it is (`MergeIsAppend`). A page on its way (`ReplyIsNext`, `PageIsNext`) is
newest first, and holds every game that was over when it was made and is before
its cursor, except those its own next cursor still reaches or that are beside its
last game; `PageFacts` shows that of what the backend answers, from the fact that
a sequence of distinct games as long as their number holds all of them
(`NewestFacts`). Games that are created or finished meanwhile change none of this,
because a finished game keeps its creation time (`HistoryGrows`, `PageStays`).
`ReviewInv` types lines and marks; the rest of `ReviewsAreFaithful` is that a sign is
changed twice or not at all. The assumptions are that the limit and the clock are
positive, that `None` is no game or number, and that `Worth` gives lines integers.

Only model-checked: liveness (`OperationsEnd`, `StreamsEnd`,
`FinishedIsDelisted`, `EveryRequestSettles`, `ConnectingResolves`,
`ShutdownCompletes`), which needs fairness and `ENABLED`; and the three
counterexamples. Every safety property and every action property of a passing run
is also a theorem.

## 6. Not modelled

* The chess rules themselves, which a library implements, UCI option setting and
  parsing of analysis lines, and the engine's choice of moves.
* HTTP, JSON, cryptography and keychains: they are the outcome of a call, success
  or failure.
* Export of games, SAN and SVG: pure functions whose result nothing depends on.
* Validation of plain fields (lengths, characters) in `libchess-core` and again in
  the store: one outcome, fine or not.
* In the store: sign-in, chat, clocks, several games at a time, the reset of the
  session while a game is open (`Worker` covers what the worker does then), a
  `send` that fails (the worker would have to be gone), and its two timers, for which any
  refresh at any time stands.
* Destruction during a blocking review: the runtime waits for the blocking thread.
  The search deadlines bound it, but the model does not tell that wait apart.
* The macOS and Windows views, build scripts and packaging.
