------------------------------- MODULE Themes -------------------------------
(***************************************************************************)
(* Custom board and piece themes: the registry of libchess::Client, the    *)
(* commands of libchess-ffi that read and change it, and the part of the   *)
(* macOS store that edits it, shows one board theme with one piece theme,  *)
(* saves the registry in a file and the selection in the preferences, and  *)
(* restores both when the program starts again.                            *)
(*                                                                         *)
(* One board provider is installed, as ClientBuilder::default does. A      *)
(* theme is its identifier, the built-in theme it derives from and its     *)
(* look: colours, adjustment and assets, of which only their validity      *)
(* matters.                                                                *)
(***************************************************************************)
EXTENDS Integers, Sequences, FiniteSets

CONSTANTS
  Id,          \* theme identifiers, the built-in ones included
  Builtin,     \* Builtin[k]: the identifiers of the built-in themes of kind k
  Default,     \* Default[k]: the built-in theme of kind k shown at first
  Look,        \* what a theme may look like
  Broken,      \* the looks that validate() refuses
  Limit,       \* themes of one kind a provider may advertise (64)
  Draft,       \* the definitions users try to register
  Foreign,     \* files found at the first start: states of other versions
  Remembered,  \* selections found at the first start: those of other sessions
  MaxEdits,    \* bound: commands the user gives
  MaxCrashes,  \* bound: ends of the program
  None

Kind == {"board", "piece"}

Theme == [id : Id, base : Id, look : Look]

\* BoardCustomizationState: the custom themes of each kind.
State == {s \in [Kind -> SUBSET Theme] : \A k \in Kind : IsFiniteSet(s[k])}

Selection == [Kind -> Id]

\* BoardProviderDescriptor::validate
IsDescriptor(builtin, default) ==
  /\ builtin \in [Kind -> SUBSET Id]
  /\ default \in [Kind -> Id]
  /\ \A k \in Kind : /\ IsFiniteSet(builtin[k])
                     /\ Cardinality(builtin[k]) <= Limit
                     /\ default[k] \in builtin[k]

ASSUME LimitAssumption == Limit \in Nat
ASSUME BuiltinAssumption == IsDescriptor(Builtin, Default)
ASSUME LookAssumption == Broken \subseteq Look
ASSUME DraftAssumption ==
  Draft \subseteq [kind : Kind, theme : Theme]
ASSUME ForeignAssumption == Foreign \subseteq State
ASSUME RememberedAssumption == Remembered \subseteq Selection
ASSUME BoundAssumption == MaxEdits \in Nat /\ MaxCrashes \in Nat

VARIABLES
  custom,      \* Client: the registered themes
  commands,    \* the commands the worker has not handled
  events,      \* the events the store has not received
  phase,       \* the restore: "starting", "reading", "restoring", "running"
               \* when it is over, "refused" when the worker refused the file
  catalog,     \* boardProviders: the advertised identifiers of each kind
  shown,       \* boardPresentation: the theme of each kind on the screen
  change,      \* the pending customization request and what follows it
  saving,      \* isSavingBoardCustomization
  showing,     \* pendingBoardPresentationRequestID, 0 for none
  declined,    \* history: the presentation awaited last was refused
  saves,       \* the states that wait to be written, oldest first
  file,        \* the file in Application Support, None when there is none
  preference,  \* the selection in UserDefaults, None when there is none
  unsaved,     \* the last write, or the last restore, failed
  lastRequest, \* the requests sent so far
  edits,       \* commands the user has given
  crashes      \* ends of the program

worker == <<custom, commands, events>>
disk == <<file, preference, unsaved>>
bounds == <<edits, crashes>>
vars == <<custom, commands, events, phase, catalog, shown, change, saving,
          showing, declined, saves, file, preference, unsaved, lastRequest,
          edits, crashes>>

-----------------------------------------------------------------------------
(* The registry.                                                           *)

Empty == [k \in Kind |-> {}]

Ids(themes) == {t.id : t \in themes}

\* The theme of kind k called id as registered, or as built in.
Registered(k, id) == {t \in custom[k] : t.id = id}

\* CustomBoardTheme::validate and CustomPieceTheme::validate.
IsSound(t) == t.look \notin Broken

\* validate_custom_board_theme and validate_custom_piece_theme.
IsAcceptable(k, t) ==
  /\ IsSound(t)
  /\ t.id \notin Builtin[k]
  /\ t.base \in Builtin[k]

\* The whole check of replace_board_customization_state.
IsLoadable(state) ==
  \A k \in Kind :
    /\ Cardinality(state[k]) <= Limit
    /\ \A t, u \in state[k] : t.id = u.id => t = u
    /\ \A t \in state[k] : IsAcceptable(k, t)
    /\ Cardinality(Builtin[k]) + Cardinality(state[k]) <= Limit

\* Mutant of HasRoom: the limit is compared one theme too late.
HasRoomForOneMore(k, id) ==
  \/ Registered(k, id) # {}
  \/ Cardinality(Builtin[k]) + Cardinality(custom[k]) <= Limit

\* Room for one more theme, or one of that identifier to replace.
HasRoom(k, id) ==
  \/ Registered(k, id) # {}
  \/ Cardinality(Builtin[k]) + Cardinality(custom[k]) < Limit

With(k, t) == [custom EXCEPT ![k] = (@ \ Registered(k, t.id)) \cup {t}]
Without(k, id) == [custom EXCEPT ![k] = @ \ Registered(k, id)]

Advertised(state) == [k \in Kind |-> Builtin[k] \cup Ids(state[k])]

\* The style of the built-in theme with that identifier.
Plain(id) == [id |-> id, base |-> id, look |-> None]

\* A style with the name, colours and assets of a custom theme on it.
Painted(style, t) == [style EXCEPT !.id = t.id, !.look = t.look]

\* board_presentation: a custom theme is drawn on its base.
Drawn(k, id) ==
  IF Registered(k, id) = {}
  THEN Plain(id)
  ELSE LET t == CHOOSE t \in Registered(k, id) : TRUE
       IN  Painted(Plain(t.base), t)

CanDraw(sel) == \A k \in Kind : Drawn(k, sel[k]).base \in Builtin[k]

DefaultShown == [k \in Kind |-> Plain(Default[k])]

-----------------------------------------------------------------------------
(* The worker: one command, one event.                                     *)

Error(c) == [type |-> "error", request |-> c.request]

Changed(c, state) == [type |-> "changed", request |-> c.request,
                      state |-> state]

\* The registry takes the state or keeps the one it has.
Settle(c, accepted, state) ==
  /\ custom' = IF accepted THEN state ELSE custom
  /\ events' = Append(events, IF accepted THEN Changed(c, state) ELSE Error(c))

LoadBoardCustomizationState(c) ==
  c.type = "load" /\ Settle(c, IsLoadable(c.state), c.state)

RegisterCustomTheme(c) ==
  /\ c.type = "register"
  /\ Settle(c, IsAcceptable(c.kind, c.theme) /\ HasRoom(c.kind, c.theme.id),
            With(c.kind, c.theme))

RemoveCustomTheme(c) ==
  /\ c.type = "remove"
  /\ Settle(c, Registered(c.kind, c.id) # {}, Without(c.kind, c.id))

LoadBoardPresentation(c) ==
  /\ c.type = "present"
  /\ events' = Append(events,
       IF CanDraw(c.selection)
       THEN [type |-> "presentation", request |-> c.request,
             themes |-> [k \in Kind |-> Drawn(k, c.selection[k])]]
       ELSE Error(c))
  /\ UNCHANGED custom

Handle ==
  /\ commands # <<>>
  /\ commands' = Tail(commands)
  /\ LET c == Head(commands) IN
       \/ LoadBoardCustomizationState(c)
       \/ RegisterCustomTheme(c)
       \/ RemoveCustomTheme(c)
       \/ LoadBoardPresentation(c)
  /\ UNCHANGED <<phase, catalog, shown, change, saving, showing, declined,
                 saves, disk, lastRequest, bounds>>

-----------------------------------------------------------------------------
(* The store: what it shows and remembers.                                 *)

Send(c) ==
  /\ lastRequest' = lastRequest + 1
  /\ commands' = Append(commands, c)

Shown == [k \in Kind |-> shown[k].id]

IsAdvertised(cat, sel) == \A k \in Kind : sel[k] \in cat[k]

Remember(sel) ==
  preference' = sel /\ UNCHANGED <<commands, showing, lastRequest>>

\* selectBoardPresentation: not advertised, on the screen already, or asked
\* of the worker; a later request replaces the one that is pending.
Select(cat, sel) ==
  \/ /\ ~IsAdvertised(cat, sel)
     /\ UNCHANGED <<commands, showing, lastRequest, preference>>
  \/ /\ IsAdvertised(cat, sel) /\ sel = Shown
     /\ Remember(sel)
  \/ /\ IsAdvertised(cat, sel) /\ sel # Shown
     /\ Send([type |-> "present", request |-> lastRequest + 1,
              selection |-> sel])
     /\ showing' = lastRequest + 1
     /\ UNCHANGED preference

\* restoreBoardPresentationPreference
RestorePreference(cat) ==
  LET sel == IF preference = None THEN Shown ELSE preference IN
  IF IsAdvertised(cat, sel) THEN Select(cat, sel) ELSE Remember(Shown)

\* Before the catalog has arrived there is nothing to select or to edit.
UserCommand == phase # "starting" /\ edits < MaxEdits /\ edits' = edits + 1

\* The user picks another theme of kind k beside the one of the other kind.
UserSelects(k, id) ==
  /\ UserCommand
  /\ id \in catalog[k]
  /\ Select(catalog, [j \in Kind |->
       IF j = k THEN id
       ELSE IF Shown[j] \in catalog[j] THEN Shown[j] ELSE Default[j]])
  /\ UNCHANGED <<custom, events, phase, catalog, shown, change, saving,
                 declined, saves, file, unsaved, crashes>>

\* beginBoardCustomizationRequest: one change at a time.
BeginChange(c, next) ==
  /\ UserCommand
  /\ ~saving
  /\ Send(c)
  /\ change' = [request |-> c.request, next |-> next]
  /\ saving' = TRUE
  /\ UNCHANGED <<custom, events, phase, catalog, shown, showing, declined,
                 saves, disk, crashes>>

UserRegisters(d) ==
  BeginChange([type |-> "register", request |-> lastRequest + 1,
               kind |-> d.kind, theme |-> d.theme],
              [do |-> "select", kind |-> d.kind, id |-> d.theme.id])

UserRemoves(k, id) ==
  BeginChange([type |-> "remove", request |-> lastRequest + 1,
               kind |-> k, id |-> id],
              [do |-> "remove", kind |-> k, id |-> id])

-----------------------------------------------------------------------------
(* The store: events.                                                      *)

\* "ready": the catalog and the default presentation; the file is read next.
ReceiveReady(e) ==
  /\ e.type = "ready"
  /\ catalog' = Advertised(Empty)
  /\ shown' = DefaultShown
  /\ saving' = TRUE
  /\ phase' = "reading"
  /\ UNCHANGED <<commands, change, showing, declined, saves, disk, lastRequest>>

\* Mutant of FollowUp: a removed theme stays on the screen.
FollowUpNoRemoval(next, cat) ==
  \/ /\ next.do = "select"
     /\ Select(cat, [j \in Kind |->
          IF j = next.kind THEN next.id
          ELSE IF Shown[j] \in cat[j] THEN Shown[j] ELSE Default[j]])
  \/ /\ next.do = "remove"
     /\ UNCHANGED <<commands, showing, lastRequest, preference>>
  \/ /\ next.do = "restore"
     /\ RestorePreference(cat)

\* What follows a change: show the new theme, leave a removed one, or go back
\* to the selection of the last session.
FollowUp(next, cat) ==
  \/ /\ next.do = "select"
     /\ Select(cat, [j \in Kind |->
          IF j = next.kind THEN next.id
          ELSE IF Shown[j] \in cat[j] THEN Shown[j] ELSE Default[j]])
  \/ /\ next.do = "remove" /\ Shown[next.kind] = next.id
     /\ Select(cat, [Shown EXCEPT ![next.kind] = Default[next.kind]])
  \/ /\ next.do = "remove" /\ Shown[next.kind] # next.id
     /\ UNCHANGED <<commands, showing, lastRequest, preference>>
  \/ /\ next.do = "restore"
     /\ RestorePreference(cat)

\* receiveBoardCustomization; the state is queued to be saved.
ReceiveChanged(e) ==
  /\ e.type = "changed"
  /\ change # None /\ e.request = change.request
  /\ change' = None
  /\ saving' = FALSE
  /\ catalog' = Advertised(e.state)
  /\ saves' = Append(saves, e.state)
  /\ FollowUp(change.next, Advertised(e.state))
  /\ phase' = IF change.next.do = "restore" THEN "running" ELSE phase
  /\ UNCHANGED <<shown, declined, file, unsaved>>

\* receiveBoardPresentation: only the answer of the latest request counts.
ReceivePresentation(e) ==
  /\ e.type = "presentation"
  /\ IF e.request = showing
        /\ \A k \in Kind : e.themes[k].id \in catalog[k]
     THEN /\ showing' = 0
          /\ declined' = FALSE
          /\ shown' = e.themes
          /\ preference' = [k \in Kind |-> e.themes[k].id]
     ELSE UNCHANGED <<showing, declined, shown, preference>>
  /\ UNCHANGED <<commands, phase, catalog, change, saving, saves, file,
                 unsaved, lastRequest>>

IsChange(e) == change # None /\ e.request = change.request
IsRestore(e) == IsChange(e) /\ change.next.do = "restore"

\* A refused restore ends here: the selection of the last session stays in
\* the preferences and is not shown.
ReceiveError(e) ==
  /\ e.type = "error"
  /\ showing' = IF e.request = showing THEN 0 ELSE showing
  /\ declined' = (declined \/ e.request = showing)
  /\ change' = IF IsChange(e) THEN None ELSE change
  /\ saving' = IF IsChange(e) THEN FALSE ELSE saving
  /\ phase' = IF IsRestore(e) THEN "refused" ELSE phase
  /\ unsaved' = IF IsRestore(e) THEN TRUE ELSE unsaved
  /\ UNCHANGED <<commands, catalog, shown, saves, file, preference,
                 lastRequest>>

Receive ==
  /\ events # <<>>
  /\ events' = Tail(events)
  /\ LET e == Head(events) IN
       \/ ReceiveReady(e)
       \/ ReceiveChanged(e)
       \/ ReceivePresentation(e)
       \/ ReceiveError(e)
  /\ UNCHANGED <<custom, bounds>>

-----------------------------------------------------------------------------
(* The store: the file.                                                    *)

\* beginSavedBoardCustomizationRestore: no file, a file, or one that cannot
\* be read or decoded.
ReadFile ==
  /\ phase = "reading"
  /\ file # None
  /\ Send([type |-> "load", request |-> lastRequest + 1, state |-> file])
  /\ change' = [request |-> lastRequest + 1, next |-> [do |-> "restore"]]
  /\ phase' = "restoring"
  /\ UNCHANGED <<showing, saving, preference, unsaved>>

NoFile ==
  /\ phase = "reading"
  /\ file = None
  /\ phase' = "running"
  /\ saving' = FALSE
  /\ RestorePreference(catalog)
  /\ UNCHANGED <<change, unsaved>>

FileUnreadable ==
  /\ phase = "reading"
  /\ file # None
  /\ phase' = "running"
  /\ saving' = FALSE
  /\ unsaved' = TRUE
  /\ RestorePreference(catalog)
  /\ UNCHANGED change

BeginRestore ==
  /\ ReadFile \/ NoFile \/ FileUnreadable
  /\ UNCHANGED <<custom, events, catalog, shown, declined, saves, file, bounds>>

\* Mutant of DueSaves: a save does not await the one before it.
DueSavesUnordered == DOMAIN saves

\* persistBoardCustomization: each save awaits the one before it. The file
\* is replaced atomically, or the write fails and the file stays.
DueSaves == {i \in DOMAIN saves : i = 1}

Save ==
  \E i \in DueSaves, ok \in BOOLEAN :
    /\ saves' = [j \in 1..(Len(saves) - 1) |->
                   IF j < i THEN saves[j] ELSE saves[j + 1]]
    /\ file' = IF ok THEN saves[i] ELSE file
    /\ unsaved' = ~ok
    /\ UNCHANGED <<worker, phase, catalog, shown, change, saving, showing,
                   declined, preference, lastRequest, bounds>>

-----------------------------------------------------------------------------
(* The program.                                                            *)

Ready == [type |-> "ready", request |-> 0]

\* A new worker has emitted ready; the store has received nothing.
Init ==
  /\ custom = Empty /\ commands = <<>> /\ events = << Ready >>
  /\ phase = "starting" /\ catalog = Empty /\ shown = DefaultShown
  /\ change = None /\ saving = FALSE /\ showing = 0 /\ declined = FALSE
  /\ saves = <<>> /\ unsaved = FALSE /\ lastRequest = 0
  /\ file \in Foreign \cup {None}
  /\ preference \in Remembered \cup {None}
  /\ edits = 0
  /\ crashes = 0

\* The program ends at any point, with saves unwritten, and starts again.
Restart ==
  /\ crashes < MaxCrashes
  /\ crashes' = crashes + 1
  /\ custom' = Empty /\ commands' = <<>> /\ events' = << Ready >>
  /\ phase' = "starting" /\ catalog' = Empty /\ shown' = DefaultShown
  /\ change' = None /\ saving' = FALSE /\ showing' = 0 /\ declined' = FALSE
  /\ saves' = <<>> /\ unsaved' = FALSE /\ lastRequest' = 0
  /\ UNCHANGED <<file, preference, edits>>

User ==
  \/ \E k \in Kind, id \in Id : UserSelects(k, id) \/ UserRemoves(k, id)
  \/ \E d \in Draft : UserRegisters(d)

Next == Handle \/ Receive \/ BeginRestore \/ Save \/ User \/ Restart

Spec == Init /\ [][Next]_vars

-----------------------------------------------------------------------------
(* Properties.                                                             *)

Style == [id : Id, base : Id, look : Look \cup {None}]

Command ==
  [type : {"load"}, request : Nat, state : State] \cup
  [type : {"register"}, request : Nat, kind : Kind, theme : Theme] \cup
  [type : {"remove"}, request : Nat, kind : Kind, id : Id] \cup
  [type : {"present"}, request : Nat, selection : Selection]

\* What the worker reports passes the check of a full load.
LoadableState == {s \in State : IsLoadable(s)}

Event ==
  [type : {"ready", "error"}, request : Nat] \cup
  [type : {"changed"}, request : Nat, state : LoadableState] \cup
  [type : {"presentation"}, request : Nat, themes : [Kind -> Style]]

FollowUps == [do : {"select", "remove"}, kind : Kind, id : Id] \cup
             [do : {"restore"}]

\* nil is no file and no request.
ASSUME NoneAssumption ==
  None \notin State \cup [request : Nat, next : FollowUps]

TypeOK ==
  /\ custom \in LoadableState
  /\ commands \in Seq(Command)
  /\ events \in Seq(Event)
  /\ phase \in {"starting", "reading", "restoring", "running", "refused"}
  /\ catalog \in [Kind -> SUBSET Id]
  /\ shown \in [Kind -> Style]
  /\ change \in {None} \cup [request : Nat, next : FollowUps]
  /\ saving \in BOOLEAN
  /\ showing \in Nat
  /\ declined \in BOOLEAN
  /\ saves \in Seq(LoadableState)
  /\ file \in {None} \cup Foreign \cup LoadableState
  /\ preference \in {None} \cup Selection
  /\ unsaved \in BOOLEAN
  /\ lastRequest \in Nat
  /\ edits \in 0..MaxEdits
  /\ crashes \in 0..MaxCrashes

\* Nothing is on its way between the user, the worker and the disk.
Quiet ==
  /\ commands = <<>> /\ events = <<>> /\ saves = <<>>
  /\ phase \in {"running", "refused"}

\* Whatever the registry came to hold, one change at a time, passes the whole
\* check it must pass to be loaded after a restart: what
\* persistBoardCustomization writes, replace_board_customization_state takes.
SavedCanBeLoaded ==
  /\ IsLoadable(custom)
  /\ \A i \in DOMAIN saves : IsLoadable(saves[i])
  /\ file \in Foreign \cup {None} \/ IsLoadable(file)

\* Once the saves are written the file holds the themes of the registry,
\* through restarts, replacements and removals, and no change is pending.
SavedIsRegistered ==
  Quiet /\ ~unsaved =>
    /\ ~saving /\ change = None
    /\ custom = IF file = None THEN Empty ELSE file

\* Once every answer is in, the store waits for no presentation, and the screen
\* shows themes that exist, whatever was selected, replaced or removed while
\* requests were on their way. The exception is a presentation that was refused:
\* when a theme on the screen is removed, and the user selects, before the
\* default takes its place, a theme whose removal is on its way, the selection
\* replaces the pending default and is refused, and the removed theme stays.
ShownIsAdvertised ==
  Quiet =>
    /\ showing = 0
    /\ ~declined => IsAdvertised(Advertised(custom), Shown)

=============================================================================
