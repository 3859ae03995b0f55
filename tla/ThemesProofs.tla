---------------------------- MODULE ThemesProofs ----------------------------
(***************************************************************************)
(* For every set of identifiers, looks, drafts and foreign files, every     *)
(* limit and any number of edits and restarts: what the registry holds and  *)
(* what the store saves can be loaded again, the file follows the registry, *)
(* and the screen shows themes that exist. TypeOK types the events and the  *)
(* queue of saves with states that pass the check of a full load; IInv      *)
(* relates the commands, the events and the saves that are on their way.    *)
(***************************************************************************)
EXTENDS Themes, FiniteSetTheorems, SequenceTheorems, TLAPS

\* Nothing registered is loadable: the built-in themes are within the limit.
LEMMA EmptyIsLoadable == Empty \in LoadableState
<1>1. Empty \in [Kind -> SUBSET Theme]
  BY DEF Empty
<1>2. \A k \in Kind : Empty[k] = {}
  BY DEF Empty
<1>3. IsFiniteSet({}) /\ Cardinality({}) = 0
  BY FS_EmptySet
<1>4. ASSUME NEW k \in Kind
      PROVE  Cardinality(Builtin[k]) \in Nat /\ Cardinality(Builtin[k]) <= Limit
  BY BuiltinAssumption, FS_CardinalityType DEF IsDescriptor
<1>5. IsLoadable(Empty)
  BY <1>2, <1>3, <1>4, LimitAssumption DEF IsLoadable
<1> QED
  BY <1>1, <1>2, <1>3, <1>5 DEF LoadableState, State

\* RegisterCustomTheme keeps the registry loadable: replacing a theme does not
\* change how many there are, and a new one is accepted below the limit only.
LEMMA RegisterKeepsLoadable ==
  ASSUME custom \in LoadableState, NEW k \in Kind, NEW t \in Theme,
         IsAcceptable(k, t), HasRoom(k, t.id)
  PROVE  With(k, t) \in LoadableState
<1> DEFINE new == (custom[k] \ Registered(k, t.id)) \cup {t}
<1>1. /\ custom \in [Kind -> SUBSET Theme]
      /\ \A j \in Kind : IsFiniteSet(custom[j])
      /\ IsLoadable(custom)
  BY DEF LoadableState, State
<1>2. With(k, t) \in [Kind -> SUBSET Theme]
  BY <1>1 DEF With, Registered
<1>3. /\ With(k, t)[k] = new
      /\ \A j \in Kind : j # k => With(k, t)[j] = custom[j]
  BY <1>1 DEF With
<1>4. \A j \in Kind : Cardinality(Builtin[j]) \in Nat
  BY BuiltinAssumption, FS_CardinalityType DEF IsDescriptor
<1>5. Cardinality(custom[k]) \in Nat
  BY <1>1, FS_CardinalityType
<1>6. /\ IsFiniteSet(new)
      /\ Cardinality(new) \in Nat
      /\ Cardinality(Builtin[k]) + Cardinality(new) <= Limit
  <2>1. CASE Registered(k, t.id) = {}
    <3>1. new = custom[k] \cup {t}
      BY <2>1
    <3>2. /\ IsFiniteSet(new)
          /\ Cardinality(new) = Cardinality(custom[k])
             \/ Cardinality(new) = Cardinality(custom[k]) + 1
      BY <3>1, <1>1, FS_AddElement
    <3>3. Cardinality(Builtin[k]) + Cardinality(custom[k]) < Limit
      BY <2>1 DEF HasRoom
    <3> QED
      BY <3>2, <3>3, <1>4, <1>5, LimitAssumption
  <2>2. CASE Registered(k, t.id) # {}
    <3>1. PICK u \in Registered(k, t.id) : TRUE
      BY <2>2
    <3>2. u \in custom[k] /\ u.id = t.id
      BY <3>1 DEF Registered
    <3>3. Registered(k, t.id) = {u}
      BY <3>1, <3>2, <1>1 DEF Registered, IsLoadable
    <3>4. /\ IsFiniteSet(custom[k] \ {u})
          /\ Cardinality(custom[k] \ {u}) = Cardinality(custom[k]) - 1
      BY <3>2, <1>1, FS_RemoveElement
    <3>5. /\ IsFiniteSet(new)
          /\ Cardinality(new) = Cardinality(custom[k] \ {u})
             \/ Cardinality(new) = Cardinality(custom[k] \ {u}) + 1
      BY <3>3, <3>4, FS_AddElement
    <3>6. Cardinality(new) \in Nat
      BY <3>5, FS_CardinalityType
    <3>7. Cardinality(Builtin[k]) + Cardinality(custom[k]) <= Limit
      BY <1>1 DEF IsLoadable
    <3> QED
      BY <3>4, <3>5, <3>6, <3>7, <1>4, <1>5, LimitAssumption
  <2> QED
    BY <2>1, <2>2
<1>7. ASSUME NEW a \in new, NEW b \in new, a.id = b.id
      PROVE  a = b
  BY <1>1, <1>7 DEF Registered, IsLoadable
<1>8. \A a \in new : IsAcceptable(k, a)
  BY <1>1 DEF IsLoadable
<1>9. Cardinality(new) <= Limit
  BY <1>4, <1>6, LimitAssumption
<1> HIDE DEF new
<1>10. IsLoadable(With(k, t))
  BY <1>1, <1>3, <1>6, <1>7, <1>8, <1>9 DEF IsLoadable
<1>11. \A j \in Kind : IsFiniteSet(With(k, t)[j])
  BY <1>1, <1>3, <1>6
<1> QED
  BY <1>2, <1>10, <1>11 DEF LoadableState, State

\* RemoveCustomTheme keeps the registry loadable.
LEMMA RemoveKeepsLoadable ==
  ASSUME custom \in LoadableState, NEW k \in Kind, NEW id \in Id
  PROVE  Without(k, id) \in LoadableState
<1> DEFINE rest == custom[k] \ Registered(k, id)
<1>1. /\ custom \in [Kind -> SUBSET Theme]
      /\ \A j \in Kind : IsFiniteSet(custom[j])
      /\ IsLoadable(custom)
  BY DEF LoadableState, State
<1>2. Without(k, id) \in [Kind -> SUBSET Theme]
  BY <1>1 DEF Without
<1>3. /\ Without(k, id)[k] = rest
      /\ \A j \in Kind : j # k => Without(k, id)[j] = custom[j]
  BY <1>1 DEF Without
<1>4. rest \in SUBSET custom[k]
  OBVIOUS
<1>5. /\ IsFiniteSet(rest)
      /\ Cardinality(rest) <= Cardinality(custom[k])
  BY <1>1, <1>4, FS_Subset
<1>6. /\ Cardinality(rest) \in Nat
      /\ Cardinality(custom[k]) \in Nat
      /\ Cardinality(Builtin[k]) \in Nat
  BY <1>1, <1>5, FS_CardinalityType, BuiltinAssumption DEF IsDescriptor
<1>7. /\ Cardinality(custom[k]) <= Limit
      /\ Cardinality(Builtin[k]) + Cardinality(custom[k]) <= Limit
  BY <1>1 DEF IsLoadable
<1>8. /\ Cardinality(rest) <= Limit
      /\ Cardinality(Builtin[k]) + Cardinality(rest) <= Limit
  BY <1>5, <1>6, <1>7, LimitAssumption
<1>9. /\ \A a, b \in rest : a.id = b.id => a = b
      /\ \A a \in rest : IsAcceptable(k, a)
  BY <1>1, <1>4 DEF IsLoadable
<1> HIDE DEF rest
<1>10. IsLoadable(Without(k, id))
  BY <1>1, <1>3, <1>8, <1>9 DEF IsLoadable
<1>11. \A j \in Kind : IsFiniteSet(Without(k, id)[j])
  BY <1>1, <1>3, <1>5
<1> QED
  BY <1>2, <1>10, <1>11 DEF LoadableState, State

-----------------------------------------------------------------------------
(* Types of what the handlers build.                                       *)

\* What the provider draws for a registered or advertised identifier.
LEMMA DrawnType ==
  ASSUME custom \in LoadableState, NEW k \in Kind, NEW id \in Id
  PROVE  Drawn(k, id) \in Style
<1>1. custom[k] \subseteq Theme
  BY DEF LoadableState, State
<1>2. CASE Registered(k, id) = {}
  BY <1>2 DEF Drawn, Plain, Style
<1>3. CASE Registered(k, id) # {}
  <2> DEFINE t == CHOOSE t \in Registered(k, id) : TRUE
  <2>1. t \in Registered(k, id)
    BY <1>3
  <2>2. t \in Theme
    BY <2>1, <1>1 DEF Registered
  <2>3. Drawn(k, id) = Painted(Plain(t.base), t)
    BY <1>3 DEF Drawn
  <2> HIDE DEF t
  <2> QED
    BY <2>2, <2>3 DEF Painted, Plain, Theme, Style
<1> QED
  BY <1>2, <1>3

LEMMA AdvertisedType ==
  ASSUME NEW state \in State
  PROVE  Advertised(state) \in [Kind -> SUBSET Id]
<1>1. ASSUME NEW k \in Kind
      PROVE  Builtin[k] \cup Ids(state[k]) \subseteq Id
  BY BuiltinAssumption DEF State, Theme, Ids, IsDescriptor
<1> QED
  BY <1>1 DEF Advertised

LEMMA ShownType ==
  ASSUME TypeOK
  PROVE  Shown \in Selection
BY DEF TypeOK, Shown, Style, Selection

LEMMA DefaultType == Default \in Selection /\ DefaultShown \in [Kind -> Style]
BY BuiltinAssumption DEF IsDescriptor, Selection, DefaultShown, Plain, Style

\* The state that selectBoardPresentation changes.
SelectionTypes ==
  /\ commands' \in Seq(Command)
  /\ showing' \in Nat
  /\ lastRequest' \in Nat
  /\ preference' \in {None} \cup Selection

LEMMA SelectType ==
  ASSUME TypeOK, NEW cat, NEW sel \in Selection, Select(cat, sel)
  PROVE  SelectionTypes
<1>1. CASE UNCHANGED <<commands, showing, lastRequest, preference>>
  BY <1>1 DEF SelectionTypes, TypeOK
<1>2. CASE Remember(sel)
  BY <1>2 DEF SelectionTypes, TypeOK, Remember
<1>3. ASSUME Send([type |-> "present", request |-> lastRequest + 1,
                   selection |-> sel]),
             showing' = lastRequest + 1, preference' = preference
      PROVE  SelectionTypes
  <2>1. [type |-> "present", request |-> lastRequest + 1, selection |-> sel]
          \in Command
    BY DEF Command, TypeOK
  <2> QED
    BY <1>3, <2>1 DEF SelectionTypes, TypeOK, Send
<1> QED
  BY <1>1, <1>2, <1>3 DEF Select

LEMMA RestoreType ==
  ASSUME TypeOK, NEW cat, RestorePreference(cat)
  PROVE  SelectionTypes
<1> DEFINE sel == IF preference = None THEN Shown ELSE preference
<1>1. sel \in Selection
  BY ShownType DEF TypeOK
<1>2. CASE Select(cat, sel)
  BY <1>1, <1>2, SelectType
<1>3. CASE Remember(Shown)
  BY <1>3, ShownType DEF Remember, SelectionTypes, TypeOK
<1> QED
  BY <1>2, <1>3 DEF RestorePreference

LEMMA FollowUpType ==
  ASSUME TypeOK, NEW next \in FollowUps, NEW cat, FollowUp(next, cat)
  PROVE  SelectionTypes
<1>1. ASSUME next.do = "select",
             Select(cat, [j \in Kind |->
               IF j = next.kind THEN next.id
               ELSE IF Shown[j] \in cat[j] THEN Shown[j] ELSE Default[j]])
      PROVE  SelectionTypes
  <2>1. next.id \in Id
    BY <1>1 DEF FollowUps
  <2>2. [j \in Kind |->
           IF j = next.kind THEN next.id
           ELSE IF Shown[j] \in cat[j] THEN Shown[j] ELSE Default[j]]
          \in Selection
    BY <2>1, ShownType, DefaultType DEF Selection
  <2> QED
    BY <1>1, <2>2, SelectType
<1>2. ASSUME next.do = "remove",
             Select(cat, [Shown EXCEPT ![next.kind] = Default[next.kind]])
      PROVE  SelectionTypes
  <2>1. next.kind \in Kind
    BY <1>2 DEF FollowUps
  <2>2. [Shown EXCEPT ![next.kind] = Default[next.kind]] \in Selection
    BY <2>1, ShownType, DefaultType DEF Selection
  <2> QED
    BY <1>2, <2>2, SelectType
<1>3. CASE UNCHANGED <<commands, showing, lastRequest, preference>>
  BY <1>3 DEF SelectionTypes, TypeOK
<1>4. CASE RestorePreference(cat)
  BY <1>4, RestoreType
<1> QED
  BY <1>1, <1>2, <1>3, <1>4 DEF FollowUp

-----------------------------------------------------------------------------
(* Each action preserves TypeOK.                                           *)

LEMMA HandleType ==
  ASSUME TypeOK, Handle
  PROVE  TypeOK'
<1> DEFINE c == Head(commands)
<1>1. c \in Command /\ Tail(commands) \in Seq(Command) /\ c.request \in Nat
  BY DEF Handle, TypeOK, Command
<1>2. ASSUME NEW accepted, NEW state, accepted => state \in LoadableState,
             Settle(c, accepted, state)
      PROVE  custom' \in LoadableState /\ events' \in Seq(Event)
  <2>1. Error(c) \in Event
    BY <1>1 DEF Error, Event
  <2>2. accepted => Changed(c, state) \in Event
    BY <1>1, <1>2 DEF Changed, Event
  <2> QED
    BY <1>2, <2>1, <2>2 DEF Settle, TypeOK
<1>3. ASSUME LoadBoardCustomizationState(c)
      PROVE  custom' \in LoadableState /\ events' \in Seq(Event)
  <2>1. c.state \in State
    BY <1>1, <1>3 DEF LoadBoardCustomizationState, Command
  <2> QED
    BY <1>2, <1>3, <2>1 DEF LoadBoardCustomizationState, LoadableState
<1>4. ASSUME RegisterCustomTheme(c)
      PROVE  custom' \in LoadableState /\ events' \in Seq(Event)
  <2>1. c.kind \in Kind /\ c.theme \in Theme
    BY <1>1, <1>4 DEF RegisterCustomTheme, Command
  <2>2. IsAcceptable(c.kind, c.theme) /\ HasRoom(c.kind, c.theme.id)
          => With(c.kind, c.theme) \in LoadableState
    BY <2>1, RegisterKeepsLoadable DEF TypeOK
  <2> QED
    BY <1>2, <1>4, <2>2 DEF RegisterCustomTheme
<1>5. ASSUME RemoveCustomTheme(c)
      PROVE  custom' \in LoadableState /\ events' \in Seq(Event)
  <2>1. c.kind \in Kind /\ c.id \in Id
    BY <1>1, <1>5 DEF RemoveCustomTheme, Command
  <2>2. Without(c.kind, c.id) \in LoadableState
    BY <2>1, RemoveKeepsLoadable DEF TypeOK
  <2> QED
    BY <1>2, <1>5, <2>2 DEF RemoveCustomTheme
<1>6. ASSUME LoadBoardPresentation(c)
      PROVE  custom' \in LoadableState /\ events' \in Seq(Event)
  <2>1. c.selection \in Selection
    BY <1>1, <1>6 DEF LoadBoardPresentation, Command
  <2>2. \A k \in Kind : Drawn(k, c.selection[k]) \in Style
    BY <2>1, DrawnType DEF TypeOK, Selection
  <2> DEFINE themes == [k \in Kind |-> Drawn(k, c.selection[k])]
  <2>3. themes \in [Kind -> Style]
    BY <2>2
  <2>4. events' = Append(events, [type |-> "presentation",
                                  request |-> c.request, themes |-> themes])
        \/ events' = Append(events, Error(c))
    BY <1>6 DEF LoadBoardPresentation
  <2> HIDE DEF themes
  <2>5. /\ [type |-> "presentation", request |-> c.request,
            themes |-> themes] \in Event
        /\ Error(c) \in Event
    BY <1>1, <2>3 DEF Event, Error
  <2> QED
    BY <2>4, <2>5, <1>6 DEF LoadBoardPresentation, TypeOK
<1>7. custom' \in LoadableState /\ events' \in Seq(Event)
  BY <1>3, <1>4, <1>5, <1>6 DEF Handle
<1> HIDE DEF c
<1> QED
  BY <1>1, <1>7 DEF Handle, TypeOK, disk, bounds

LEMMA ReceiveType ==
  ASSUME TypeOK, Receive
  PROVE  TypeOK'
<1> DEFINE e == Head(events)
<1>1. e \in Event /\ Tail(events) \in Seq(Event) /\ e.request \in Nat
  BY DEF Receive, TypeOK, Event
<1>2. CASE ReceiveReady(e)
  <2>1. Empty \in State
    BY EmptyIsLoadable DEF LoadableState
  <2>2. Advertised(Empty) \in [Kind -> SUBSET Id]
    BY <2>1, AdvertisedType
  <2> QED
    BY <1>1, <1>2, <2>2, DefaultType
    DEF Receive, ReceiveReady, TypeOK, disk, bounds
<1>3. CASE ReceiveChanged(e)
  <2>1. e.state \in LoadableState /\ e.state \in State
    BY <1>1, <1>3 DEF ReceiveChanged, Event, LoadableState
  <2>2. Advertised(e.state) \in [Kind -> SUBSET Id]
    BY <2>1, AdvertisedType
  <2>3. change.next \in FollowUps
    BY <1>3 DEF ReceiveChanged, TypeOK
  <2>4. SelectionTypes
    BY <1>3, <2>3, FollowUpType DEF ReceiveChanged
  <2>5. saves' \in Seq(LoadableState)
    BY <1>3, <2>1 DEF ReceiveChanged, TypeOK
  <2>6. phase' \in {"starting", "reading", "restoring", "running", "refused"}
    BY <1>3 DEF ReceiveChanged, TypeOK
  <2>7. /\ change' = None /\ saving' = FALSE
        /\ catalog' \in [Kind -> SUBSET Id]
        /\ UNCHANGED <<shown, declined, file, unsaved>>
    BY <1>3, <2>2 DEF ReceiveChanged
  <2> QED
    BY <1>1, <2>4, <2>5, <2>6, <2>7
    DEF Receive, SelectionTypes, TypeOK, bounds
<1>4. CASE ReceivePresentation(e)
  <2>1. e.themes \in [Kind -> Style]
    BY <1>1, <1>4 DEF ReceivePresentation, Event
  <2>2. [k \in Kind |-> e.themes[k].id] \in Selection
    BY <2>1 DEF Style, Selection
  <2>3. /\ showing' \in Nat
        /\ shown' \in [Kind -> Style]
        /\ preference' \in {None} \cup Selection
    BY <1>4, <2>1, <2>2, SMTT(30) DEF ReceivePresentation, TypeOK
  <2> QED
    BY <1>1, <1>4, <2>3 DEF Receive, ReceivePresentation, TypeOK, bounds
<1>5. CASE ReceiveError(e)
  BY <1>1, <1>5 DEF Receive, ReceiveError, IsChange, IsRestore, TypeOK, bounds
<1> QED
  BY <1>2, <1>3, <1>4, <1>5 DEF Receive

LEMMA BeginRestoreType ==
  ASSUME TypeOK, BeginRestore
  PROVE  TypeOK'
<1>1. CASE ReadFile
  <2>1. file \in State
    BY <1>1, ForeignAssumption DEF ReadFile, TypeOK, LoadableState
  <2>2. [type |-> "load", request |-> lastRequest + 1, state |-> file]
          \in Command
    BY <2>1 DEF Command, TypeOK
  <2>3. [request |-> lastRequest + 1, next |-> [do |-> "restore"]]
          \in [request : Nat, next : FollowUps]
    BY DEF FollowUps, TypeOK
  <2> QED
    BY <1>1, <2>2, <2>3 DEF BeginRestore, ReadFile, Send, TypeOK, bounds
<1>2. CASE NoFile
  <2>1. SelectionTypes
    BY <1>2, RestoreType DEF NoFile
  <2> QED
    BY <1>2, <2>1 DEF BeginRestore, NoFile, SelectionTypes, TypeOK, bounds
<1>3. CASE FileUnreadable
  <2>1. SelectionTypes
    BY <1>3, RestoreType DEF FileUnreadable
  <2> QED
    BY <1>3, <2>1
    DEF BeginRestore, FileUnreadable, SelectionTypes, TypeOK, bounds
<1> QED
  BY <1>1, <1>2, <1>3 DEF BeginRestore

LEMMA SaveType ==
  ASSUME TypeOK, Save
  PROVE  TypeOK'
<1>1. PICK i \in DueSaves, ok \in BOOLEAN :
        /\ saves' = [j \in 1..(Len(saves) - 1) |->
                       IF j < i THEN saves[j] ELSE saves[j + 1]]
        /\ file' = IF ok THEN saves[i] ELSE file
        /\ unsaved' = ~ok
        /\ UNCHANGED <<worker, phase, catalog, shown, change, saving, showing,
                       declined, preference, lastRequest, bounds>>
  BY DEF Save
<1>2. i \in 1..Len(saves) /\ Len(saves) \in Nat
  BY <1>1 DEF DueSaves, TypeOK
<1>3. Len(saves) - 1 \in Nat
  BY <1>2
<1>4. \A j \in 1..(Len(saves) - 1) : saves[j] \in LoadableState
                                   /\ saves[j + 1] \in LoadableState
  BY <1>2 DEF TypeOK
<1>5. saves' \in [1..(Len(saves) - 1) -> LoadableState]
  BY <1>1, <1>4
<1>6. saves' \in Seq(LoadableState)
  BY <1>3, <1>5
<1>7. file' \in {None} \cup Foreign \cup LoadableState
  BY <1>1, <1>2 DEF TypeOK
<1> QED
  BY <1>1, <1>6, <1>7 DEF TypeOK, worker, bounds

LEMMA UserType ==
  ASSUME TypeOK, User
  PROVE  TypeOK'
<1>1. UserCommand => edits' \in 0..MaxEdits
  BY BoundAssumption DEF UserCommand, TypeOK
<1>2. ASSUME NEW k \in Kind, NEW id \in Id, UserSelects(k, id)
      PROVE  TypeOK'
  <2> DEFINE sel == [j \in Kind |->
                      IF j = k THEN id
                      ELSE IF Shown[j] \in catalog[j] THEN Shown[j]
                      ELSE Default[j]]
  <2>1. sel \in Selection
    BY ShownType, DefaultType DEF Selection
  <2>2. Select(catalog, sel)
    BY <1>2 DEF UserSelects
  <2> HIDE DEF sel
  <2>3. SelectionTypes
    BY <2>1, <2>2, SelectType
  <2> QED
    BY <1>1, <1>2, <2>3 DEF UserSelects, SelectionTypes, TypeOK
<1>3. ASSUME NEW c \in Command, NEW next \in FollowUps, BeginChange(c, next)
      PROVE  TypeOK'
  <2>1. [request |-> c.request, next |-> next]
          \in [request : Nat, next : FollowUps]
    BY DEF Command
  <2> QED
    BY <1>1, <1>3, <2>1 DEF BeginChange, Send, TypeOK, disk
<1>4. ASSUME NEW k \in Kind, NEW id \in Id, UserRemoves(k, id)
      PROVE  TypeOK'
  <2>1. /\ [type |-> "remove", request |-> lastRequest + 1,
            kind |-> k, id |-> id] \in Command
        /\ [do |-> "remove", kind |-> k, id |-> id] \in FollowUps
    BY DEF Command, FollowUps, TypeOK
  <2> QED
    BY <1>3, <1>4, <2>1 DEF UserRemoves
<1>5. ASSUME NEW d \in Draft, UserRegisters(d)
      PROVE  TypeOK'
  <2>1. d.kind \in Kind /\ d.theme \in Theme /\ d.theme.id \in Id
    BY DraftAssumption DEF Theme
  <2>2. /\ [type |-> "register", request |-> lastRequest + 1,
            kind |-> d.kind, theme |-> d.theme] \in Command
        /\ [do |-> "select", kind |-> d.kind, id |-> d.theme.id] \in FollowUps
    BY <2>1 DEF Command, FollowUps, TypeOK
  <2> QED
    BY <1>3, <1>5, <2>2 DEF UserRegisters
<1> QED
  BY <1>2, <1>4, <1>5 DEF User

LEMMA RestartType ==
  ASSUME TypeOK, Restart
  PROVE  TypeOK'
<1>1. Empty \in [Kind -> SUBSET Id]
  BY DEF Empty
<1>2. Ready \in Event
  BY DEF Ready, Event
<1>3. /\ <<>> \in Seq(Command) /\ <<>> \in Seq(LoadableState)
      /\ <<Ready>> \in Seq(Event)
  BY <1>2
<1>4. crashes' \in 0..MaxCrashes
  BY BoundAssumption DEF Restart, TypeOK
<1> QED
  BY <1>1, <1>2, <1>3, <1>4, EmptyIsLoadable, DefaultType DEF Restart, TypeOK

LEMMA InitType == Init => TypeOK
<1>1. Empty \in [Kind -> SUBSET Id]
  BY DEF Empty
<1>2. Ready \in Event
  BY DEF Ready, Event
<1>3. /\ <<>> \in Seq(Command) /\ <<>> \in Seq(LoadableState)
      /\ <<Ready>> \in Seq(Event)
  BY <1>2
<1>4. 0 \in 0..MaxEdits /\ 0 \in 0..MaxCrashes /\ 0 \in Nat
  BY BoundAssumption
<1>5. Init => /\ preference \in {None} \cup Selection
             /\ file \in {None} \cup Foreign \cup LoadableState
             /\ shown \in [Kind -> Style]
  BY DefaultType, RememberedAssumption DEF Init
<1> QED
  BY <1>1, <1>3, <1>4, <1>5, EmptyIsLoadable DEF Init, TypeOK

\* Every variable keeps its type, and every state on its way from the registry
\* to the disk is one that a restart can load.
THEOREM ThemesTypeCorrect == Spec => []TypeOK
<1>1. TypeOK /\ [Next]_vars => TypeOK'
  <2>1. ASSUME TypeOK, UNCHANGED vars PROVE TypeOK'
    BY <2>1 DEF vars, TypeOK
  <2> QED
    BY <2>1, HandleType, ReceiveType, BeginRestoreType, SaveType, UserType,
       RestartType DEF Next
<1> QED
  BY InitType, <1>1, PTL DEF Spec

\* What register_custom_board_theme and its siblings build one at a time, and
\* persistBoardCustomization writes, replace_board_customization_state takes
\* after a restart, whatever the limit and the number of built-in themes.
THEOREM SavedThemesLoadAgain == Spec => []SavedCanBeLoaded
<1>1. TypeOK => SavedCanBeLoaded
  BY DEF TypeOK, LoadableState, SavedCanBeLoaded
<1> QED
  BY <1>1, ThemesTypeCorrect, PTL

-----------------------------------------------------------------------------
(* Queues, as the set of what waits in them.                               *)

LEMMA EmptyQueue == Range(<<>>) = {}
BY DEF Range

LEMMA TakenQueue ==
  ASSUME NEW S, NEW q \in Seq(S), q # <<>>
  PROVE  /\ Head(q) \in S
         /\ Tail(q) \in Seq(S)
         /\ Range(Tail(q)) \subseteq S
         /\ Range(q) = {Head(q)} \cup Range(Tail(q))
<1>1. /\ Head(q) \in S /\ Head(q) = q[1]
      /\ Tail(q) \in Seq(S)
      /\ Len(q) \in Nat \ {0}
      /\ Len(Tail(q)) = Len(q) - 1
      /\ \A i \in 1..Len(Tail(q)) : Tail(q)[i] = q[i + 1]
  BY HeadTailProperties
<1>2. /\ Range(q) = {q[i] : i \in 1..Len(q)}
      /\ Range(Tail(q)) = {Tail(q)[i] : i \in 1..Len(Tail(q))}
      /\ Range(Tail(q)) \subseteq S
  BY <1>1, RangeEquality, RangeOfSeq
<1>3. Range(q) \subseteq {Head(q)} \cup Range(Tail(q))
  <2> SUFFICES ASSUME NEW i \in 1..Len(q), i # 1
               PROVE  q[i] \in Range(Tail(q))
    BY <1>1, <1>2
  <2>1. i - 1 \in 1..Len(Tail(q)) /\ (i - 1) + 1 = i
    BY <1>1
  <2> QED
    BY <1>1, <1>2, <2>1
<1>4. Range(Tail(q)) \subseteq Range(q)
  <2> SUFFICES ASSUME NEW i \in 1..Len(Tail(q))
               PROVE  q[i + 1] \in Range(q)
    BY <1>1, <1>2
  <2> QED
    BY <1>1, <1>2
<1>5. Head(q) \in Range(q)
  BY <1>1, <1>2
<1> QED
  BY <1>1, <1>2, <1>3, <1>4, <1>5

LEMMA LongerQueue ==
  ASSUME NEW S, NEW q \in Seq(S), NEW e \in S
  PROVE  /\ Append(q, e) \in Seq(S)
         /\ Range(Append(q, e)) = Range(q) \cup {e}
<1>1. /\ Append(q, e) \in Seq(S)
      /\ Len(Append(q, e)) = Len(q) + 1
      /\ \A i \in 1..Len(q) : Append(q, e)[i] = q[i]
      /\ Append(q, e)[Len(q) + 1] = e
      /\ Len(q) \in Nat
  BY AppendProperties, LenProperties
<1>2. /\ Range(q) = {q[i] : i \in 1..Len(q)}
      /\ Range(Append(q, e)) = {Append(q, e)[i] : i \in 1..Len(Append(q, e))}
  BY <1>1, RangeEquality
<1>3. 1..Len(Append(q, e)) = 1..Len(q) \cup {Len(q) + 1}
  BY <1>1
<1> QED
  BY <1>1, <1>2, <1>3

\* Requests are numbered in the order in which they wait.
InOrder(q) == \A i, j \in DOMAIN q : i < j => q[i].request < q[j].request

LEMMA TakenInOrder ==
  ASSUME NEW S, NEW q \in Seq(S), q # <<>>, InOrder(q)
  PROVE  /\ InOrder(Tail(q))
         /\ \A e \in Range(Tail(q)) : Head(q).request < e.request
<1>1. /\ Head(q) = q[1]
      /\ Tail(q) \in Seq(S)
      /\ Len(q) \in Nat \ {0}
      /\ Len(Tail(q)) = Len(q) - 1
      /\ \A i \in 1..Len(Tail(q)) : Tail(q)[i] = q[i + 1]
  BY HeadTailProperties
<1>2. /\ DOMAIN q = 1..Len(q)
      /\ DOMAIN Tail(q) = 1..Len(Tail(q))
  BY <1>1, LenProperties
<1>3. ASSUME NEW i \in DOMAIN Tail(q)
      PROVE  /\ i + 1 \in DOMAIN q /\ 1 \in DOMAIN q /\ 1 < i + 1
             /\ Tail(q)[i] = q[i + 1]
  BY <1>1, <1>2
<1>4. InOrder(Tail(q))
  <2> SUFFICES ASSUME NEW i \in DOMAIN Tail(q), NEW j \in DOMAIN Tail(q), i < j
               PROVE  q[i + 1].request < q[j + 1].request
    BY <1>3 DEF InOrder
  <2>1. i + 1 < j + 1
    BY <1>1, <1>2
  <2> QED
    BY <2>1, <1>3 DEF InOrder
<1>5. ASSUME NEW i \in DOMAIN Tail(q)
      PROVE  Head(q).request < Tail(q)[i].request
  BY <1>1, <1>3 DEF InOrder
<1> QED
  BY <1>4, <1>5 DEF Range

LEMMA LongerInOrder ==
  ASSUME NEW S, NEW q \in Seq(S), NEW e \in S, InOrder(q),
         \A a \in Range(q) : a.request < e.request
  PROVE  InOrder(Append(q, e))
<1>1. /\ Len(Append(q, e)) = Len(q) + 1
      /\ \A i \in 1..Len(q) : Append(q, e)[i] = q[i]
      /\ Append(q, e)[Len(q) + 1] = e
      /\ Len(q) \in Nat
      /\ DOMAIN Append(q, e) = 1..Len(Append(q, e))
      /\ DOMAIN q = 1..Len(q)
  BY AppendProperties, LenProperties
<1> SUFFICES ASSUME NEW i \in DOMAIN Append(q, e), NEW j \in DOMAIN Append(q, e),
                    i < j
             PROVE  Append(q, e)[i].request < Append(q, e)[j].request
  BY DEF InOrder
<1>2. i \in DOMAIN q
  BY <1>1
<1>3. CASE j \in DOMAIN q
  BY <1>1, <1>2, <1>3 DEF InOrder
<1>4. CASE j \notin DOMAIN q
  <2>1. j = Len(q) + 1
    BY <1>1, <1>4
  <2>2. q[i] \in Range(q)
    BY <1>2 DEF Range
  <2> QED
    BY <1>1, <1>2, <2>1, <2>2
<1> QED
  BY <1>3, <1>4

-----------------------------------------------------------------------------
(* The strengthened invariant: what is on its way between the store and the *)
(* worker. Requests are numbered as they are sent, handled and answered in  *)
(* order, and one change is pending at a time, so an answer says what the   *)
(* registry still holds when the store receives it.                         *)

\* Every request is answered after those sent before it.
RequestsInOrder ==
  /\ InOrder(events) /\ InOrder(commands)
  /\ \A e \in Range(events), c \in Range(commands) : e.request < c.request
  /\ \A a \in Range(events) \cup Range(commands) : a.request <= lastRequest

IsOrder(c) == c.type \in {"load", "register", "remove"}

\* What the store does once the command is answered.
IsFollowedBy(c, next) ==
  \/ c.type = "load" /\ next.do = "restore"
  \/ c.type = "register" /\ next.do = "select"
  \/ /\ c.type = "remove" /\ next.do = "remove"
     /\ next.kind = c.kind /\ next.id = c.id

\* A change takes no theme from the catalog but the one it removes.
KeepsAdvertised(next, old, new) ==
  \A k \in Kind :
    old[k] \ (IF next.do = "remove" /\ next.kind = k THEN {next.id} ELSE {})
      \subseteq new[k]

\* Commands and answers that are on their way belong to the pending change,
\* and the answer holds what the registry holds.
OneChange ==
  /\ \A c \in Range(commands) : IsOrder(c) =>
       /\ change # None /\ c.request = change.request
       /\ IsFollowedBy(c, change.next)
  /\ \A e \in Range(events) : e.type = "changed" =>
       /\ change # None /\ e.request = change.request
       /\ e.state = custom
       /\ KeepsAdvertised(change.next, catalog, Advertised(custom))

\* A pending change will be answered.
ChangeIsPending ==
  change # None =>
    \/ \E c \in Range(commands) : IsOrder(c) /\ c.request = change.request
    \/ \E e \in Range(events) : /\ e.type \in {"changed", "error"}
                                /\ e.request = change.request

\* The store edits nothing while it reads the file or a change is pending.
SavingMeansPending ==
  /\ saving <=> change # None \/ phase = "reading"
  /\ phase = "restoring" <=> change # None /\ change.next.do = "restore"
  /\ phase \in {"starting", "reading"} => change = None

\* Only a worker that has just started reports that it is ready.
StartsOnce ==
  /\ phase = "starting" => commands = <<>> /\ events = << Ready >>
  /\ phase # "starting" => \A e \in Range(events) : e.type # "ready"

NoAnswer == \A e \in Range(events) : e.type # "changed"

InFile == custom = IF file = None THEN Empty ELSE file

\* What the registry holds is in an answer, in the last save or in the file,
\* unless a write or the restore has failed.
RegistryIsKept ==
  NoAnswer =>
    \/ /\ phase \in {"starting", "reading", "restoring"}
       /\ custom = Empty /\ saves = <<>>
    \/ /\ phase \in {"running", "refused"}
       /\ saves # <<>> /\ custom = saves[Len(saves)]
    \/ /\ phase \in {"running", "refused"}
       /\ saves = <<>> /\ (unsaved \/ InFile)

\* The presentation the store waits for will be answered.
ShowingIsPending ==
  showing # 0 =>
    \/ \E c \in Range(commands) : c.type = "present" /\ c.request = showing
    \/ \E e \in Range(events) : /\ e.type \in {"presentation", "error"}
                                /\ e.request = showing

CatalogFollows == phase # "starting" /\ NoAnswer => catalog = Advertised(custom)

\* The catalog the store has when it receives the event e.
CatalogAt(e) ==
  IF \E a \in Range(events) : a.type = "changed" /\ a.request < e.request
  THEN Advertised(custom) ELSE catalog

PresentationsExist ==
  \A e \in Range(events) : e.type = "presentation" =>
    \A k \in Kind : e.themes[k].id \in CatalogAt(e)[k]

ShownFollows ==
  phase # "starting" /\ showing = 0 /\ ~declined => IsAdvertised(catalog, Shown)

IInv ==
  /\ TypeOK /\ RequestsInOrder
  /\ OneChange /\ ChangeIsPending /\ SavingMeansPending
  /\ StartsOnce /\ RegistryIsKept
  /\ ShowingIsPending /\ CatalogFollows /\ PresentationsExist /\ ShownFollows

-----------------------------------------------------------------------------
(* What a step does to the queues.                                         *)

LEMMA QueueTypes ==
  ASSUME TypeOK
  PROVE  /\ Range(events) \subseteq Event
         /\ Range(commands) \subseteq Command
         /\ \A a \in Range(events) \cup Range(commands) : a.request \in Nat
         /\ lastRequest \in Nat
<1>1. Range(events) \subseteq Event /\ Range(commands) \subseteq Command
  BY RangeOfSeq DEF TypeOK
<1>2. \A e \in Event : e.request \in Nat
  BY DEF Event
<1>3. \A c \in Command : c.request \in Nat
  BY DEF Command
<1> QED
  BY <1>1, <1>2, <1>3 DEF TypeOK

\* The worker takes the first command and answers it.
LEMMA HandledQueue ==
  ASSUME TypeOK, RequestsInOrder, commands # <<>>, commands' = Tail(commands),
         NEW a \in Event, a.request = Head(commands).request,
         events' = Append(events, a), lastRequest' = lastRequest
  PROVE  /\ RequestsInOrder'
         /\ Range(commands) = {Head(commands)} \cup Range(commands')
         /\ Range(events') = Range(events) \cup {a}
         /\ \A e \in Range(events) : e.request < a.request
<1> DEFINE c == Head(commands)
<1>1. /\ Range(commands) = {c} \cup Range(commands')
      /\ InOrder(commands')
      /\ \A d \in Range(commands') : c.request < d.request
  BY TakenQueue, TakenInOrder DEF TypeOK, RequestsInOrder
<1>2. \A e \in Range(events) : e.request < a.request
  BY <1>1 DEF RequestsInOrder
<1>3. Range(events') = Range(events) \cup {a}
  BY LongerQueue DEF TypeOK
<1>4. InOrder(events')
  BY <1>2, LongerInOrder DEF TypeOK, RequestsInOrder
<1>5. \A e \in Range(events'), d \in Range(commands') : e.request < d.request
  BY <1>1, <1>3 DEF RequestsInOrder
<1>6. \A b \in Range(events') \cup Range(commands') : b.request <= lastRequest'
  BY <1>1, <1>3 DEF RequestsInOrder
<1> QED
  BY <1>1, <1>2, <1>3, <1>4, <1>5, <1>6 DEF RequestsInOrder

\* The store takes the first event.
LEMMA ReceivedQueue ==
  ASSUME TypeOK, RequestsInOrder, events # <<>>, events' = Tail(events)
  PROVE  /\ Head(events) \in Event
         /\ Range(events) = {Head(events)} \cup Range(events')
         /\ InOrder(events')
         /\ \A e \in Range(events') : Head(events).request < e.request
         /\ \A c \in Range(commands) : Head(events).request < c.request
<1>1. /\ Range(events) = {Head(events)} \cup Range(events')
      /\ Head(events) \in Event
  BY TakenQueue DEF TypeOK
<1>2. /\ InOrder(events')
      /\ \A e \in Range(events') : Head(events).request < e.request
  BY TakenInOrder DEF TypeOK, RequestsInOrder
<1> QED
  BY <1>1, <1>2 DEF RequestsInOrder

\* The store sends a command.
LEMMA SentQueue ==
  ASSUME TypeOK, RequestsInOrder,
         NEW c \in Command, c.request = lastRequest + 1, Send(c)
  PROVE  /\ Range(commands') = Range(commands) \cup {c}
         /\ InOrder(commands')
         /\ \A e \in Range(events) : e.request < c.request
         /\ \A d \in Range(commands') : d.request <= lastRequest'
         /\ lastRequest' = lastRequest + 1
<1>1. Range(commands') = Range(commands) \cup {c} /\ lastRequest' = lastRequest + 1
  BY LongerQueue DEF TypeOK, Send
<1>2. \A a \in Range(events) \cup Range(commands) :
        a.request <= lastRequest /\ a.request < c.request
  BY QueueTypes DEF RequestsInOrder
<1>3. InOrder(commands')
  BY <1>2, LongerInOrder DEF TypeOK, Send, RequestsInOrder
<1>4. \A d \in Range(commands) : d.request <= lastRequest + 1
  BY <1>2, QueueTypes
<1>5. c.request <= lastRequest + 1
  BY QueueTypes
<1> QED
  BY <1>1, <1>2, <1>3, <1>4, <1>5

\* What selectBoardPresentation and its callers do to the queue: nothing, or
\* they ask for a presentation and wait for it.
Asked ==
  \/ UNCHANGED <<commands, showing, lastRequest>>
  \/ \E c \in Command : /\ c.type = "present" /\ c.request = lastRequest + 1
                        /\ Send(c) /\ showing' = c.request

LEMMA SelectAsks ==
  ASSUME TypeOK, NEW cat, NEW sel \in Selection, Select(cat, sel)
  PROVE  /\ Asked
         /\ IsAdvertised(cat, sel) => sel = Shown \/ showing' = lastRequest + 1
<1>1. CASE UNCHANGED <<commands, showing, lastRequest, preference>>
           /\ ~IsAdvertised(cat, sel)
  BY <1>1 DEF Asked
<1>2. CASE Remember(sel) /\ sel = Shown
  BY <1>2 DEF Asked, Remember
<1>3. ASSUME Send([type |-> "present", request |-> lastRequest + 1,
                   selection |-> sel]),
             showing' = lastRequest + 1
      PROVE  Asked
  <2>1. [type |-> "present", request |-> lastRequest + 1, selection |-> sel]
          \in Command
    BY DEF Command, TypeOK
  <2> QED
    BY <1>3, <2>1 DEF Asked
<1> QED
  BY <1>1, <1>2, <1>3 DEF Select

LEMMA RestoreAsks ==
  ASSUME TypeOK, NEW cat, RestorePreference(cat)
  PROVE  Asked
<1> DEFINE sel == IF preference = None THEN Shown ELSE preference
<1>1. sel \in Selection
  BY ShownType DEF TypeOK
<1>2. CASE Select(cat, sel)
  BY <1>1, <1>2, SelectAsks
<1>3. CASE Remember(Shown)
  BY <1>3 DEF Remember, Asked
<1> QED
  BY <1>2, <1>3 DEF RestorePreference

\* After a removal the default of the kind is asked for, when what is shown of
\* the other kind is still advertised.
LEMMA FollowUpAsks ==
  ASSUME TypeOK, NEW next \in FollowUps, NEW cat, FollowUp(next, cat)
  PROVE  /\ Asked
         /\ \/ next.do # "remove"
            \/ Shown[next.kind] # next.id
            \/ ~IsAdvertised(cat, [Shown EXCEPT ![next.kind] = Default[next.kind]])
            \/ [Shown EXCEPT ![next.kind] = Default[next.kind]] = Shown
            \/ showing' = lastRequest + 1
<1>1. ASSUME next.do = "select",
             Select(cat, [j \in Kind |->
               IF j = next.kind THEN next.id
               ELSE IF Shown[j] \in cat[j] THEN Shown[j] ELSE Default[j]])
      PROVE  Asked
  <2>1. next.id \in Id
    BY <1>1 DEF FollowUps
  <2>2. [j \in Kind |->
           IF j = next.kind THEN next.id
           ELSE IF Shown[j] \in cat[j] THEN Shown[j] ELSE Default[j]]
          \in Selection
    BY <2>1, ShownType, DefaultType DEF Selection
  <2> QED
    BY <1>1, <2>2, SelectAsks
<1>2. ASSUME next.do = "remove",
             Select(cat, [Shown EXCEPT ![next.kind] = Default[next.kind]])
      PROVE  /\ Asked
             /\ IsAdvertised(cat, [Shown EXCEPT ![next.kind] = Default[next.kind]])
                => \/ [Shown EXCEPT ![next.kind] = Default[next.kind]] = Shown
                   \/ showing' = lastRequest + 1
  <2>1. next.kind \in Kind
    BY <1>2 DEF FollowUps
  <2>2. [Shown EXCEPT ![next.kind] = Default[next.kind]] \in Selection
    BY <2>1, ShownType, DefaultType DEF Selection
  <2> QED
    BY <1>2, <2>2, SelectAsks
<1>3. CASE UNCHANGED <<commands, showing, lastRequest, preference>>
           /\ Shown[next.kind] # next.id
  BY <1>3 DEF Asked
<1>4. CASE next.do = "restore" /\ RestorePreference(cat)
  BY <1>4, RestoreAsks
<1> QED
  BY <1>1, <1>2, <1>3, <1>4 DEF FollowUp

\* Whatever was asked, requests stay in order, no order of a change is added,
\* and the presentation the store waits for is on its way or was before.
LEMMA AskedQueue ==
  ASSUME TypeOK, RequestsInOrder, Asked
  PROVE  /\ InOrder(commands')
         /\ Range(commands) \subseteq Range(commands')
         /\ \A c \in Range(commands') :
              c \in Range(commands) \/ c.type = "present"
         /\ \A e \in Range(events), c \in Range(commands') : e.request < c.request
         /\ \A a \in Range(events) \cup Range(commands') : a.request <= lastRequest'
         /\ \/ showing' = showing
            \/ \E c \in Range(commands') :
                 c.type = "present" /\ c.request = showing'
         /\ showing' = showing \/ showing' # 0
<1>1. CASE UNCHANGED <<commands, showing, lastRequest>>
  BY <1>1 DEF RequestsInOrder
<1>2. ASSUME NEW c \in Command, c.type = "present",
             c.request = lastRequest + 1, Send(c), showing' = c.request
      PROVE  /\ InOrder(commands')
             /\ Range(commands) \subseteq Range(commands')
             /\ \A d \in Range(commands') :
                  d \in Range(commands) \/ d.type = "present"
             /\ \A e \in Range(events), d \in Range(commands') :
                  e.request < d.request
             /\ \A a \in Range(events) \cup Range(commands') :
                  a.request <= lastRequest'
             /\ \E d \in Range(commands') :
                  d.type = "present" /\ d.request = showing'
             /\ showing' # 0
  <2>1. /\ Range(commands') = Range(commands) \cup {c}
        /\ InOrder(commands')
        /\ \A e \in Range(events) : e.request < c.request
        /\ \A d \in Range(commands') : d.request <= lastRequest'
        /\ lastRequest' = lastRequest + 1
    BY <1>2, SentQueue
  <2>2. \A e \in Range(events), d \in Range(commands') : e.request < d.request
    BY <2>1 DEF RequestsInOrder
  <2>3. \A e \in Range(events) : e.request <= lastRequest + 1
    BY QueueTypes DEF RequestsInOrder
  <2>4. c.request # 0
    BY <1>2, QueueTypes
  <2> QED
    BY <1>2, <2>1, <2>2, <2>3, <2>4
<1> QED
  BY <1>1, <1>2 DEF Asked

-----------------------------------------------------------------------------
(* The worker preserves the strengthened invariant.                        *)

\* A presentation that can be drawn has themes that are advertised.
LEMMA DrawnIsAdvertised ==
  ASSUME TypeOK, NEW sel \in Selection, CanDraw(sel), NEW k \in Kind
  PROVE  Drawn(k, sel[k]).id \in Advertised(custom)[k]
<1>1. CASE Registered(k, sel[k]) = {}
  <2>1. Drawn(k, sel[k]).base = sel[k] /\ Drawn(k, sel[k]).id = sel[k]
    BY <1>1 DEF Drawn, Plain
  <2> QED
    BY <2>1 DEF CanDraw, Advertised
<1>2. CASE Registered(k, sel[k]) # {}
  <2> DEFINE t == CHOOSE t \in Registered(k, sel[k]) : TRUE
  <2>1. t \in Registered(k, sel[k])
    BY <1>2
  <2>2. t.id = sel[k] /\ sel[k] \in Ids(custom[k])
    BY <2>1 DEF Registered, Ids
  <2>3. Drawn(k, sel[k]) = Painted(Plain(t.base), t)
    BY <1>2 DEF Drawn
  <2> HIDE DEF t
  <2>4. Drawn(k, sel[k]).id = t.id
    BY <2>3 DEF Painted, Plain
  <2> QED
    BY <2>2, <2>4 DEF Advertised
<1> QED
  BY <1>1, <1>2

\* The answer to an order of a change finds no other on its way.
LEMMA OneAnswer ==
  ASSUME IInv, commands # <<>>, IsOrder(Head(commands))
  PROVE  /\ NoAnswer
         /\ change # None /\ Head(commands).request = change.request
         /\ IsFollowedBy(Head(commands), change.next)
         /\ catalog = Advertised(custom)
<1>1. Head(commands) \in Range(commands)
  BY TakenQueue DEF IInv, TypeOK
<1>2. /\ change # None /\ Head(commands).request = change.request
      /\ IsFollowedBy(Head(commands), change.next)
  BY <1>1 DEF IInv, OneChange
<1>3. ASSUME NEW e \in Range(events), e.type = "changed"
      PROVE  FALSE
  <2>1. e.request = change.request
    BY <1>3 DEF IInv, OneChange
  <2>2. e.request < Head(commands).request
    BY <1>1 DEF IInv, RequestsInOrder
  <2>3. e.request \in Nat
    BY QueueTypes DEF IInv
  <2> QED
    BY <1>2, <2>1, <2>2, <2>3
<1>4. phase # "starting"
  BY DEF IInv, StartsOnce
<1> QED
  BY <1>2, <1>3, <1>4 DEF NoAnswer, IInv, CatalogFollows

\* Registering keeps every identifier, removing all but one, and a state is
\* loaded into an empty registry.
LEMMA RegisterAdvertises ==
  ASSUME TypeOK, NEW k \in Kind, NEW t \in Theme, NEW j \in Kind
  PROVE  Advertised(custom)[j] \subseteq Advertised(With(k, t))[j]
<1>1. custom \in [Kind -> SUBSET Theme]
  BY DEF TypeOK, LoadableState, State
<1>2. /\ With(k, t)[k] = (custom[k] \ Registered(k, t.id)) \cup {t}
      /\ j # k => With(k, t)[j] = custom[j]
  BY <1>1 DEF With
<1>3. Ids(custom[k]) \subseteq Ids(With(k, t)[k])
  BY <1>2 DEF Ids, Registered
<1> QED
  BY <1>2, <1>3 DEF Advertised

LEMMA RemoveAdvertises ==
  ASSUME TypeOK, NEW k \in Kind, NEW id \in Id, NEW j \in Kind
  PROVE  Advertised(custom)[j] \ (IF k = j THEN {id} ELSE {})
           \subseteq Advertised(Without(k, id))[j]
<1>1. custom \in [Kind -> SUBSET Theme]
  BY DEF TypeOK, LoadableState, State
<1>2. /\ Without(k, id)[k] = custom[k] \ Registered(k, id)
      /\ j # k => Without(k, id)[j] = custom[j]
  BY <1>1 DEF Without
<1>3. Ids(custom[k]) \ {id} \subseteq Ids(Without(k, id)[k])
  BY <1>2 DEF Ids, Registered
<1> QED
  BY <1>2, <1>3 DEF Advertised

\* What each answer says.
IsAnswer(a) ==
  \/ a.type = "error" /\ custom' = custom
  \/ /\ a.type = "presentation" /\ custom' = custom
     /\ Head(commands).type = "present"
     /\ \A k \in Kind : a.themes[k].id \in Advertised(custom)[k]
  \/ /\ a.type = "changed" /\ IsOrder(Head(commands))
     /\ a.state = custom'
     /\ KeepsAdvertised(change.next, Advertised(custom), Advertised(custom'))

LEMMA HandleAnswers ==
  ASSUME IInv, Handle
  PROVE  \E a \in Event : /\ a.request = Head(commands).request
                          /\ events' = Append(events, a)
                          /\ IsAnswer(a)
<1> DEFINE c == Head(commands)
<1> USE DEF IInv
<1>1. c \in Command /\ c.request \in Nat /\ commands # <<>>
  BY DEF Handle, TypeOK, Command
<1>2. Error(c) \in Event /\ Error(c).request = c.request /\ Error(c).type = "error"
  BY <1>1 DEF Error, Event
<1>3. ASSUME NEW accepted, NEW state \in State,
             accepted => state \in LoadableState,
             Settle(c, accepted, state), IsOrder(c),
             KeepsAdvertised(change.next, Advertised(custom), Advertised(state))
      PROVE  \E a \in Event : /\ a.request = c.request
                              /\ events' = Append(events, a)
                              /\ IsAnswer(a)
  <2>1. CASE accepted
    <3>1. /\ Changed(c, state) \in Event
          /\ Changed(c, state).request = c.request
          /\ Changed(c, state).type = "changed"
          /\ Changed(c, state).state = state
      BY <1>1, <1>3, <2>1 DEF Changed, Event
    <3>2. custom' = state /\ events' = Append(events, Changed(c, state))
      BY <1>3, <2>1 DEF Settle
    <3>3. IsAnswer(Changed(c, state))
      BY <1>3, <3>1, <3>2 DEF IsAnswer
    <3> QED
      BY <3>1, <3>2, <3>3
  <2>2. CASE ~accepted
    <3>1. custom' = custom /\ events' = Append(events, Error(c))
      BY <1>3, <2>2 DEF Settle
    <3> QED
      BY <1>2, <3>1 DEF IsAnswer
  <2> QED
    BY <2>1, <2>2
<1>4. CASE LoadBoardCustomizationState(c)
  <2>1. c.state \in State /\ c.type = "load" /\ IsOrder(c)
    BY <1>1, <1>4 DEF LoadBoardCustomizationState, Command, IsOrder
  <2>2. NoAnswer /\ change # None /\ change.next.do = "restore"
    BY <1>1, <2>1, OneAnswer DEF IsFollowedBy
  <2>3. custom = Empty
    BY <2>2 DEF SavingMeansPending, RegistryIsKept
  <2>4. KeepsAdvertised(change.next, Advertised(custom), Advertised(c.state))
    BY <2>3 DEF KeepsAdvertised, Advertised, Empty, Ids
  <2>5. Settle(c, IsLoadable(c.state), c.state)
    BY <1>4 DEF LoadBoardCustomizationState
  <2> QED
    BY <1>3, <2>1, <2>4, <2>5 DEF LoadableState
<1>5. CASE RegisterCustomTheme(c)
  <2> DEFINE ok == IsAcceptable(c.kind, c.theme) /\ HasRoom(c.kind, c.theme.id)
  <2>1. c.kind \in Kind /\ c.theme \in Theme /\ c.type = "register" /\ IsOrder(c)
    BY <1>1, <1>5 DEF RegisterCustomTheme, Command, IsOrder
  <2>2. ok => With(c.kind, c.theme) \in LoadableState
    BY <2>1, RegisterKeepsLoadable DEF TypeOK
  <2>3. KeepsAdvertised(change.next, Advertised(custom),
                        Advertised(With(c.kind, c.theme)))
    BY <2>1, RegisterAdvertises DEF KeepsAdvertised
  <2>4. Settle(c, ok, With(c.kind, c.theme))
    BY <1>5 DEF RegisterCustomTheme
  <2>5. CASE ok
    BY <1>3, <2>1, <2>2, <2>3, <2>4, <2>5 DEF LoadableState
  <2>6. CASE ~ok
    BY <1>2, <2>4, <2>6 DEF Settle, IsAnswer
  <2> QED
    BY <2>5, <2>6
<1>6. CASE RemoveCustomTheme(c)
  <2>1. c.kind \in Kind /\ c.id \in Id /\ c.type = "remove" /\ IsOrder(c)
    BY <1>1, <1>6 DEF RemoveCustomTheme, Command, IsOrder
  <2>2. Without(c.kind, c.id) \in LoadableState
    BY <2>1, RemoveKeepsLoadable DEF TypeOK
  <2>3. change.next.do = "remove" /\ change.next.kind = c.kind /\ change.next.id = c.id
    BY <1>1, <2>1, OneAnswer DEF IsFollowedBy
  <2>4. KeepsAdvertised(change.next, Advertised(custom),
                        Advertised(Without(c.kind, c.id)))
    BY <2>1, <2>3, RemoveAdvertises DEF KeepsAdvertised
  <2>5. Settle(c, Registered(c.kind, c.id) # {}, Without(c.kind, c.id))
    BY <1>6 DEF RemoveCustomTheme
  <2> QED
    BY <1>3, <2>1, <2>2, <2>4, <2>5 DEF LoadableState
<1>7. CASE LoadBoardPresentation(c)
  <2>1. c.selection \in Selection /\ c.type = "present" /\ custom' = custom
    BY <1>1, <1>7 DEF LoadBoardPresentation, Command
  <2> DEFINE themes == [k \in Kind |-> Drawn(k, c.selection[k])]
             p == [type |-> "presentation", request |-> c.request,
                   themes |-> themes]
  <2>2. CASE CanDraw(c.selection)
    <3>1. themes \in [Kind -> Style]
      BY <2>1, DrawnType DEF TypeOK, Selection
    <3>2. \A k \in Kind : themes[k].id \in Advertised(custom)[k]
      BY <2>1, <2>2, DrawnIsAdvertised
    <3>3. events' = Append(events, p)
      BY <1>7, <2>2 DEF LoadBoardPresentation
    <3> HIDE DEF themes
    <3>4. p \in Event /\ p.request = c.request /\ p.type = "presentation"
          /\ p.themes = themes
      BY <1>1, <3>1 DEF Event
    <3> HIDE DEF p
    <3> QED
      BY <2>1, <3>2, <3>3, <3>4 DEF IsAnswer
  <2>3. CASE ~CanDraw(c.selection)
    <3>1. events' = Append(events, Error(c))
      BY <1>7, <2>3 DEF LoadBoardPresentation
    <3> QED
      BY <1>2, <2>1, <3>1 DEF IsAnswer
  <2> QED
    BY <2>2, <2>3
<1> QED
  BY <1>4, <1>5, <1>6, <1>7 DEF Handle

LEMMA HandleInv ==
  ASSUME IInv, Handle
  PROVE  IInv'
<1> DEFINE c == Head(commands)
<1>1. /\ commands # <<>> /\ commands' = Tail(commands)
      /\ UNCHANGED <<phase, catalog, shown, change, saving, showing, declined,
                     saves, file, preference, unsaved, lastRequest>>
  BY DEF Handle, disk
<1>2. PICK a \in Event : /\ a.request = c.request
                         /\ events' = Append(events, a)
                         /\ IsAnswer(a)
  BY HandleAnswers
<1>3. /\ RequestsInOrder'
      /\ Range(commands) = {c} \cup Range(commands')
      /\ Range(events') = Range(events) \cup {a}
      /\ \A e \in Range(events) : e.request < a.request
  BY <1>1, <1>2, HandledQueue DEF IInv
<1>4. TypeOK'
  BY HandleType DEF IInv
<1>5. phase # "starting" /\ phase' = phase
  BY <1>1 DEF IInv, StartsOnce
<1>6. ASSUME a.type = "changed"
      PROVE  /\ NoAnswer /\ catalog = Advertised(custom)
             /\ change # None /\ a.request = change.request
             /\ a.state = custom'
             /\ KeepsAdvertised(change.next, catalog, Advertised(custom'))
  <2>1. /\ IsOrder(c) /\ a.state = custom'
        /\ KeepsAdvertised(change.next, Advertised(custom), Advertised(custom'))
    BY <1>2, <1>6 DEF IsAnswer
  <2> QED
    BY <1>1, <1>2, <2>1, OneAnswer
<1>7. a.type # "changed" => custom' = custom
  BY <1>2 DEF IsAnswer
<1>8. IsOrder(c) => a.type \in {"changed", "error"} /\ a.request = change.request
  <2>1. c.type = "present" => ~IsOrder(c)
    BY DEF IsOrder
  <2>2. IsOrder(c) => c.request = change.request
    BY <1>1, OneAnswer
  <2> QED
    BY <1>2, <2>1, <2>2 DEF IsAnswer
<1>9. OneChange'
  <2>1. ASSUME NEW d \in Range(commands'), IsOrder(d)
        PROVE  /\ change' # None /\ d.request = change'.request
               /\ IsFollowedBy(d, change'.next)
    BY <1>1, <1>3, <2>1 DEF IInv, OneChange
  <2>2. ASSUME NEW e \in Range(events'), e.type = "changed"
        PROVE  /\ change' # None /\ e.request = change'.request
               /\ e.state = custom'
               /\ KeepsAdvertised(change'.next, catalog', Advertised(custom'))
    <3>1. CASE e = a
      BY <1>1, <1>6, <2>2, <3>1
    <3>2. CASE e # a
      <4>1. e \in Range(events)
        BY <1>3, <3>2
      <4>2. a.type # "changed"
        BY <1>6, <2>2, <4>1 DEF NoAnswer
      <4> QED
        BY <1>1, <1>7, <2>2, <4>1, <4>2 DEF IInv, OneChange
    <3> QED
      BY <3>1, <3>2
  <2> QED
    BY <2>1, <2>2 DEF OneChange
<1>10. ChangeIsPending'
  <2> SUFFICES ASSUME change # None
               PROVE  \/ \E d \in Range(commands') :
                           IsOrder(d) /\ d.request = change.request
                      \/ \E e \in Range(events') :
                           /\ e.type \in {"changed", "error"}
                           /\ e.request = change.request
    BY <1>1 DEF ChangeIsPending
  <2> QED
    BY <1>3, <1>8 DEF IInv, ChangeIsPending
<1>11. SavingMeansPending'
  BY <1>1 DEF IInv, SavingMeansPending
<1>12. StartsOnce'
  <2>1. a.type # "ready"
    BY <1>2 DEF IsAnswer
  <2> QED
    BY <1>3, <1>5, <2>1 DEF IInv, StartsOnce
<1>13. RegistryIsKept'
  <2> SUFFICES ASSUME NoAnswer' PROVE NoAnswer /\ custom' = custom
    BY <1>1 DEF IInv, RegistryIsKept, InFile
  <2>1. a.type # "changed" /\ NoAnswer
    BY <1>3 DEF NoAnswer
  <2> QED
    BY <1>7, <2>1
<1>14. ShowingIsPending'
  <2> SUFFICES ASSUME showing # 0
               PROVE  \/ \E d \in Range(commands') :
                           d.type = "present" /\ d.request = showing
                      \/ \E e \in Range(events') :
                           /\ e.type \in {"presentation", "error"}
                           /\ e.request = showing
    BY <1>1 DEF ShowingIsPending
  <2>1. c.type = "present" => a.type \in {"presentation", "error"}
    BY <1>2 DEF IsAnswer, IsOrder
  <2> QED
    BY <1>2, <1>3, <2>1 DEF IInv, ShowingIsPending
<1>15. CatalogFollows'
  <2> SUFFICES ASSUME NoAnswer' PROVE catalog = Advertised(custom')
    BY <1>1 DEF CatalogFollows
  <2>1. a.type # "changed" /\ NoAnswer
    BY <1>3 DEF NoAnswer
  <2> QED
    BY <1>5, <1>7, <2>1 DEF IInv, CatalogFollows
<1>16. PresentationsExist'
  <2> SUFFICES ASSUME NEW e \in Range(events'), e.type = "presentation",
                      NEW k \in Kind
               PROVE  e.themes[k].id \in CatalogAt(e)'[k]
    BY DEF PresentationsExist
  <2>1. CASE e \in Range(events) /\ a.type = "changed"
    <3>1. ~ \E b \in Range(events') : b.type = "changed" /\ b.request < e.request
      <4>1. ~(a.request < e.request)
        <5>1. e.request < a.request
          BY <1>3, <2>1
        <5>2. e.request \in Nat /\ a.request \in Nat
          BY <1>2, <2>1, QueueTypes DEF IInv, Event
        <5> QED
          BY <5>1, <5>2
      <4> QED
        BY <1>3, <1>6, <2>1, <4>1 DEF NoAnswer
    <3>2. CatalogAt(e)' = catalog
      BY <1>1, <3>1 DEF CatalogAt
    <3>3. CatalogAt(e) = catalog
      BY <1>6, <2>1 DEF CatalogAt, NoAnswer
    <3> QED
      BY <2>1, <3>2, <3>3 DEF IInv, PresentationsExist
  <2>2. CASE e \in Range(events) /\ a.type # "changed"
    <3>1. CatalogAt(e)' = CatalogAt(e)
      BY <1>1, <1>3, <1>7, <2>2 DEF CatalogAt
    <3> QED
      BY <2>2, <3>1 DEF IInv, PresentationsExist
  <2>3. CASE e \notin Range(events)
    <3>1. e = a
      BY <1>3, <2>3
    <3>2. e.themes[k].id \in Advertised(custom)[k] /\ custom' = custom
      BY <1>2, <3>1 DEF IsAnswer
    <3>3. CatalogAt(e)' = Advertised(custom)
      <4>1. CASE NoAnswer
        BY <1>1, <1>5, <3>2, <4>1 DEF CatalogAt, IInv, CatalogFollows
      <4>2. CASE ~NoAnswer
        BY <1>3, <3>1, <3>2, <4>2 DEF CatalogAt, NoAnswer
      <4> QED
        BY <4>1, <4>2
    <3> QED
      BY <3>2, <3>3
  <2> QED
    BY <2>1, <2>2, <2>3
<1>17. ShownFollows'
  BY <1>1 DEF IInv, ShownFollows, IsAdvertised, Shown
<1> QED
  BY <1>3, <1>4, <1>9, <1>10, <1>11, <1>12, <1>13, <1>14, <1>15, <1>16, <1>17
  DEF IInv

-----------------------------------------------------------------------------
(* The store preserves the strengthened invariant.                         *)

\* The conjuncts that speak of commands and events only.
QueueInv ==
  /\ RequestsInOrder /\ OneChange /\ ChangeIsPending /\ StartsOnce
  /\ ShowingIsPending /\ CatalogFollows /\ PresentationsExist /\ ShownFollows

\* A presentation is asked for while no event is received.
LEMMA AskedInv ==
  ASSUME IInv, Asked, phase # "starting", phase' # "starting",
         UNCHANGED <<custom, events, catalog, shown, declined, change>>
  PROVE  QueueInv'
<1>1. /\ InOrder(commands')
      /\ Range(commands) \subseteq Range(commands')
      /\ \A c \in Range(commands') : c \in Range(commands) \/ c.type = "present"
      /\ \A e \in Range(events), c \in Range(commands') : e.request < c.request
      /\ \A a \in Range(events) \cup Range(commands') : a.request <= lastRequest'
      /\ \/ showing' = showing
         \/ \E c \in Range(commands') : c.type = "present" /\ c.request = showing'
      /\ showing' = showing \/ showing' # 0
  BY AskedQueue DEF IInv
<1>2. RequestsInOrder'
  BY <1>1 DEF IInv, RequestsInOrder
<1>3. OneChange'
  BY <1>1 DEF IInv, OneChange, IsOrder
<1>4. ChangeIsPending'
  BY <1>1 DEF IInv, ChangeIsPending
<1>5. StartsOnce'
  BY DEF IInv, StartsOnce
<1>6. ShowingIsPending'
  BY <1>1 DEF IInv, ShowingIsPending
<1>7. CatalogFollows'
  BY DEF IInv, CatalogFollows, NoAnswer
<1>8. PresentationsExist'
  BY DEF IInv, PresentationsExist, CatalogAt
<1>9. ShownFollows'
  BY <1>1 DEF IInv, ShownFollows, IsAdvertised, Shown
<1> QED
  BY <1>2, <1>3, <1>4, <1>5, <1>6, <1>7, <1>8, <1>9 DEF QueueInv

\* A change is ordered while none is pending.
LEMMA OrderedInv ==
  ASSUME IInv, phase # "starting", phase' # "starting", change = None,
         NEW c \in Command, IsOrder(c), c.request = lastRequest + 1, Send(c),
         NEW next \in FollowUps, IsFollowedBy(c, next),
         change' = [request |-> c.request, next |-> next],
         UNCHANGED <<custom, events, catalog, shown, showing, declined>>
  PROVE  QueueInv' /\ NoAnswer
<1>1. /\ Range(commands') = Range(commands) \cup {c}
      /\ InOrder(commands')
      /\ \A e \in Range(events) : e.request < c.request
      /\ \A d \in Range(commands') : d.request <= lastRequest'
      /\ lastRequest' = lastRequest + 1
  BY SentQueue DEF IInv
<1>2. /\ \A d \in Range(commands) : ~IsOrder(d)
      /\ NoAnswer
  BY DEF IInv, OneChange, NoAnswer
<1>3. /\ change' # None
      /\ change'.request = c.request /\ change'.next = next
  <2>1. change' \in [request : Nat, next : FollowUps]
    BY DEF Command
  <2> QED
    BY <2>1, NoneAssumption
<1>4. RequestsInOrder'
  <2>1. \A e \in Range(events) : e.request <= lastRequest'
    BY <1>1, QueueTypes DEF IInv, RequestsInOrder
  <2> QED
    BY <1>1, <2>1 DEF IInv, RequestsInOrder
<1>5. OneChange'
  BY <1>1, <1>2, <1>3 DEF OneChange, NoAnswer
<1>6. ChangeIsPending'
  BY <1>1, <1>3 DEF ChangeIsPending
<1>7. StartsOnce'
  BY DEF IInv, StartsOnce
<1>8. ShowingIsPending'
  BY <1>1 DEF IInv, ShowingIsPending
<1>9. CatalogFollows'
  BY DEF IInv, CatalogFollows, NoAnswer
<1>10. PresentationsExist'
  BY DEF IInv, PresentationsExist, CatalogAt
<1>11. ShownFollows'
  BY DEF IInv, ShownFollows, IsAdvertised, Shown
<1> QED
  BY <1>2, <1>4, <1>5, <1>6, <1>7, <1>8, <1>9, <1>10, <1>11 DEF QueueInv

LEMMA BeginRestoreInv ==
  ASSUME IInv, BeginRestore
  PROVE  IInv'
<1>1. TypeOK'
  BY BeginRestoreType DEF IInv
<1>2. /\ UNCHANGED <<custom, events, catalog, shown, declined, saves, file>>
      /\ phase = "reading"
  BY DEF BeginRestore, ReadFile, NoFile, FileUnreadable
<1>3. change = None /\ NoAnswer
  BY <1>2 DEF IInv, SavingMeansPending, OneChange, NoAnswer
<1>4. custom = Empty /\ saves = <<>>
  BY <1>2, <1>3 DEF IInv, RegistryIsKept
<1>5. CASE ReadFile
  <2> DEFINE c == [type |-> "load", request |-> lastRequest + 1, state |-> file]
             next == [do |-> "restore"]
  <2>1. file \in State
    BY <1>5, ForeignAssumption DEF ReadFile, IInv, TypeOK, LoadableState
  <2>2. c \in Command /\ IsOrder(c) /\ c.request = lastRequest + 1
    BY <2>1 DEF Command, IInv, TypeOK, IsOrder
  <2>3. next \in FollowUps /\ IsFollowedBy(c, next)
    BY DEF FollowUps, IsFollowedBy
  <2>4. /\ Send(c) /\ change' = [request |-> c.request, next |-> next]
        /\ phase' = "restoring" /\ UNCHANGED <<showing, saving, unsaved>>
    BY <1>5 DEF ReadFile
  <2>5. next.do = "restore"
    OBVIOUS
  <2> HIDE DEF c, next
  <2>6. QueueInv'
    BY <1>2, <1>3, <2>2, <2>3, <2>4, OrderedInv
  <2>7. change' # None /\ change'.next = next
    <3>1. change' \in [request : Nat, next : FollowUps]
      BY <2>2, <2>3, <2>4 DEF Command
    <3> QED
      BY <2>4, <3>1, NoneAssumption
  <2>8. SavingMeansPending'
    BY <1>2, <2>4, <2>5, <2>7 DEF IInv, SavingMeansPending
  <2>9. RegistryIsKept'
    BY <1>2, <1>4, <2>4 DEF RegistryIsKept
  <2> QED
    BY <1>1, <2>6, <2>8, <2>9 DEF QueueInv, IInv
<1>6. ASSUME RestorePreference(catalog), phase' = "running", saving' = FALSE,
             change' = change, unsaved' \/ file = None
      PROVE  IInv'
  <2>1. Asked
    BY <1>6, RestoreAsks DEF IInv
  <2>2. QueueInv'
    BY <1>2, <1>6, <2>1, AskedInv
  <2>3. SavingMeansPending'
    BY <1>3, <1>6 DEF SavingMeansPending
  <2>4. RegistryIsKept'
    BY <1>2, <1>4, <1>6 DEF RegistryIsKept, InFile
  <2> QED
    BY <1>1, <2>2, <2>3, <2>4 DEF QueueInv, IInv
<1>7. CASE NoFile
  BY <1>6, <1>7 DEF NoFile
<1>8. CASE FileUnreadable
  BY <1>6, <1>8 DEF FileUnreadable
<1> QED
  BY <1>5, <1>7, <1>8 DEF BeginRestore

LEMMA UserInv ==
  ASSUME IInv, User
  PROVE  IInv'
<1>1. TypeOK'
  BY UserType DEF IInv
<1>2. ASSUME NEW k \in Kind, NEW id \in Id, UserSelects(k, id)
      PROVE  IInv'
  <2> DEFINE sel == [j \in Kind |->
                      IF j = k THEN id
                      ELSE IF Shown[j] \in catalog[j] THEN Shown[j]
                      ELSE Default[j]]
  <2>1. sel \in Selection
    BY ShownType, DefaultType DEF Selection, IInv
  <2>2. /\ Select(catalog, sel)
        /\ phase # "starting"
        /\ UNCHANGED <<custom, events, phase, catalog, shown, change, saving,
                       declined, saves, file, unsaved>>
    BY <1>2 DEF UserSelects, UserCommand
  <2> HIDE DEF sel
  <2>3. QueueInv'
    BY <2>1, <2>2, SelectAsks, AskedInv DEF IInv
  <2>4. SavingMeansPending' /\ RegistryIsKept'
    BY <2>2 DEF IInv, SavingMeansPending, RegistryIsKept, NoAnswer, InFile
  <2> QED
    BY <1>1, <2>3, <2>4 DEF QueueInv, IInv
<1>3. ASSUME NEW c \in Command, IsOrder(c), c.type # "load",
             c.request = lastRequest + 1,
             NEW next \in FollowUps, IsFollowedBy(c, next),
             BeginChange(c, next)
      PROVE  IInv'
  <2>1. /\ phase # "starting" /\ ~saving /\ Send(c)
        /\ change' = [request |-> c.request, next |-> next]
        /\ saving' = TRUE
        /\ UNCHANGED <<custom, events, phase, catalog, shown, showing,
                       declined, saves, file, unsaved>>
    BY <1>3 DEF BeginChange, UserCommand, disk
  <2>2. change = None /\ phase # "reading" /\ phase # "restoring"
    BY <2>1 DEF IInv, SavingMeansPending
  <2>3. QueueInv'
    BY <1>3, <2>1, <2>2, OrderedInv
  <2>4. change' # None /\ change'.next = next
    <3>1. change' \in [request : Nat, next : FollowUps]
      BY <2>1 DEF Command
    <3> QED
      BY <2>1, <3>1, NoneAssumption
  <2>5. next.do # "restore"
    BY <1>3 DEF IsFollowedBy
  <2>6. SavingMeansPending'
    BY <2>1, <2>2, <2>4, <2>5 DEF SavingMeansPending
  <2>7. RegistryIsKept'
    BY <2>1 DEF IInv, RegistryIsKept, NoAnswer, InFile
  <2> QED
    BY <1>1, <2>3, <2>6, <2>7 DEF QueueInv, IInv
<1>4. ASSUME NEW k \in Kind, NEW id \in Id, UserRemoves(k, id)
      PROVE  IInv'
  <2> DEFINE c == [type |-> "remove", request |-> lastRequest + 1,
                   kind |-> k, id |-> id]
             next == [do |-> "remove", kind |-> k, id |-> id]
  <2>1. c \in Command /\ next \in FollowUps /\ IsFollowedBy(c, next)
    BY DEF Command, FollowUps, IInv, TypeOK, IsFollowedBy
  <2>2. c.request = lastRequest + 1 /\ IsOrder(c) /\ c.type # "load"
    BY DEF IsOrder
  <2>3. BeginChange(c, next)
    BY <1>4 DEF UserRemoves
  <2> HIDE DEF c, next
  <2> QED
    BY <1>3, <2>1, <2>2, <2>3
<1>5. ASSUME NEW d \in Draft, UserRegisters(d)
      PROVE  IInv'
  <2> DEFINE c == [type |-> "register", request |-> lastRequest + 1,
                   kind |-> d.kind, theme |-> d.theme]
             next == [do |-> "select", kind |-> d.kind, id |-> d.theme.id]
  <2>1. d.kind \in Kind /\ d.theme \in Theme /\ d.theme.id \in Id
    BY DraftAssumption DEF Theme
  <2>2. c \in Command /\ next \in FollowUps /\ IsFollowedBy(c, next)
    BY <2>1 DEF Command, FollowUps, IInv, TypeOK, IsFollowedBy
  <2>3. c.request = lastRequest + 1 /\ IsOrder(c) /\ c.type # "load"
    BY DEF IsOrder
  <2>4. BeginChange(c, next)
    BY <1>5 DEF UserRegisters
  <2> HIDE DEF c, next
  <2> QED
    BY <1>3, <2>2, <2>3, <2>4
<1> QED
  BY <1>2, <1>4, <1>5 DEF User

LEMMA SaveInv ==
  ASSUME IInv, Save
  PROVE  IInv'
<1>1. TypeOK'
  BY SaveType DEF IInv
<1>2. PICK i \in DueSaves, ok \in BOOLEAN :
        /\ saves' = [j \in 1..(Len(saves) - 1) |->
                       IF j < i THEN saves[j] ELSE saves[j + 1]]
        /\ file' = IF ok THEN saves[i] ELSE file
        /\ unsaved' = ~ok
        /\ UNCHANGED <<worker, phase, catalog, shown, change, saving, showing,
                       declined, preference, lastRequest, bounds>>
  BY DEF Save
<1>3. /\ UNCHANGED <<custom, commands, events, phase, catalog, shown, change,
                     saving, showing, declined, lastRequest>>
      /\ i = 1 /\ 1 \in DOMAIN saves
  BY <1>2 DEF worker, DueSaves
<1>4. /\ Len(saves) \in Nat /\ Len(saves) >= 1 /\ saves # <<>>
      /\ saves[1] # None
  <2>1. DOMAIN saves = 1..Len(saves) /\ Len(saves) \in Nat
    BY LenProperties DEF IInv, TypeOK
  <2>2. saves[1] \in State
    BY <1>3, ElementOfSeq, <2>1 DEF IInv, TypeOK, LoadableState
  <2> QED
    BY <1>3, <2>1, <2>2, NoneAssumption
<1>5. QueueInv'
  BY <1>3 DEF IInv, QueueInv, RequestsInOrder, OneChange, ChangeIsPending,
     StartsOnce, ShowingIsPending, CatalogFollows, PresentationsExist,
     ShownFollows, NoAnswer, CatalogAt, Shown
<1>6. SavingMeansPending'
  BY <1>3 DEF IInv, SavingMeansPending
<1>7. RegistryIsKept'
  <2> SUFFICES ASSUME NoAnswer
               PROVE  /\ phase \in {"running", "refused"}
                      /\ \/ saves' # <<>> /\ custom = saves'[Len(saves')]
                         \/ saves' = <<>> /\ (unsaved' \/ InFile')
    BY <1>3 DEF RegistryIsKept, NoAnswer
  <2>1. phase \in {"running", "refused"} /\ custom = saves[Len(saves)]
    BY <1>4 DEF IInv, RegistryIsKept
  <2>2. saves' = [j \in 1..(Len(saves) - 1) |-> saves[j + 1]]
    BY <1>2, <1>3
  <2>3. CASE Len(saves) = 1
    <3>1. saves' = <<>>
      BY <2>2, <2>3
    <3>2. unsaved' \/ file' = saves[1]
      BY <1>2, <1>3
    <3> QED
      BY <1>3, <1>4, <2>1, <2>3, <3>1, <3>2 DEF InFile
  <2>4. CASE Len(saves) # 1
    <3>1. PICK n \in Nat \ {0} : n = Len(saves) - 1
      BY <1>4, <2>4
    <3>2. saves' = [j \in 1..n |-> saves[j + 1]]
      BY <2>2, <3>1
    <3>3. DOMAIN saves' = 1..n /\ saves'[n] = saves[n + 1] /\ n + 1 = Len(saves)
      BY <3>1, <3>2, <1>4
    <3>4. saves' \in Seq(LoadableState)
      BY <1>1 DEF TypeOK
    <3>5. Len(saves') = n
      BY <3>1, <3>3, <3>4, LenProperties
    <3>6. saves' # <<>>
      BY <3>1, <3>5
    <3> QED
      BY <2>1, <3>3, <3>5, <3>6
  <2> QED
    BY <2>1, <2>3, <2>4
<1> QED
  BY <1>1, <1>5, <1>6, <1>7 DEF QueueInv, IInv

\* Once the answer of the pending change is received no order and no other
\* answer of it is on its way.
LEMMA ChangeIsOver ==
  ASSUME IInv, Receive, change # None, Head(events).request = change.request
  PROVE  /\ \A c \in Range(commands) : ~IsOrder(c)
         /\ \A a \in Range(events') : a.type # "changed"
<1>1. /\ \A c \in Range(commands) : Head(events).request < c.request
      /\ \A a \in Range(events') : Head(events).request < a.request
      /\ Range(events') \subseteq Range(events)
      /\ Head(events).request \in Nat
  BY ReceivedQueue DEF IInv, Receive, Event
<1>2. ASSUME NEW c \in Range(commands), IsOrder(c) PROVE FALSE
  BY <1>1, <1>2 DEF IInv, OneChange
<1>3. ASSUME NEW a \in Range(events'), a.type = "changed" PROVE FALSE
  BY <1>1, <1>3 DEF IInv, OneChange
<1> QED
  BY <1>2, <1>3

\* Receiving an answer that is not "changed" leaves the registry's answers.
LEMMA OtherAnswer ==
  ASSUME IInv, Receive, Head(events).type # "changed"
  PROVE  /\ NoAnswer' = NoAnswer
         /\ catalog' = catalog =>
              \A p \in Range(events') : CatalogAt(p)' = CatalogAt(p)
<1>1. Range(events) = {Head(events)} \cup Range(events') /\ custom' = custom
  BY ReceivedQueue DEF IInv, Receive
<1>2. NoAnswer' = NoAnswer
  BY <1>1 DEF NoAnswer
<1>3. ASSUME catalog' = catalog, NEW p \in Range(events')
      PROVE  CatalogAt(p)' = CatalogAt(p)
  BY <1>1, <1>3 DEF CatalogAt
<1> QED
  BY <1>2, <1>3

LEMMA ReceiveReadyInv ==
  ASSUME IInv, Receive, ReceiveReady(Head(events))
  PROVE  IInv'
<1>1. TypeOK'
  BY ReceiveType DEF IInv
<1>2. Head(events) \in Range(events)
  BY ReceivedQueue DEF IInv, Receive
<1>3. phase = "starting" /\ commands = <<>> /\ events = << Ready >>
  BY <1>2 DEF IInv, StartsOnce, ReceiveReady
<1>4. /\ catalog' = Advertised(Empty) /\ shown' = DefaultShown
      /\ saving' = TRUE /\ phase' = "reading" /\ events' = <<>>
      /\ UNCHANGED <<custom, commands, change, showing, declined, saves,
                     lastRequest>>
  BY <1>3 DEF Receive, ReceiveReady
<1>5. Range(events) = {Ready} /\ Range(events') = {} /\ Range(commands) = {}
  <2>1. Head(events) = Ready
    BY <1>3
  <2>2. Range(events) = {Ready} \cup Range(events')
    BY <2>1, ReceivedQueue DEF IInv, Receive
  <2> QED
    BY <1>3, <1>4, <2>2, EmptyQueue
<1>6. change = None /\ showing = 0 /\ NoAnswer
  BY <1>3, <1>5 DEF IInv, SavingMeansPending, ShowingIsPending, NoAnswer, Ready
<1>7. custom = Empty /\ saves = <<>>
  BY <1>3, <1>6 DEF IInv, RegistryIsKept
<1>8. RequestsInOrder'
  BY <1>3, <1>4, <1>5 DEF RequestsInOrder, InOrder
<1>9. OneChange' /\ ChangeIsPending' /\ SavingMeansPending'
  BY <1>4, <1>5, <1>6 DEF OneChange, ChangeIsPending, SavingMeansPending
<1>10. StartsOnce' /\ RegistryIsKept' /\ ShowingIsPending'
  BY <1>4, <1>5, <1>6, <1>7
  DEF StartsOnce, RegistryIsKept, ShowingIsPending
<1>11. CatalogFollows' /\ PresentationsExist'
  BY <1>4, <1>5, <1>7 DEF CatalogFollows, PresentationsExist
<1>12. ShownFollows'
  BY <1>4, BuiltinAssumption
  DEF ShownFollows, IsAdvertised, Shown, DefaultShown, Plain, Advertised,
      IsDescriptor
<1> QED
  BY <1>1, <1>8, <1>9, <1>10, <1>11, <1>12 DEF IInv

LEMMA ReceiveChangedInv ==
  ASSUME IInv, Receive, ReceiveChanged(Head(events))
  PROVE  IInv'
<1> DEFINE e == Head(events)
           next == change.next
<1>1. TypeOK'
  BY ReceiveType DEF IInv
<1>2. /\ e \in Event
      /\ Range(events) = {e} \cup Range(events')
      /\ InOrder(events')
      /\ \A a \in Range(events') : e.request < a.request
  BY ReceivedQueue DEF IInv, Receive
<1>3. /\ e.type = "changed" /\ change # None /\ e.request = change.request
      /\ change' = None /\ saving' = FALSE
      /\ catalog' = Advertised(e.state)
      /\ saves' = Append(saves, e.state)
      /\ FollowUp(next, Advertised(e.state))
      /\ phase' = IF next.do = "restore" THEN "running" ELSE phase
      /\ UNCHANGED <<custom, shown, declined, file, unsaved>>
  BY DEF ReceiveChanged, Receive
<1>4. /\ e.state = custom
      /\ KeepsAdvertised(next, catalog, Advertised(custom))
  BY <1>2, <1>3 DEF IInv, OneChange
<1>5. next \in FollowUps
  BY <1>3 DEF IInv, TypeOK
<1>6. phase \in {"restoring", "running", "refused"}
      /\ (phase = "restoring" <=> next.do = "restore")
  <2>1. phase \notin {"starting", "reading"}
    BY <1>3 DEF IInv, SavingMeansPending
  <2> QED
    BY <1>3, <2>1 DEF IInv, SavingMeansPending, TypeOK
<1>7. phase' \in {"running", "refused"}
  BY <1>3, <1>6
<1>8. /\ \A c \in Range(commands) : ~IsOrder(c)
      /\ \A a \in Range(events') : a.type # "changed"
  BY <1>3, ChangeIsOver
<1>9. /\ Asked
      /\ \/ next.do # "remove"
         \/ Shown[next.kind] # next.id
         \/ ~IsAdvertised(Advertised(custom),
                          [Shown EXCEPT ![next.kind] = Default[next.kind]])
         \/ [Shown EXCEPT ![next.kind] = Default[next.kind]] = Shown
         \/ showing' = lastRequest + 1
  BY <1>3, <1>4, <1>5, FollowUpAsks DEF IInv
<1>10. /\ InOrder(commands')
       /\ Range(commands) \subseteq Range(commands')
       /\ \A c \in Range(commands') : c \in Range(commands) \/ c.type = "present"
       /\ \A a \in Range(events), c \in Range(commands') : a.request < c.request
       /\ \A a \in Range(events) \cup Range(commands') : a.request <= lastRequest'
       /\ \/ showing' = showing
          \/ \E c \in Range(commands') : c.type = "present" /\ c.request = showing'
       /\ showing' = showing \/ showing' # 0
  BY <1>9, AskedQueue DEF IInv
<1> HIDE DEF e, next
<1>11. RequestsInOrder'
  BY <1>2, <1>10 DEF RequestsInOrder
<1>12. OneChange'
  BY <1>8, <1>10 DEF OneChange, IsOrder
<1>13. ChangeIsPending' /\ SavingMeansPending' /\ StartsOnce'
  BY <1>2, <1>3, <1>6, <1>7
  DEF ChangeIsPending, SavingMeansPending, StartsOnce, IInv
<1>14. RegistryIsKept'
  <2>1. saves \in Seq(LoadableState) /\ custom \in LoadableState
    BY DEF IInv, TypeOK
  <2>2. saves' # <<>> /\ saves'[Len(saves')] = custom
    <3>1. /\ Len(Append(saves, custom)) = Len(saves) + 1
          /\ Append(saves, custom)[Len(saves) + 1] = custom
          /\ Append(saves, custom) # <<>>
      BY <2>1, AppendProperties
    <3> QED
      BY <1>3, <1>4, <3>1
  <2> QED
    BY <1>3, <1>7, <2>2 DEF RegistryIsKept
<1>15. ShowingIsPending'
  <2> SUFFICES ASSUME showing' # 0, showing' = showing
               PROVE  \/ \E c \in Range(commands') :
                           c.type = "present" /\ c.request = showing
                      \/ \E a \in Range(events') :
                           /\ a.type \in {"presentation", "error"}
                           /\ a.request = showing
    BY <1>10 DEF ShowingIsPending
  <2> QED
    BY <1>2, <1>3, <1>10 DEF IInv, ShowingIsPending
<1>16. CatalogFollows'
  BY <1>3, <1>4 DEF CatalogFollows
<1>17. PresentationsExist'
  <2> SUFFICES ASSUME NEW p \in Range(events'), p.type = "presentation",
                      NEW k \in Kind
               PROVE  p.themes[k].id \in CatalogAt(p)'[k]
    BY DEF PresentationsExist
  <2>1. CatalogAt(p)' = Advertised(custom)
    BY <1>3, <1>4 DEF CatalogAt
  <2>2. CatalogAt(p) = Advertised(custom)
    BY <1>2, <1>3 DEF CatalogAt
  <2> QED
    BY <1>2, <2>1, <2>2 DEF IInv, PresentationsExist
<1>18. ShownFollows'
  <2> SUFFICES ASSUME showing' = 0, ~declined
               PROVE  IsAdvertised(Advertised(custom), Shown)
    BY <1>3, <1>4 DEF ShownFollows, IsAdvertised, Shown
  <2>1. IsAdvertised(catalog, Shown)
    BY <1>6, <1>10 DEF IInv, ShownFollows
  <2>2. CASE next.do # "remove"
    BY <1>4, <2>1, <2>2 DEF KeepsAdvertised, IsAdvertised
  <2>3. CASE next.do = "remove" /\ Shown[next.kind] # next.id
    BY <1>4, <2>1, <2>3 DEF KeepsAdvertised, IsAdvertised
  <2>4. CASE next.do = "remove" /\ Shown[next.kind] = next.id
    <3> DEFINE sel == [Shown EXCEPT ![next.kind] = Default[next.kind]]
    <3>1. next.kind \in Kind
      BY <1>5, <2>4 DEF FollowUps
    <3>2. \A k \in Kind : sel[k] = IF k = next.kind THEN Default[k] ELSE Shown[k]
      BY <3>1 DEF Shown
    <3>3. \A k \in Kind : Default[k] \in Advertised(custom)[k]
      BY BuiltinAssumption DEF IsDescriptor, Advertised
    <3>4. ASSUME NEW k \in Kind, k # next.kind
          PROVE  Shown[k] \in Advertised(custom)[k]
      BY <1>4, <2>1, <3>4 DEF KeepsAdvertised, IsAdvertised
    <3>5. IsAdvertised(Advertised(custom), sel)
      BY <3>2, <3>3, <3>4 DEF IsAdvertised
    <3>6. showing' # lastRequest + 1
      BY QueueTypes DEF IInv
    <3> QED
      BY <1>9, <2>4, <3>5, <3>6
  <2> QED
    BY <2>2, <2>3, <2>4
<1> QED
  BY <1>1, <1>11, <1>12, <1>13, <1>14, <1>15, <1>16, <1>17, <1>18 DEF IInv

LEMMA ReceivePresentationInv ==
  ASSUME IInv, Receive, ReceivePresentation(Head(events))
  PROVE  IInv'
<1> DEFINE e == Head(events)
<1>1. TypeOK'
  BY ReceiveType DEF IInv
<1>2. /\ e \in Event /\ e \in Range(events)
      /\ Range(events) = {e} \cup Range(events')
      /\ InOrder(events')
      /\ \A a \in Range(events') : e.request < a.request
  BY ReceivedQueue DEF IInv, Receive
<1>3. /\ e.type = "presentation"
      /\ UNCHANGED <<custom, commands, phase, catalog, change, saving, saves,
                     file, unsaved, lastRequest>>
  BY DEF ReceivePresentation, Receive
<1>4. phase # "starting"
  BY <1>2, <1>3 DEF IInv, StartsOnce, Ready
<1>5. /\ NoAnswer' = NoAnswer
      /\ \A p \in Range(events') : CatalogAt(p)' = CatalogAt(p)
  BY <1>3, OtherAnswer
<1>6. \A k \in Kind : e.themes[k].id \in catalog[k]
  <2>1. e.request \in Nat /\ \A a \in Range(events') : a.request \in Nat
    BY <1>2, QueueTypes DEF IInv
  <2>2. ASSUME NEW a \in Range(events), a.request < e.request PROVE FALSE
    BY <1>2, <2>1, <2>2
  <2>3. CatalogAt(e) = catalog
    BY <2>2 DEF CatalogAt
  <2> QED
    BY <1>2, <1>3, <2>3 DEF IInv, PresentationsExist
<1>7. \/ /\ e.request = showing /\ showing' = 0
         /\ declined' = FALSE /\ shown' = e.themes
      \/ /\ e.request # showing
         /\ UNCHANGED <<showing, declined, shown>>
  BY <1>6 DEF ReceivePresentation
<1> HIDE DEF e
<1>8. RequestsInOrder'
  BY <1>2, <1>3 DEF IInv, RequestsInOrder
<1>9. OneChange' /\ ChangeIsPending' /\ SavingMeansPending' /\ StartsOnce'
  BY <1>2, <1>3, <1>4
  DEF IInv, OneChange, ChangeIsPending, SavingMeansPending, StartsOnce
<1>10. RegistryIsKept'
  BY <1>3, <1>5 DEF IInv, RegistryIsKept, InFile
<1>11. ShowingIsPending'
  BY <1>2, <1>3, <1>7 DEF IInv, ShowingIsPending
<1>12. CatalogFollows'
  BY <1>3, <1>5 DEF IInv, CatalogFollows
<1>13. PresentationsExist'
  BY <1>2, <1>5 DEF IInv, PresentationsExist
<1>14. ShownFollows'
  BY <1>3, <1>6, <1>7 DEF IInv, ShownFollows, IsAdvertised, Shown
<1> QED
  BY <1>1, <1>8, <1>9, <1>10, <1>11, <1>12, <1>13, <1>14 DEF IInv

LEMMA ReceiveErrorInv ==
  ASSUME IInv, Receive, ReceiveError(Head(events))
  PROVE  IInv'
<1> DEFINE e == Head(events)
<1>1. TypeOK'
  BY ReceiveType DEF IInv
<1>2. /\ e \in Event /\ e \in Range(events)
      /\ Range(events) = {e} \cup Range(events')
      /\ InOrder(events')
  BY ReceivedQueue DEF IInv, Receive
<1>3. /\ e.type = "error"
      /\ showing' = IF e.request = showing THEN 0 ELSE showing
      /\ declined' = (declined \/ e.request = showing)
      /\ UNCHANGED <<custom, commands, catalog, shown, saves, file,
                     lastRequest>>
  BY DEF ReceiveError, Receive
<1>4. phase # "starting"
  BY <1>2, <1>3 DEF IInv, StartsOnce, Ready
<1>5. /\ NoAnswer' = NoAnswer
      /\ \A p \in Range(events') : CatalogAt(p)' = CatalogAt(p)
  BY <1>3, OtherAnswer
<1>6. /\ change' = IF IsChange(e) THEN None ELSE change
      /\ saving' = IF IsChange(e) THEN FALSE ELSE saving
      /\ phase' = IF IsRestore(e) THEN "refused" ELSE phase
      /\ unsaved' = IF IsRestore(e) THEN TRUE ELSE unsaved
  BY DEF ReceiveError
<1> HIDE DEF e
<1>7. RequestsInOrder'
  BY <1>2, <1>3 DEF IInv, RequestsInOrder
<1>8. StartsOnce'
  BY <1>2, <1>4, <1>6 DEF IInv, StartsOnce
<1>9. OneChange' /\ ChangeIsPending' /\ SavingMeansPending' /\ RegistryIsKept'
  <2>1. CASE ~IsChange(e)
    <3>1. UNCHANGED <<change, saving, phase, unsaved>>
      BY <1>6, <2>1 DEF IsRestore
    <3>2. OneChange'
      BY <1>2, <1>3, <3>1 DEF IInv, OneChange
    <3>3. ChangeIsPending'
      BY <1>2, <1>3, <2>1, <3>1 DEF IInv, ChangeIsPending, IsChange
    <3>4. SavingMeansPending' /\ RegistryIsKept'
      BY <1>3, <1>5, <3>1
      DEF IInv, SavingMeansPending, RegistryIsKept, InFile
    <3> QED
      BY <3>2, <3>3, <3>4
  <2>2. CASE IsChange(e)
    <3>1. /\ change # None /\ e.request = change.request
          /\ change' = None /\ saving' = FALSE
      BY <1>6, <2>2 DEF IsChange
    <3>2. /\ \A c \in Range(commands) : ~IsOrder(c)
          /\ \A a \in Range(events') : a.type # "changed"
      BY <3>1, ChangeIsOver DEF e
    <3>3. phase # "reading" /\ (phase = "restoring" <=> IsRestore(e))
      BY <2>2, <3>1 DEF IInv, SavingMeansPending, IsRestore
    <3>4. NoAnswer
      BY <1>2, <1>3, <3>2 DEF NoAnswer
    <3>5. OneChange' /\ ChangeIsPending'
      BY <1>3, <3>1, <3>2 DEF OneChange, ChangeIsPending
    <3>6. SavingMeansPending'
      BY <1>4, <1>6, <3>1, <3>3 DEF SavingMeansPending
    <3>7. RegistryIsKept'
      <4>1. CASE IsRestore(e)
        BY <1>3, <1>6, <3>3, <3>4, <4>1 DEF IInv, RegistryIsKept
      <4>2. CASE ~IsRestore(e)
        BY <1>3, <1>4, <1>6, <3>3, <3>4, <4>2 DEF IInv, RegistryIsKept, InFile
      <4> QED
        BY <4>1, <4>2
    <3> QED
      BY <3>5, <3>6, <3>7
  <2> QED
    BY <2>1, <2>2
<1>10. ShowingIsPending'
  BY <1>2, <1>3 DEF IInv, ShowingIsPending
<1>11. CatalogFollows'
  BY <1>3, <1>4, <1>5 DEF IInv, CatalogFollows
<1>12. PresentationsExist'
  BY <1>2, <1>3, <1>5 DEF IInv, PresentationsExist
<1>13. ShownFollows'
  BY <1>3, <1>4 DEF IInv, ShownFollows, IsAdvertised, Shown
<1> QED
  BY <1>1, <1>7, <1>8, <1>9, <1>10, <1>11, <1>12, <1>13 DEF IInv

LEMMA RestartInv ==
  ASSUME IInv, Restart
  PROVE  IInv'
<1>1. TypeOK'
  BY RestartType DEF IInv
<1>2. /\ custom' = Empty /\ commands' = <<>> /\ events' = << Ready >>
      /\ phase' = "starting" /\ change' = None /\ saving' = FALSE
      /\ showing' = 0 /\ saves' = <<>> /\ lastRequest' = 0
  BY DEF Restart
<1>3. Range(commands') = {} /\ Range(events') = {Ready}
  BY <1>2, EmptyQueue DEF Range
<1>4. RequestsInOrder'
  BY <1>2, <1>3 DEF RequestsInOrder, InOrder, Ready
<1>5. OneChange' /\ ChangeIsPending' /\ SavingMeansPending'
  BY <1>2, <1>3 DEF OneChange, ChangeIsPending, SavingMeansPending, Ready
<1>6. StartsOnce' /\ RegistryIsKept' /\ ShowingIsPending'
  BY <1>2, <1>3 DEF StartsOnce, RegistryIsKept, ShowingIsPending
<1>7. CatalogFollows' /\ PresentationsExist' /\ ShownFollows'
  BY <1>2, <1>3 DEF CatalogFollows, PresentationsExist, ShownFollows, Ready
<1> QED
  BY <1>1, <1>4, <1>5, <1>6, <1>7 DEF IInv

LEMMA InitInv == Init => IInv
<1> SUFFICES ASSUME Init PROVE IInv
  OBVIOUS
<1>1. TypeOK
  BY InitType
<1>2. /\ custom = Empty /\ commands = <<>> /\ events = << Ready >>
      /\ phase = "starting" /\ change = None /\ saving = FALSE
      /\ showing = 0 /\ saves = <<>> /\ lastRequest = 0
  BY DEF Init
<1>3. Range(commands) = {} /\ Range(events) = {Ready}
  BY <1>2, EmptyQueue DEF Range
<1>4. RequestsInOrder
  BY <1>2, <1>3 DEF RequestsInOrder, InOrder, Ready
<1>5. OneChange /\ ChangeIsPending /\ SavingMeansPending
  BY <1>2, <1>3 DEF OneChange, ChangeIsPending, SavingMeansPending, Ready
<1>6. StartsOnce /\ RegistryIsKept /\ ShowingIsPending
  BY <1>2, <1>3 DEF StartsOnce, RegistryIsKept, ShowingIsPending
<1>7. CatalogFollows /\ PresentationsExist /\ ShownFollows
  BY <1>2, <1>3 DEF CatalogFollows, PresentationsExist, ShownFollows, Ready
<1> QED
  BY <1>1, <1>4, <1>5, <1>6, <1>7 DEF IInv

\* What is on its way between the store, the worker and the disk agrees with
\* what the registry, the catalog and the screen hold, at every moment.
THEOREM ThemesInvariant == Spec => []IInv
<1>1. IInv /\ [Next]_vars => IInv'
  <2>1. ASSUME IInv, UNCHANGED vars
        PROVE  IInv'
    <3>1. TypeOK'
      BY <2>1 DEF IInv, vars, TypeOK
    <3>2. RequestsInOrder' /\ OneChange' /\ ChangeIsPending'
      BY <2>1 DEF IInv, vars, RequestsInOrder, OneChange, ChangeIsPending
    <3>3. SavingMeansPending' /\ StartsOnce' /\ RegistryIsKept'
      BY <2>1
      DEF IInv, vars, SavingMeansPending, StartsOnce, RegistryIsKept, NoAnswer,
          InFile
    <3>4. ShowingIsPending' /\ CatalogFollows'
      BY <2>1 DEF IInv, vars, ShowingIsPending, CatalogFollows, NoAnswer
    <3>5. PresentationsExist' /\ ShownFollows'
      BY <2>1
      DEF IInv, vars, PresentationsExist, CatalogAt, ShownFollows, Shown
    <3> QED
      BY <3>1, <3>2, <3>3, <3>4, <3>5 DEF IInv
  <2>2. ASSUME IInv, Receive
        PROVE  IInv'
    BY <2>2, ReceiveReadyInv, ReceiveChangedInv, ReceivePresentationInv,
       ReceiveErrorInv DEF Receive
  <2> QED
    BY <2>1, <2>2, HandleInv, BeginRestoreInv, SaveInv, UserInv, RestartInv
    DEF Next
<1> QED
  BY InitInv, <1>1, PTL DEF Spec

\* Once persistBoardCustomization has written its states and no write failed,
\* the file holds the registry of the worker, whatever was registered, replaced,
\* removed or restored, and wherever the program ended before.
THEOREM FileHoldsRegistry == Spec => []SavedIsRegistered
<1>1. IInv => SavedIsRegistered
  <2> SUFFICES ASSUME IInv, Quiet, ~unsaved
               PROVE  /\ ~saving /\ change = None
                      /\ custom = IF file = None THEN Empty ELSE file
    BY DEF SavedIsRegistered
  <2>1. Range(commands) = {} /\ Range(events) = {}
    BY EmptyQueue DEF Quiet
  <2>2. change = None
    BY <2>1 DEF IInv, ChangeIsPending
  <2>3. ~saving
    BY <2>2 DEF IInv, SavingMeansPending, Quiet
  <2>4. NoAnswer
    BY <2>1 DEF NoAnswer
  <2> QED
    BY <2>2, <2>3, <2>4 DEF IInv, RegistryIsKept, Quiet, InFile
<1> QED
  BY <1>1, ThemesInvariant, PTL

\* Once every answer is in, receiveBoardPresentation has taken or refused the
\* last one the store waits for, and, unless that one was refused, the themes
\* on the screen are advertised: FIFO answers keep a removed theme off it.
THEOREM ScreenShowsWhatExists == Spec => []ShownIsAdvertised
<1>1. IInv => ShownIsAdvertised
  <2> SUFFICES ASSUME IInv, Quiet
               PROVE  /\ showing = 0
                      /\ ~declined => IsAdvertised(Advertised(custom), Shown)
    BY DEF ShownIsAdvertised
  <2>1. Range(commands) = {} /\ Range(events) = {}
    BY EmptyQueue DEF Quiet
  <2>2. showing = 0
    BY <2>1 DEF IInv, ShowingIsPending
  <2>3. catalog = Advertised(custom)
    BY <2>1 DEF IInv, CatalogFollows, NoAnswer, Quiet
  <2> QED
    BY <2>2, <2>3 DEF IInv, ShownFollows, Quiet
<1> QED
  BY <1>1, ThemesInvariant, PTL

=============================================================================
