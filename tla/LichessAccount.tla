--------------------------- MODULE LichessAccount ---------------------------
(***************************************************************************)
(* The account of libchess-lichess: signing in (Authorization) and, with a  *)
(* connected backend, creating a game against the bots of Lichess. Lichess  *)
(* creates the game before it answers, and the answer may be lost, be of    *)
(* another variant, or be refused by the adapter.                           *)
(***************************************************************************)
EXTENDS Authorization

CONSTANTS
  Opponents,   \* the advertised opponents
  Variant,     \* the variant identifiers, "standard" and "from-position" too
  Flexible,    \* variants that support a custom position
  Initial,     \* values of the clock that are advertised
  Increment,
  MinDuration, \* minimum_estimated_duration_seconds
  Days,        \* the advertised correspondence intervals
  Position,    \* positions a FEN may describe; Start is the initial one
  Start,
  Turn,        \* Turn[p]: the color to move in position p
  Illegal,     \* positions that Lichess rejects
  Wanted,      \* the requests of users
  MaxGames     \* bound: games created

Color == {"white", "black"}

\* A color preference, an opponent, a time control and a FEN or None; whether
\* there are initial moves or a reply delay.
BotGameRequest ==
  [opponent : STRING, variant : STRING, color : Color \cup {"random"},
   time : [kind : {"clock"}, initial : Nat, increment : Nat] \cup
          [kind : {"days"}, days : Nat] \cup [kind : {"unlimited"}],
   fen : Position \cup {None}, extras : BOOLEAN]

ASSUME AccountAssumption ==
  /\ Flexible \subseteq Variant
  /\ {"standard", "from-position"} \subseteq Flexible
  /\ Start \in Position /\ Illegal \subseteq Position \ {Start}
  /\ Turn \in [Position -> Color] /\ Turn[Start] = "white"
  /\ Wanted \subseteq BotGameRequest
  /\ MaxGames \in Nat

VARIABLES
  games,     \* the games that Lichess has created for the account
  reported   \* the games reported to the frontend

vars == <<now, begun, since, session, callbacks, asked, step, backend, games,
          reported>>

\* While a challenge is posted, `step` holds it; the other variables of the
\* authorization stay.
othersOfAuth == <<now, begun, since, session, callbacks, asked, backend>>

-----------------------------------------------------------------------------
(* The adapter: what it accepts and what it sends.                         *)

\* ClockTimeControlOptions::supports
SupportsClock(t) ==
  /\ t.initial \in Initial /\ t.increment \in Increment
  /\ t.initial + 40 * t.increment >= MinDuration

SupportsTime(t) ==
  \/ t.kind = "clock" /\ SupportsClock(t)
  \/ t.kind = "days" /\ t.days \in Days
  \/ t.kind = "unlimited"

\* The checks of create_bot_game before the challenge is sent.
IsAdvertised(w) ==
  /\ w.opponent \in Opponents
  /\ ~w.extras
  /\ w.variant \in Variant
  /\ w.variant = "from-position" => w.fen # None
  /\ w.fen # None => w.variant \in Flexible
  /\ SupportsTime(w.time)

\* Mutant of ResolveColor: Lichess is left to choose.
ResolveColorRemotely(preference) ==
  IF preference = "random"
  THEN {[sent |-> "random", mine |-> c] : c \in Color}
  ELSE {[sent |-> preference, mine |-> preference]}

\* resolve_color: a random color is chosen here, Lichess is told which.
ResolveColor(preference) ==
  {[sent |-> c, mine |-> c] :
     c \in IF preference = "random" THEN Color ELSE {preference}}

\* The variant of the answer: a custom position turns a standard game into one
\* "from position", the initial position does the opposite.
IsVariantOf(w, variant) ==
  \/ variant = w.variant
  \/ w.fen # None /\ w.variant = "standard" /\ variant = "from-position"
  \/ w.fen # None /\ w.variant = "from-position" /\ variant = "standard"

PositionOf(w) == IF w.fen = None THEN Start ELSE w.fen

\* The BotGame made of a request, the resolved color and the answer.
BotGame(w, mine, id) ==
  [id |-> id, opponent |-> w.opponent, variant |-> games[id].variant,
   player |-> mine, wanted |-> w.color,
   isMyTurn |-> Turn[PositionOf(w)] = mine]

-----------------------------------------------------------------------------
(* Actions.                                                                *)

Init == AuthInit /\ games = <<>> /\ reported = {}

\* create_bot_game up to the challenge; a request that is not advertised ends
\* here. The client does nothing else meanwhile.
CreateBotGame(w) ==
  /\ step = Idle
  /\ backend # None
  /\ IsAdvertised(w)
  /\ Len(games) < MaxGames
  /\ \E color \in ResolveColor(w.color) :
       step' = [do |-> "challenge", want |-> w, color |-> color, created |-> 0]
  /\ UNCHANGED <<games, reported, othersOfAuth>>

\* The challenge as Lichess plays it; it renames the two variants that differ
\* only in their initial position.
VariantAtLichess(w) ==
  IF w.fen = None \/ w.variant \notin {"standard", "from-position"}
  THEN w.variant
  ELSE IF w.fen = Start THEN "standard" ELSE "from-position"

\* Lichess creates the game, of another variant or rated if it errs.
LichessCreates ==
  /\ step.do = "challenge" /\ step.created = 0
  /\ PositionOf(step.want) \notin Illegal
  /\ \E account \in IF step.color.sent = "random" THEN Color
                    ELSE {step.color.sent},
        variant \in {VariantAtLichess(step.want), "standard"},
        rated \in BOOLEAN :
       games' = Append(games, [opponent |-> step.want.opponent,
                               variant |-> variant, rated |-> rated,
                               account |-> account,
                               position |-> PositionOf(step.want)])
  /\ step' = [step EXCEPT !.created = Len(games) + 1]
  /\ UNCHANGED <<reported, othersOfAuth>>

\* The answer describes the game; the adapter reports a casual one of the
\* variant that was asked for, and an error otherwise.
ChallengeAnswered ==
  /\ step.do = "challenge" /\ step.created # 0
  /\ step' = Idle
  /\ LET game == games[step.created] IN
       reported' =
         IF IsVariantOf(step.want, game.variant) /\ ~game.rated
         THEN reported \cup {BotGame(step.want, step.color.mine, step.created)}
         ELSE reported
  /\ UNCHANGED <<games, othersOfAuth>>

\* Lichess refuses the challenge, or its answer is lost or invalid, the game
\* created or not: the frontend gets an error.
ChallengeFails ==
  /\ step.do = "challenge"
  /\ step' = Idle
  /\ UNCHANGED <<games, reported, othersOfAuth>>

\* Time passes and the browser answers while a challenge is posted; the client
\* itself handles one command at a time.
Next ==
  \/ AuthNext /\ UNCHANGED <<games, reported>>
  \/ \E w \in Wanted : CreateBotGame(w)
  \/ LichessCreates \/ ChallengeAnswered \/ ChallengeFails

Spec == Init /\ [][Next]_vars

-----------------------------------------------------------------------------
(* Properties.                                                             *)

\* A game is reported with the color the account plays at Lichess, random or
\* not, with its opponent and variant as Lichess keeps them, and isMyTurn is
\* what the position on its board says.
GamesAreAsReported ==
  \A g \in reported :
    LET theirs == games[g.id] IN
    /\ g.player = theirs.account
    /\ g.wanted \in {"random", theirs.account}
    /\ g.opponent = theirs.opponent
    /\ g.variant = theirs.variant /\ ~theirs.rated
    /\ g.isMyTurn = (Turn[theirs.position] = theirs.account)

=============================================================================
