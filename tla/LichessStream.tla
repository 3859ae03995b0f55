--------------------------- MODULE LichessStream ---------------------------
(***************************************************************************)
(* The two NDJSON streams of libchess-lichess: the stream of one game       *)
(* (live.rs, watch) and the account's event stream (watch_catalog).  They    *)
(* share the loop that cuts the response body into lines.                   *)
(*                                                                         *)
(* A body is a sequence of cells.  A line takes `width` cells, perhaps a CR,*)
(* and a LF; what a chunk holds has nothing to do with where lines end.     *)
(* Lichess may say anything at all: what it says is any sequence over Line. *)
(***************************************************************************)
EXTENDS Integers, Sequences

CONSTANTS
  Start,          \* initial positions (with their variant)
  Moves,          \* move lists
  Legal,          \* the pairs <<start, moves>> that can be reconstructed
  Line,           \* the lines Lichess may write, a subset of GameLine
  Requested,      \* the identifier of the game that is watched
  Limit,          \* MAX_STREAM_LINE_BYTES, in cells
  MaxSaid,        \* bound on the lines of a response
  CR, LF,         \* the two control characters
  NoGame          \* StreamContext::game before the gameFull

\* `fine` is the outcome of the checks on the other fields of the line: a
\* known variant, players with an identity, sizes.
GameLine ==
  [type : {"gameFull"}, id : {Requested, "other"}, start : Start, moves : Moves,
   over : BOOLEAN, fine : BOOLEAN, width : Nat \ {0}]
  \cup [type : {"gameState"}, moves : Moves, over : BOOLEAN, width : Nat \ {0}]
  \cup [type : {"opponentGone"}, gone : BOOLEAN, width : Nat \ {0}]
  \cup [type : {"chatLine"}, fine : BOOLEAN, width : Nat \ {0}]
  \cup [type : {"gameStart", "gameFinish", "other", "junk"}, width : Nat \ {0}]
  \cup [type : {"empty"}, width : {0}]

Junk == [type |-> "junk", width |-> 1]

ASSUME LegalAssumption == Legal \subseteq Start \X Moves
ASSUME LineAssumption == Line \subseteq GameLine
ASSUME LimitAssumption == Limit \in Nat \ {0}
ASSUME ControlAssumption ==
  CR # LF /\ {CR, LF} \cap [line : Line, part : Nat] = {}
ASSUME NoGameAssumption ==
  NoGame \notin [start : Start, moves : Moves, over : BOOLEAN, gone : BOOLEAN]

VARIABLES
  kind,           \* which of the two streams this is
  crlf,           \* whether lines of this body end in CR LF
  said,           \* the lines written, oldest first
  wire,           \* cells written and not received
  closed,         \* the body is complete
  at,             \* "connecting", "waiting" for a chunk, in the "lines" loop
  buffer,         \* cells received and not consumed
  game,           \* StreamContext::game
  heard,          \* lines consumed without an error
  shown,          \* what the sink got for each of them
  outcome         \* how the call ended

source == <<said, wire, closed>>
context == <<game, heard, shown>>
vars == <<kind, crlf, source, at, buffer, context, outcome>>

Game == [start : Start, moves : Moves, over : BOOLEAN, gone : BOOLEAN]

\* What the sink is called with: a snapshot, a chat message, a catalog change
\* or, for the lines that are skipped, nothing.
Event == [type : {"gameUpdated"}, game : Game]
         \cup [type : {"chat", "changed", "nothing"}]

Utterance == [line : Line, whole : BOOLEAN]
Cell == [line : Line, part : Nat] \cup {CR, LF}

\* The unconsumed rest of the body never grows past the limit unnoticed.
TypeOK ==
  /\ kind \in {"game", "catalog"}
  /\ crlf \in BOOLEAN
  /\ said \in Seq(Utterance)
  /\ wire \in Seq(Cell)
  /\ closed \in BOOLEAN
  /\ at \in {"connecting", "waiting", "lines", "ended"}
  /\ buffer \in Seq(Cell)
  /\ at = "waiting" => Len(buffer) <= Limit
  /\ game \in Game \cup {NoGame}
  /\ heard \in Seq(Line)
  /\ shown \in Seq(Event)
  /\ outcome \in {"running", "finished", "interrupted", "protocol", "refused"}

Init ==
  /\ kind \in {"game", "catalog"}
  /\ crlf \in BOOLEAN
  /\ said = <<>>
  /\ wire = <<>>
  /\ closed = FALSE
  /\ at = "connecting"
  /\ buffer = <<>>
  /\ game = NoGame
  /\ heard = <<>>
  /\ shown = <<>>
  /\ outcome = "running"

-----------------------------------------------------------------------------
(***************************************************************************)
(* Lichess.                                                                *)
(***************************************************************************)

Content(l) == [k \in 1..l.width |-> [line |-> l, part |-> k]]

\* A line is written.
Say(l) ==
  /\ ~closed
  /\ Len(said) < MaxSaid
  /\ said' = Append(said, [line |-> l, whole |-> TRUE])
  /\ wire' = wire \o Content(l) \o (IF crlf THEN <<CR>> ELSE <<>>) \o <<LF>>
  /\ UNCHANGED <<kind, crlf, closed, at, buffer, context, outcome>>

\* The body ends, perhaps with a line that has no LF or is cut in the middle.
Close ==
  /\ ~closed
  /\ closed' = TRUE
  /\ \/ UNCHANGED <<said, wire>>
     \/ \E l \in Line :
          /\ Len(said) < MaxSaid
          /\ \E k \in 1..l.width : wire' = wire \o SubSeq(Content(l), 1, k)
          /\ said' = Append(said, [line |-> l, whole |-> FALSE])
  /\ UNCHANGED <<kind, crlf, at, buffer, context, outcome>>

-----------------------------------------------------------------------------
(***************************************************************************)
(* StreamContext.                                                          *)
(***************************************************************************)

\* The errors of consume, consume_full, consume_state, consume_chat and
\* consume_presence; the account's stream only has the first.
Refuses(l) ==
  /\ l.type # "empty"
  /\ \/ l.type = "junk"
     \/ /\ kind = "game"
        /\ \/ l.width > Limit
           \/ /\ l.type = "gameFull"
              /\ \/ game # NoGame
                 \/ ~l.fine
                 \/ l.id # Requested
                 \/ <<l.start, l.moves>> \notin Legal
           \/ /\ l.type = "gameState"
              /\ game # NoGame => <<game.start, l.moves>> \notin Legal
           \/ l.type = "opponentGone" /\ game = NoGame
           \/ l.type = "chatLine" /\ ~l.fine

\* Mutant of Updated: a gameState forgets that the opponent has left.
UpdatedAfresh(l) ==
  CASE kind = "catalog" -> game
    [] kind = "game" /\ l.type \in {"gameFull", "gameState"} ->
         [start |-> IF game = NoGame THEN l.start ELSE game.start,
          moves |-> l.moves, over |-> l.over, gone |-> FALSE]
    [] kind = "game" /\ l.type = "opponentGone" -> [game EXCEPT !.gone = l.gone]
    [] OTHER -> game

\* The game after a line that is not refused.  A gameState has no word on
\* presence: build_state takes it from the previous state.
Updated(l) ==
  CASE kind = "catalog" -> game
    [] kind = "game" /\ l.type = "gameFull" ->
         [start |-> l.start, moves |-> l.moves, over |-> l.over, gone |-> FALSE]
    [] kind = "game" /\ l.type = "gameState" ->
         [game EXCEPT !.moves = l.moves, !.over = l.over]
    [] kind = "game" /\ l.type = "opponentGone" -> [game EXCEPT !.gone = l.gone]
    [] OTHER -> game

Updates == {"gameFull", "gameState", "opponentGone"}

\* What a line that is not refused makes the sink receive.
EventFor(l) ==
  CASE kind = "game" /\ l.type \in Updates ->
         [type |-> "gameUpdated", game |-> Updated(l)]
    [] kind = "game" /\ l.type = "chatLine" -> [type |-> "chat"]
    [] kind = "catalog" /\ l.type \in {"gameStart", "gameFinish"} ->
         [type |-> "changed"]
    [] OTHER -> [type |-> "nothing"]

Hear(l) ==
  /\ game' = Updated(l)
  /\ heard' = Append(heard, l)
  /\ shown' = Append(shown, EventFor(l))

End(result) == at' = "ended" /\ outcome' = result

-----------------------------------------------------------------------------
(***************************************************************************)
(* The loop of watch and watch_catalog.                                    *)
(***************************************************************************)

\* The response has a status: an error ends the call.
Respond ==
  /\ at = "connecting"
  /\ \/ at' = "waiting" /\ UNCHANGED outcome
     \/ End("refused")
  /\ UNCHANGED <<kind, crlf, source, buffer, context>>

\* Any number of cells arrive at once.
ReceiveChunk ==
  /\ at = "waiting"
  /\ \E k \in 1..Len(wire) :
       /\ buffer' = buffer \o SubSeq(wire, 1, k)
       /\ wire' = SubSeq(wire, k + 1, Len(wire))
  /\ at' = "lines"
  /\ UNCHANGED <<kind, crlf, said, closed, context, outcome>>

\* The bytes of a line: it is the line only if it is all of it.
Parsed(cells) ==
  IF \E l \in Line : cells = Content(l)
  THEN CHOOSE l \in Line : cells = Content(l)
  ELSE Junk

WithoutCR(cells) ==
  IF cells # <<>> /\ cells[Len(cells)] = CR
  THEN SubSeq(cells, 1, Len(cells) - 1)
  ELSE cells

Newlines(cells) == {i \in 1..Len(cells) : cells[i] = LF}

\* Mutant of AfterLine: what follows the line in its chunk is dropped.
AfterLineNothing(cells, i) == <<>>

AfterLine(cells, i) == SubSeq(cells, i + 1, Len(cells))

\* One iteration of the inner loop: the first line in the buffer is drained
\* and consumed.
TakeLine ==
  /\ at = "lines"
  /\ Newlines(buffer) # {}
  /\ LET i == CHOOSE i \in Newlines(buffer) : \A j \in Newlines(buffer) : i <= j
         l == Parsed(WithoutCR(SubSeq(buffer, 1, i - 1)))
     IN  /\ buffer' = AfterLine(buffer, i)
         /\ \/ Refuses(l) /\ End("protocol") /\ UNCHANGED context
            \/ ~Refuses(l) /\ Hear(l) /\ UNCHANGED <<at, outcome>>
  /\ UNCHANGED <<kind, crlf, source>>

\* Mutant of CheckBuffer: only complete lines are measured.
CheckBufferNever ==
  /\ at = "lines"
  /\ Newlines(buffer) = {}
  /\ at' = "waiting" /\ UNCHANGED outcome
  /\ UNCHANGED <<kind, crlf, source, buffer, context>>

\* The inner loop is done; a rest longer than any line ends the call.
CheckBuffer ==
  /\ at = "lines"
  /\ Newlines(buffer) = {}
  /\ \/ Len(buffer) > Limit /\ End("protocol")
     \/ Len(buffer) <= Limit /\ at' = "waiting" /\ UNCHANGED outcome
  /\ UNCHANGED <<kind, crlf, source, buffer, context>>

\* Mutant of Verdict: the end of the body is the end of the game.
VerdictTrusting(g) ==
  CASE kind = "catalog" -> "interrupted"
    [] kind = "game" /\ g = NoGame -> "protocol"
    [] OTHER -> "finished"

\* How a call ends whose body was consumed to the end.
Verdict(g) ==
  CASE kind = "catalog" -> "interrupted"
    [] kind = "game" /\ g = NoGame -> "protocol"
    [] OTHER -> IF g.over THEN "finished" ELSE "interrupted"

\* The body is complete.  A rest without a LF is a line too.
FinishBody ==
  /\ at = "waiting"
  /\ closed
  /\ wire = <<>>
  /\ \/ buffer = <<>> /\ End(Verdict(game)) /\ UNCHANGED context
     \/ /\ buffer # <<>>
        /\ Refuses(Parsed(buffer))
        /\ End("protocol")
        /\ UNCHANGED context
     \/ /\ buffer # <<>>
        /\ ~Refuses(Parsed(buffer))
        /\ Hear(Parsed(buffer))
        /\ End(Verdict(Updated(Parsed(buffer))))
  /\ UNCHANGED <<kind, crlf, source, buffer>>

\* The connection fails while a chunk is awaited.
BreakConnection ==
  /\ at = "waiting"
  /\ End("interrupted")
  /\ UNCHANGED <<kind, crlf, source, buffer, context>>

Next ==
  \/ \E l \in Line : Say(l)
  \/ Close
  \/ Respond
  \/ ReceiveChunk
  \/ TakeLine
  \/ CheckBuffer
  \/ FinishBody
  \/ BreakConnection

Spec == Init /\ [][Next]_vars

-----------------------------------------------------------------------------
(***************************************************************************)
(* Properties.                                                             *)
(***************************************************************************)

Types(lines, n) == {lines[i].type : i \in 1..n}

\* Lines are consumed in order and as they were written, however the body was
\* cut into chunks; a call that ends well has consumed all of them.
LinesArriveWhole ==
  /\ Len(heard) <= Len(said)
  /\ \A i \in 1..Len(heard) : heard[i] = said[i].line
  /\ outcome = "finished" => Len(heard) = Len(said)

\* The game whose stream this is comes first and once.
OneGameFirst ==
  \A j \in 1..Len(heard) :
    /\ heard[j].type \in Updates => "gameFull" \in Types(heard, j)
    /\ heard[j].type = "gameFull" =>
         heard[j].id = Requested /\ "gameFull" \notin Types(heard, j - 1)

\* Snapshot g combines the first j of the lines: the start from the gameFull,
\* the moves and the status from the last line that had them, the presence from
\* the last opponentGone.
Combines(lines, j, g) ==
  /\ <<g.start, g.moves>> \in Legal
  /\ \A i \in 1..j : lines[i].type = "gameFull" => lines[i].start = g.start
  /\ \E i \in 1..j :
       /\ lines[i].type \in {"gameFull", "gameState"}
       /\ lines[i].moves = g.moves /\ lines[i].over = g.over
       /\ \A k \in (i + 1)..j : lines[k].type \notin {"gameFull", "gameState"}
  /\ g.gone <=>
       \E i \in 1..j :
         /\ lines[i].type = "opponentGone" /\ lines[i].gone
         /\ \A k \in (i + 1)..j : lines[k].type # "opponentGone"

\* Every line that changes the game leads to a snapshot, which combines what has
\* been heard: no update is lost, and every position shown is a legal one.
ShowsWhatWasSaid ==
  /\ Len(shown) = Len(heard)
  /\ kind = "game" =>
       /\ OneGameFirst
       /\ \A j \in 1..Len(heard) :
            heard[j].type \in Updates =>
              shown[j].type = "gameUpdated" /\ Combines(heard, j, shown[j].game)

\* What may be wrong with the n-th line, given the lines before it.  A line
\* that fills the buffer is refused or not depending on the chunks.
Questionable(n) ==
  LET l == said[n].line
      full == {i \in 1..(n - 1) : said[i].line.type = "gameFull"}
  IN  \/ ~said[n].whole
      \/ l.type = "junk"
      \/ l.width > Limit \/ (l.width = Limit /\ crlf)
      \/ /\ kind = "game"
         /\ \/ l.type = "gameFull" /\ (full # {} \/ l.id # Requested)
            \/ l.type \in {"gameFull", "chatLine"} /\ ~l.fine
            \/ l.type \in {"gameState", "opponentGone"} /\ full = {}
            \/ l.type = "gameFull" /\ <<l.start, l.moves>> \notin Legal
            \/ /\ l.type = "gameState"
               /\ \E i \in full : <<said[i].line.start, l.moves>> \notin Legal

\* A protocol error has a reason in what was said: the next line is bad, or
\* there was no gameFull at all.  And a call ends well only with the game.
EndsForAReason ==
  /\ outcome = "protocol" =>
       \/ Len(heard) < Len(said) /\ Questionable(Len(heard) + 1)
       \/ closed /\ kind = "game" /\ "gameFull" \notin Types(heard, Len(heard))
  /\ outcome = "finished" =>
       \E i \in 1..Len(said) :
         /\ said[i].line.type \in {"gameFull", "gameState"} /\ said[i].line.over
         /\ \A k \in (i + 1)..Len(said) :
              said[k].line.type \notin {"gameFull", "gameState"}

=============================================================================
