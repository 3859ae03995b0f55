------------------------ MODULE LichessStreamProofs -------------------------
(***************************************************************************)
(* For every body that Lichess may send, every way to cut it into chunks    *)
(* and every limit: what is shown is what was said, and calls end for a     *)
(* reason.  The first part follows StreamContext along the lines that were  *)
(* consumed; the second one relates these lines to the body.               *)
(***************************************************************************)
EXTENDS LichessStream, SequenceTheorems, TLAPS

-----------------------------------------------------------------------------
(***************************************************************************)
(* Lines.                                                                  *)
(***************************************************************************)

LEMMA LineFields ==
  ASSUME NEW l \in Line
  PROVE  /\ l.type \in {"gameFull", "gameState", "opponentGone", "chatLine",
                        "gameStart", "gameFinish", "other", "junk", "empty"}
         /\ l.width \in Nat
         /\ l.width = 0 <=> l.type = "empty"
         /\ l.type = "empty" => l = [type |-> "empty", width |-> 0]
         /\ l.type = "gameFull" =>
              l.start \in Start /\ l.moves \in Moves /\ l.over \in BOOLEAN
         /\ l.type = "gameState" => l.moves \in Moves /\ l.over \in BOOLEAN
         /\ l.type = "opponentGone" => l.gone \in BOOLEAN
<1>1. l \in GameLine
  BY LineAssumption
<1> QED
  BY <1>1 DEF GameLine

\* What is no line of Lichess is junk, and junk is refused.
LEMMA AcceptedIsLine ==
  ASSUME NEW cells, ~Refuses(Parsed(cells))
  PROVE  Parsed(cells) \in Line
<1>1. CASE \E l \in Line : cells = Content(l)
  BY <1>1 DEF Parsed
<1>2. CASE ~\E l \in Line : cells = Content(l)
  BY <1>2 DEF Parsed, Refuses, Junk
<1> QED
  BY <1>1, <1>2

-----------------------------------------------------------------------------
(***************************************************************************)
(* StreamContext.                                                          *)
(***************************************************************************)

\* The current game combines all lines so far, and exists once a gameFull came.
ContextInv ==
  /\ kind \in {"game", "catalog"}
  /\ game \in Game \cup {NoGame}
  /\ heard \in Seq(Line)
  /\ shown \in Seq(Event)
  /\ kind = "game" =>
       /\ game = NoGame <=> "gameFull" \notin Types(heard, Len(heard))
       /\ game # NoGame => Combines(heard, Len(heard), game)
  /\ ShowsWhatWasSaid

\* More lines do not change what the first ones combine to.
LEMMA CombinesStays ==
  ASSUME NEW lines \in Seq(Line), NEW l \in Line, NEW j \in 0..Len(lines), NEW g
  PROVE  Combines(Append(lines, l), j, g) <=> Combines(lines, j, g)
<1> DEFINE all == Append(lines, l)
           State(s, i) == /\ s[i].type \in {"gameFull", "gameState"}
                          /\ s[i].moves = g.moves /\ s[i].over = g.over
                          /\ \A k \in (i + 1)..j : s[k].type \notin {"gameFull", "gameState"}
           Presence(s, i) == /\ s[i].type = "opponentGone" /\ s[i].gone
                             /\ \A k \in (i + 1)..j : s[k].type # "opponentGone"
<1>1. \A i \in 1..j : all[i] = lines[i]
  BY AppendProperties
<1>2. \A i \in 1..j : \A k \in (i + 1)..j : k \in 1..j
  OBVIOUS
<1> HIDE DEF all
<1>3. \A i \in 1..j : State(all, i) <=> State(lines, i)
  BY <1>1, <1>2
<1>4. \A i \in 1..j : Presence(all, i) <=> Presence(lines, i)
  BY <1>1, <1>2
<1>5. ASSUME NEW s
      PROVE  Combines(s, j, g) <=>
               /\ <<g.start, g.moves>> \in Legal
               /\ \A i \in 1..j : s[i].type = "gameFull" => s[i].start = g.start
               /\ \E i \in 1..j : State(s, i)
               /\ g.gone <=> \E i \in 1..j : Presence(s, i)
  BY DEF Combines
<1> HIDE DEF State, Presence
<1>6. Combines(all, j, g) <=> Combines(lines, j, g)
  <2>1. (\E i \in 1..j : State(all, i)) <=> \E i \in 1..j : State(lines, i)
    BY <1>3
  <2>2. (\E i \in 1..j : Presence(all, i)) <=> \E i \in 1..j : Presence(lines, i)
    BY <1>4
  <2>3. (\A i \in 1..j : all[i].type = "gameFull" => all[i].start = g.start)
          <=> \A i \in 1..j : lines[i].type = "gameFull" => lines[i].start = g.start
    BY <1>1
  <2>4. /\ Combines(all, j, g) <=>
             /\ <<g.start, g.moves>> \in Legal
             /\ \A i \in 1..j : all[i].type = "gameFull" => all[i].start = g.start
             /\ \E i \in 1..j : State(all, i)
             /\ g.gone <=> \E i \in 1..j : Presence(all, i)
        /\ Combines(lines, j, g) <=>
             /\ <<g.start, g.moves>> \in Legal
             /\ \A i \in 1..j : lines[i].type = "gameFull" => lines[i].start = g.start
             /\ \E i \in 1..j : State(lines, i)
             /\ g.gone <=> \E i \in 1..j : Presence(lines, i)
    BY <1>5
  <2> QED
    BY <2>1, <2>2, <2>3, <2>4, Zenon
<1> QED
  BY <1>6 DEF all

LEMMA NewLine ==
  ASSUME ContextInv, NEW l \in Line, Hear(l)
  PROVE  /\ Len(heard) \in Nat
         /\ heard' \in Seq(Line) /\ Len(heard') = Len(heard) + 1
         /\ heard'[Len(heard) + 1] = l
         /\ \A i \in 1..Len(heard) : heard'[i] = heard[i] /\ heard[i] \in Line
BY AppendProperties, ElementOfSeq DEF ContextInv, Hear

\* The first gameFull is a game: nothing before it updated one.
LEMMA FullCombines ==
  ASSUME ContextInv, NEW l \in Line, ~Refuses(l), Hear(l), kind = "game",
         l.type = "gameFull"
  PROVE  game' \in Game /\ Combines(heard', Len(heard'), game')
<1>1. /\ game = NoGame /\ l.start \in Start /\ l.moves \in Moves
      /\ l.over \in BOOLEAN /\ <<l.start, l.moves>> \in Legal
  BY LineFields DEF Refuses
<1>2. game' = [start |-> l.start, moves |-> l.moves, over |-> l.over, gone |-> FALSE]
  BY DEF Hear, Updated
<1>3. \A i \in 1..Len(heard) : heard[i].type \notin Updates
  <2>1. "gameFull" \notin Types(heard, Len(heard))
    BY <1>1 DEF ContextInv
  <2>2. \A i \in 1..Len(heard) : heard[i].type \in Updates => "gameFull" \in Types(heard, i)
    BY DEF ContextInv, ShowsWhatWasSaid, OneGameFirst
  <2>3. \A i \in 1..Len(heard) : Types(heard, i) \subseteq Types(heard, Len(heard))
    BY NewLine DEF Types
  <2> QED
    BY <2>1, <2>2, <2>3
<1>4. \A i \in 1..Len(heard') : i = Len(heard) + 1 \/ i \in 1..Len(heard)
  BY NewLine
<1>5. \A i \in 1..Len(heard) : heard'[i].type \notin Updates
  BY <1>3, NewLine
<1> DEFINE n == Len(heard')
<1>6. n \in 1..n /\ heard'[n] = l /\ (n + 1)..n = {}
  BY NewLine
<1>7. \A i \in 1..n : i # n => heard'[i].type \notin Updates
  BY <1>4, <1>5, NewLine
<1>8. \A i \in 1..n : heard'[i].type = "gameFull" => heard'[i].start = game'.start
  BY <1>2, <1>6, <1>7 DEF Updates
<1>9. ~\E i \in 1..n : heard'[i].type = "opponentGone"
  BY <1>6, <1>7 DEF Updates
<1>10. game'.gone <=>
         \E i \in 1..n : /\ heard'[i].type = "opponentGone" /\ heard'[i].gone
                         /\ \A k \in (i + 1)..n : heard'[k].type # "opponentGone"
  BY <1>2, <1>9
<1>11. \E i \in 1..n :
         /\ heard'[i].type \in {"gameFull", "gameState"}
         /\ heard'[i].moves = game'.moves /\ heard'[i].over = game'.over
         /\ \A k \in (i + 1)..n : heard'[k].type \notin {"gameFull", "gameState"}
  BY <1>2, <1>6
<1> QED
  BY <1>1, <1>2, <1>8, <1>10, <1>11 DEF Combines, Game

\* A gameState replaces moves and status, and presence stays.
LEMMA StateCombines ==
  ASSUME ContextInv, NEW l \in Line, ~Refuses(l), Hear(l), kind = "game",
         l.type = "gameState"
  PROVE  game \in Game /\ game' \in Game /\ Combines(heard', Len(heard'), game')
<1> DEFINE n == Len(heard')
<1>1. /\ game \in Game /\ Combines(heard, Len(heard), game)
      /\ l.moves \in Moves /\ l.over \in BOOLEAN
      /\ <<game.start, l.moves>> \in Legal
  BY LineFields DEF Refuses, ContextInv
<1>2. game' = [game EXCEPT !.moves = l.moves, !.over = l.over]
  BY DEF Hear, Updated
<1>3. /\ game' \in Game /\ game'.start = game.start /\ game'.gone = game.gone
      /\ game'.moves = l.moves /\ game'.over = l.over
  BY <1>1, <1>2 DEF Game
<1>4. /\ n \in 1..n /\ heard'[n] = l /\ (n + 1)..n = {} /\ n = Len(heard) + 1
      /\ \A i \in 1..n : i = n \/ (i \in 1..Len(heard) /\ heard'[i] = heard[i])
      /\ \A i \in 1..Len(heard) : i \in 1..n /\ heard'[i] = heard[i]
  BY NewLine
<1>5. \A i \in 1..n : heard'[i].type = "gameFull" => heard'[i].start = game'.start
  BY <1>1, <1>3, <1>4 DEF Combines
<1>6. \E i \in 1..n :
        /\ heard'[i].type \in {"gameFull", "gameState"}
        /\ heard'[i].moves = game'.moves /\ heard'[i].over = game'.over
        /\ \A k \in (i + 1)..n : heard'[k].type \notin {"gameFull", "gameState"}
  BY <1>3, <1>4
<1>7. game'.gone <=>
        \E i \in 1..n : /\ heard'[i].type = "opponentGone" /\ heard'[i].gone
                        /\ \A k \in (i + 1)..n : heard'[k].type # "opponentGone"
  <2>1. ASSUME NEW i \in 1..Len(heard)
        PROVE  (\A k \in (i + 1)..n : heard'[k].type # "opponentGone") <=>
               (\A k \in (i + 1)..Len(heard) : heard[k].type # "opponentGone")
    <3>1. Len(heard) \in Nat
      BY NewLine
    <3>2. \A k \in (i + 1)..n : k = n \/ k \in (i + 1)..Len(heard)
      BY <1>4, <3>1
    <3>3. \A k \in (i + 1)..Len(heard) : k \in (i + 1)..n /\ k \in 1..Len(heard)
      BY <1>4, <3>1
    <3> QED
      BY <1>4, <3>2, <3>3
  <2> DEFINE Old(i) == /\ heard[i].type = "opponentGone" /\ heard[i].gone
                       /\ \A k \in (i + 1)..Len(heard) :
                            heard[k].type # "opponentGone"
             New(i) == /\ heard'[i].type = "opponentGone" /\ heard'[i].gone
                       /\ \A k \in (i + 1)..n : heard'[k].type # "opponentGone"
  <2>2. game.gone <=> \E i \in 1..Len(heard) : Old(i)
    BY <1>1 DEF Combines
  <2>3. \A i \in 1..Len(heard) : Old(i) <=> New(i)
    BY <1>4, <2>1
  <2>4. ~New(n)
    BY <1>4
  <2>5. (\E i \in 1..Len(heard) : Old(i)) <=> (\E i \in 1..n : New(i))
    <3> HIDE DEF Old, New
    <3> QED
      BY <1>4, <2>3, <2>4
  <2> QED
    BY <1>3, <2>2, <2>5
<1> QED
  BY <1>1, <1>3, <1>5, <1>6, <1>7 DEF Combines

\* A line that is no state leaves the last state where it is.
LEMMA StateStaysLast ==
  ASSUME ContextInv, NEW l \in Line, Hear(l), NEW g,
         l.type \notin {"gameFull", "gameState"},
         \E i \in 1..Len(heard) :
           /\ heard[i].type \in {"gameFull", "gameState"}
           /\ heard[i].moves = g.moves /\ heard[i].over = g.over
           /\ \A k \in (i + 1)..Len(heard) :
                heard[k].type \notin {"gameFull", "gameState"}
  PROVE  \E i \in 1..Len(heard') :
           /\ heard'[i].type \in {"gameFull", "gameState"}
           /\ heard'[i].moves = g.moves /\ heard'[i].over = g.over
           /\ \A k \in (i + 1)..Len(heard') :
                heard'[k].type \notin {"gameFull", "gameState"}
<1>1. PICK i \in 1..Len(heard) :
        /\ heard[i].type \in {"gameFull", "gameState"}
        /\ heard[i].moves = g.moves /\ heard[i].over = g.over
        /\ \A k \in (i + 1)..Len(heard) :
             heard[k].type \notin {"gameFull", "gameState"}
  OBVIOUS
<1>2. i \in 1..Len(heard') /\ heard'[i] = heard[i]
  BY NewLine
<1>3. \A k \in (i + 1)..Len(heard') : k = Len(heard) + 1
                                  \/ (k \in (i + 1)..Len(heard) /\ k \in 1..Len(heard))
  BY NewLine
<1>4. \A k \in (i + 1)..Len(heard') : heard'[k].type \notin {"gameFull", "gameState"}
  BY <1>1, <1>3, NewLine
<1> QED
  BY <1>1, <1>2, <1>4

\* An opponentGone only replaces presence.
LEMMA PresenceCombines ==
  ASSUME ContextInv, NEW l \in Line, ~Refuses(l), Hear(l), kind = "game",
         l.type = "opponentGone"
  PROVE  game \in Game /\ game' \in Game /\ Combines(heard', Len(heard'), game')
<1> DEFINE n == Len(heard')
<1>1. /\ game \in Game /\ Combines(heard, Len(heard), game) /\ l.gone \in BOOLEAN
  BY LineFields DEF Refuses, ContextInv
<1>2. game' = [game EXCEPT !.gone = l.gone]
  BY DEF Hear, Updated
<1>3. /\ game' \in Game /\ game'.start = game.start /\ game'.gone = l.gone
      /\ game'.moves = game.moves /\ game'.over = game.over
  BY <1>1, <1>2 DEF Game
<1>4. /\ n \in 1..n /\ heard'[n] = l /\ (n + 1)..n = {}
      /\ \A i \in 1..n : i = n \/ (i \in 1..Len(heard) /\ heard'[i] = heard[i])
      /\ \A i \in 1..n : i # n => n \in (i + 1)..n
  BY NewLine
<1>5. \A i \in 1..n : heard'[i].type = "gameFull" => heard'[i].start = game'.start
  BY <1>1, <1>3, <1>4 DEF Combines
<1>6. \E i \in 1..n :
        /\ heard'[i].type \in {"gameFull", "gameState"}
        /\ heard'[i].moves = game'.moves /\ heard'[i].over = game'.over
        /\ \A k \in (i + 1)..n : heard'[k].type \notin {"gameFull", "gameState"}
  <2>1. \E i \in 1..Len(heard) :
          /\ heard[i].type \in {"gameFull", "gameState"}
          /\ heard[i].moves = game.moves /\ heard[i].over = game.over
          /\ \A k \in (i + 1)..Len(heard) :
               heard[k].type \notin {"gameFull", "gameState"}
    BY <1>1 DEF Combines
  <2>2. \E i \in 1..n :
          /\ heard'[i].type \in {"gameFull", "gameState"}
          /\ heard'[i].moves = game.moves /\ heard'[i].over = game.over
          /\ \A k \in (i + 1)..n : heard'[k].type \notin {"gameFull", "gameState"}
    BY <2>1, StateStaysLast, SMTT(30)
  <2> QED
    BY <1>3, <2>2
<1>7. game'.gone <=>
        \E i \in 1..n : /\ heard'[i].type = "opponentGone" /\ heard'[i].gone
                        /\ \A k \in (i + 1)..n : heard'[k].type # "opponentGone"
  BY <1>3, <1>4
<1> QED
  BY <1>1, <1>3, <1>5, <1>6, <1>7 DEF Combines

\* The other lines change nothing.
LEMMA OthersCombine ==
  ASSUME ContextInv, NEW l \in Line, Hear(l), kind = "game",
         l.type \notin Updates, game # NoGame
  PROVE  game' = game /\ Combines(heard', Len(heard'), game')
<1> DEFINE n == Len(heard')
<1>1. Combines(heard, Len(heard), game) /\ game \in Game
  BY DEF ContextInv
<1>2. game' = game
  BY DEF Hear, Updated, Updates
<1>4. /\ n \in 1..n /\ heard'[n] = l /\ n = Len(heard) + 1 /\ Len(heard) \in Nat
      /\ \A i \in 1..n : i = n \/ (i \in 1..Len(heard) /\ heard'[i] = heard[i])
      /\ \A i \in 1..Len(heard) : i \in 1..n /\ heard'[i] = heard[i]
  BY NewLine
<1>5. \A i \in 1..n : heard'[i].type = "gameFull" => heard'[i].start = game.start
  BY <1>1, <1>4 DEF Combines, Updates
<1>6. \E i \in 1..n :
        /\ heard'[i].type \in {"gameFull", "gameState"}
        /\ heard'[i].moves = game.moves /\ heard'[i].over = game.over
        /\ \A k \in (i + 1)..n : heard'[k].type \notin {"gameFull", "gameState"}
  <2>1. \E i \in 1..Len(heard) :
          /\ heard[i].type \in {"gameFull", "gameState"}
          /\ heard[i].moves = game.moves /\ heard[i].over = game.over
          /\ \A k \in (i + 1)..Len(heard) :
               heard[k].type \notin {"gameFull", "gameState"}
    BY <1>1 DEF Combines
  <2> QED
    BY <2>1, StateStaysLast DEF Updates
<1>7. game.gone <=>
        \E i \in 1..n : /\ heard'[i].type = "opponentGone" /\ heard'[i].gone
                        /\ \A k \in (i + 1)..n : heard'[k].type # "opponentGone"
  <2> DEFINE Old(i) == /\ heard[i].type = "opponentGone" /\ heard[i].gone
                       /\ \A k \in (i + 1)..Len(heard) :
                            heard[k].type # "opponentGone"
             New(i) == /\ heard'[i].type = "opponentGone" /\ heard'[i].gone
                       /\ \A k \in (i + 1)..n : heard'[k].type # "opponentGone"
  <2>1. game.gone <=> \E i \in 1..Len(heard) : Old(i)
    BY <1>1 DEF Combines
  <2>2. \A i \in 1..Len(heard) :
          /\ \A k \in (i + 1)..n : k = n \/ k \in (i + 1)..Len(heard)
          /\ \A k \in (i + 1)..Len(heard) : k \in (i + 1)..n /\ k \in 1..Len(heard)
    BY <1>4
  <2>3. \A i \in 1..Len(heard) : Old(i) <=> New(i)
    BY <1>4, <2>2 DEF Updates
  <2>4. ~New(n)
    BY <1>4 DEF Updates
  <2>5. (\E i \in 1..Len(heard) : Old(i)) <=> (\E i \in 1..n : New(i))
    <3> HIDE DEF Old, New
    <3> QED
      BY <1>4, <2>3, <2>4
  <2> QED
    BY <2>1, <2>5
<1> QED
  BY <1>1, <1>2, <1>5, <1>6, <1>7 DEF Combines

LEMMA GameAfterLine ==
  ASSUME ContextInv, NEW l \in Line, ~Refuses(l), Hear(l), kind = "game"
  PROVE  /\ l.type \in Updates => game' \in Game
         /\ l.type \notin Updates => game' = game
         /\ game' \in Game \cup {NoGame}
         /\ game' # NoGame => Combines(heard', Len(heard'), game')
         /\ game' = NoGame <=> game = NoGame /\ l.type # "gameFull"
<1>1. NoGame \notin Game
  BY NoGameAssumption DEF Game
<1>2. l.type \notin Updates => game' = game
  BY DEF Hear, Updated, Updates
<1>3. CASE l.type = "gameFull"
  BY <1>1, <1>3, FullCombines DEF Updates
<1>4. CASE l.type = "gameState"
  BY <1>1, <1>4, StateCombines DEF Updates
<1>5. CASE l.type = "opponentGone"
  BY <1>1, <1>5, PresenceCombines DEF Updates
<1>6. CASE l.type \notin Updates
  BY <1>1, <1>2, <1>6, OthersCombine DEF Updates, ContextInv
<1> QED
  BY <1>3, <1>4, <1>5, <1>6 DEF Updates

LEMMA EventAfterLine ==
  ASSUME ContextInv, NEW l \in Line, ~Refuses(l), Hear(l)
  PROVE  /\ EventFor(l) \in Event
         /\ kind = "game" /\ l.type \in Updates =>
              EventFor(l) = [type |-> "gameUpdated", game |-> game']
<1>1. CASE kind = "game" /\ l.type \in Updates
  <2>1. game' \in Game /\ game' = Updated(l)
    BY <1>1, GameAfterLine DEF Hear
  <2>2. EventFor(l) = [type |-> "gameUpdated", game |-> game']
    BY <1>1, <2>1 DEF EventFor, Updates
  <2> QED
    BY <2>1, <2>2 DEF Event
<1>2. CASE ~(kind = "game" /\ l.type \in Updates)
  <2>1. \/ EventFor(l) = [type |-> "chat"]
        \/ EventFor(l) = [type |-> "changed"]
        \/ EventFor(l) = [type |-> "nothing"]
    <3>1. CASE kind = "game" /\ l.type = "chatLine"
      <4>1. EventFor(l) = [type |-> "chat"]
        BY <1>2, <3>1 DEF EventFor, Updates
      <4> QED
        BY <4>1
    <3>2. CASE kind = "catalog" /\ l.type \in {"gameStart", "gameFinish"}
      <4>1. EventFor(l) = [type |-> "changed"]
        BY <1>2, <3>2 DEF EventFor, Updates
      <4> QED
        BY <4>1
    <3>3. CASE /\ ~(kind = "game" /\ l.type = "chatLine")
               /\ ~(kind = "catalog" /\ l.type \in {"gameStart", "gameFinish"})
      <4>1. EventFor(l) = [type |-> "nothing"]
        BY <1>2, <3>3, Zenon DEF EventFor
      <4> QED
        BY <4>1
    <3> QED
      BY <3>1, <3>2, <3>3
  <2> QED
    BY <1>2, <2>1 DEF Event
<1> QED
  BY <1>1, <1>2

LEMMA HearKeepsContext ==
  ASSUME ContextInv, NEW l \in Line, ~Refuses(l), Hear(l), kind' = kind
  PROVE  ContextInv'
<1> DEFINE n == Len(heard')
<1>1. /\ n = Len(heard) + 1 /\ Len(heard) \in Nat /\ heard' \in Seq(Line)
      /\ heard'[n] = l
      /\ \A i \in 1..n : i = n \/ i \in 1..Len(heard)
      /\ \A i \in 1..Len(heard) : i \in 1..n /\ heard'[i] = heard[i]
  BY NewLine
<1>2. /\ shown' \in Seq(Event) /\ Len(shown') = Len(shown) + 1
      /\ Len(shown) = Len(heard)
      /\ shown'[n] = EventFor(l)
      /\ \A i \in 1..Len(heard) : shown'[i] = shown[i]
  BY <1>1, EventAfterLine, AppendProperties DEF Hear, ContextInv, ShowsWhatWasSaid
<1>3. \A t : t \in Types(heard', n) <=> t \in Types(heard, Len(heard)) \/ t = l.type
  BY <1>1 DEF Types
<1>4. \A j \in 1..Len(heard) :
        Types(heard', j) = Types(heard, j) /\ Types(heard', j - 1) = Types(heard, j - 1)
  BY <1>1, SMTT(30) DEF Types
<1>5. Types(heard', n - 1) = Types(heard, Len(heard))
  BY <1>1 DEF Types
<1>6. game' \in Game \cup {NoGame}
  <2>1. CASE kind = "game"
    BY <2>1, GameAfterLine
  <2>2. CASE kind = "catalog"
    BY <2>2 DEF Hear, Updated, ContextInv
  <2> QED
    BY <2>1, <2>2 DEF ContextInv
<1>7. ASSUME kind = "game"
      PROVE  /\ game' = NoGame <=> "gameFull" \notin Types(heard', n)
             /\ game' # NoGame => Combines(heard', n, game')
  BY <1>3, <1>7, GameAfterLine DEF ContextInv
<1>8. ASSUME kind = "game"
      PROVE  OneGameFirst'
  <2>1. ASSUME NEW j \in 1..Len(heard)
        PROVE  /\ heard'[j].type \in Updates => "gameFull" \in Types(heard', j)
               /\ heard'[j].type = "gameFull" =>
                    heard'[j].id = Requested /\ "gameFull" \notin Types(heard', j - 1)
    BY <1>1, <1>4, <1>8 DEF ContextInv, ShowsWhatWasSaid, OneGameFirst
  <2>2. l.type \in Updates => "gameFull" \in Types(heard', n)
    BY <1>3, <1>8, LineFields DEF Refuses, Updates, ContextInv
  <2>3. l.type = "gameFull" => l.id = Requested /\ "gameFull" \notin Types(heard', n - 1)
    BY <1>5, <1>8 DEF Refuses, ContextInv
  <2> QED
    BY <1>1, <2>1, <2>2, <2>3 DEF OneGameFirst
<1>9. ASSUME kind = "game", NEW j \in 1..n, heard'[j].type \in Updates
      PROVE  shown'[j].type = "gameUpdated" /\ Combines(heard', j, shown'[j].game)
  <2>1. CASE j \in 1..Len(heard)
    <3>1. shown[j].type = "gameUpdated" /\ Combines(heard, j, shown[j].game)
      BY <1>1, <1>9, <2>1 DEF ContextInv, ShowsWhatWasSaid
    <3>2. Combines(heard', j, shown[j].game)
      BY <1>1, <2>1, <3>1, CombinesStays DEF Hear, ContextInv
    <3> QED
      BY <1>2, <2>1, <3>1, <3>2
  <2>2. CASE j = n
    <3>1. shown'[n] = [type |-> "gameUpdated", game |-> game'] /\ l.type \in Updates
      BY <1>1, <1>2, <1>9, <2>2, EventAfterLine
    <3>2. game' # NoGame
      BY <1>9, <3>1, GameAfterLine, NoGameAssumption DEF Game
    <3> QED
      BY <1>7, <1>9, <2>2, <3>1, <3>2
  <2> QED
    BY <1>1, <2>1, <2>2
<1>10. ShowsWhatWasSaid'
  BY <1>1, <1>2, <1>8, <1>9 DEF ShowsWhatWasSaid
<1> QED
  BY <1>1, <1>2, <1>6, <1>7, <1>10 DEF ContextInv

LEMMA InitContext == Init => ContextInv
<1> SUFFICES ASSUME Init PROVE ContextInv
  OBVIOUS
<1>1. heard = <<>> /\ shown = <<>> /\ game = NoGame /\ kind \in {"game", "catalog"}
  BY DEF Init
<1>2. heard \in Seq(Line) /\ Len(heard) = 0
  BY <1>1, EmptySeq
<1>3. shown \in Seq(Event) /\ Len(shown) = 0
  BY <1>1, EmptySeq
<1>4. Types(heard, Len(heard)) = {}
  BY <1>2 DEF Types
<1>5. ShowsWhatWasSaid
  BY <1>2, <1>3 DEF ShowsWhatWasSaid, OneGameFirst
<1> QED
  BY <1>1, <1>2, <1>3, <1>4, <1>5 DEF ContextInv

LEMMA StepContext ==
  ASSUME ContextInv, [Next]_vars
  PROVE  ContextInv'
<1>1. CASE UNCHANGED <<kind, context>>
  <2>1. kind' = kind /\ game' = game /\ heard' = heard /\ shown' = shown
    BY <1>1 DEF context
  <2>2. OneGameFirst <=> OneGameFirst'
    BY <2>1 DEF OneGameFirst
  <2>3. ShowsWhatWasSaid <=> ShowsWhatWasSaid'
    BY <2>1, <2>2 DEF ShowsWhatWasSaid
  <2> QED
    BY <2>1, <2>3 DEF ContextInv
<1>2. CASE TakeLine
  <2>1. kind' = kind
    BY <1>2 DEF TakeLine
  <2> DEFINE i == CHOOSE i \in Newlines(buffer) :
                    \A j \in Newlines(buffer) : i <= j
             l == Parsed(WithoutCR(SubSeq(buffer, 1, i - 1)))
  <2>2. UNCHANGED context \/ (~Refuses(l) /\ Hear(l))
    <3> HIDE DEF l
    <3> QED
      BY <1>2 DEF TakeLine, l
  <2>3. CASE ~Refuses(l) /\ Hear(l)
    BY <2>1, <2>3, AcceptedIsLine, HearKeepsContext
  <2> QED
    BY <1>1, <2>1, <2>2, <2>3
<1>3. CASE FinishBody
  <2>1. kind' = kind
    BY <1>3 DEF FinishBody
  <2>2. CASE ~Refuses(Parsed(buffer)) /\ Hear(Parsed(buffer))
    BY <2>1, <2>2, AcceptedIsLine, HearKeepsContext
  <2> QED
    BY <1>1, <1>3, <2>1, <2>2 DEF FinishBody
<1>4. CASE UNCHANGED vars
  BY <1>1, <1>4 DEF vars
<1>5. CASE (\E l \in Line : Say(l)) \/ Close
  BY <1>1, <1>5 DEF Say, Close
<1>6. CASE Respond \/ ReceiveChunk \/ CheckBuffer \/ BreakConnection
  BY <1>1, <1>6 DEF Respond, ReceiveChunk, CheckBuffer, BreakConnection
<1> QED
  BY <1>2, <1>3, <1>4, <1>5, <1>6 DEF Next

\* What the sink got is what the lines say, all of them, in their order.
THEOREM SnapshotsAreFaithful == Spec => []ShowsWhatWasSaid
<1>1. Init => ContextInv
  BY InitContext
<1>2. ContextInv /\ [Next]_vars => ContextInv'
  BY StepContext
<1>3. ContextInv => ShowsWhatWasSaid
  BY DEF ContextInv
<1> QED
  BY <1>1, <1>2, <1>3, PTL DEF Spec

-----------------------------------------------------------------------------
(***************************************************************************)
(* The body.                                                               *)
(***************************************************************************)

\* The cells after position a and up to b hold utterance u, with a CR if cr.
Holds(cr, cells, a, b, u) ==
  /\ \A k \in 1..u.line.width :
       a + k <= b => cells[a + k] = [line |-> u.line, part |-> k]
  /\ IF u.whole
     THEN /\ b = a + u.line.width + (IF cr THEN 2 ELSE 1)
          /\ cr => cells[b - 1] = CR
          /\ cells[b] = LF
     ELSE b \in (a + 1)..(a + u.line.width)

\* The cells are what the utterances after the first h take: number n ends at
\* position f[n].
Framed(cr, cells, lines, h, f) ==
  /\ f \in [h..Len(lines) -> 0..Len(cells)]
  /\ h <= Len(lines)
  /\ f[h] = 0
  /\ f[Len(lines)] = Len(cells)
  /\ \A m, n \in h..Len(lines) : m < n => f[m] < f[n]
  /\ \A n \in (h + 1)..Len(lines) : Holds(cr, cells, f[n - 1], f[n], lines[n])

LEMMA CellsDiffer ==
  ASSUME NEW l \in Line, NEW k \in Nat
  PROVE  /\ [line |-> l, part |-> k] \in Cell
         /\ [line |-> l, part |-> k] # LF /\ [line |-> l, part |-> k] # CR
         /\ CR \in Cell /\ LF \in Cell /\ CR # LF
BY ControlAssumption DEF Cell

LEMMA ContentCells ==
  ASSUME NEW l \in Line
  PROVE  /\ Content(l) \in Seq(Cell) /\ Len(Content(l)) = l.width
         /\ \A k \in 1..l.width : Content(l)[k] = [line |-> l, part |-> k]
<1>1. l.width \in Nat
  BY LineFields
<1>2. Content(l) \in [1..l.width -> Cell]
  BY <1>1, CellsDiffer DEF Content
<1> QED
  BY <1>1, <1>2, SeqDef DEF Content

\* A line is read back from its bytes, and from nothing less.
LEMMA ParsedBack ==
  ASSUME NEW l \in Line, NEW cells \in Seq(Cell), Len(cells) <= l.width,
         Len(cells) = 0 => l.width = 0,
         \A k \in 1..Len(cells) : cells[k] = [line |-> l, part |-> k]
  PROVE  Parsed(cells) = IF Len(cells) = l.width THEN l ELSE Junk
<1>1. l.width \in Nat /\ Len(cells) \in Nat
  BY LineFields
<1>2. ASSUME NEW m \in Line, cells = Content(m)
      PROVE  m = l
  <2>1. Len(cells) = m.width /\ \A k \in 1..m.width : cells[k] = [line |-> m, part |-> k]
    BY <1>2, ContentCells
  <2>2. CASE Len(cells) = 0
    BY <2>1, <2>2, LineFields
  <2>3. CASE Len(cells) # 0
    <3>1. cells[1] = [line |-> m, part |-> 1] /\ cells[1] = [line |-> l, part |-> 1]
      BY <1>1, <2>1, <2>3
    <3> QED
      BY <3>1
  <2> QED
    BY <2>2, <2>3
<1>3. CASE Len(cells) = l.width
  <2>1. /\ Content(l) \in Seq(Cell) /\ Len(cells) = Len(Content(l))
        /\ \A k \in 1..Len(cells) : cells[k] = Content(l)[k]
    BY <1>3, ContentCells
  <2>2. cells = Content(l)
    BY <2>1, SeqEqual
  <2> QED
    BY <1>2, <1>3, <2>2 DEF Parsed
<1>4. CASE Len(cells) # l.width
  <2>1. ~\E m \in Line : cells = Content(m)
    BY <1>2, <1>4, ContentCells
  <2> QED
    BY <1>4, <2>1 DEF Parsed
<1> QED
  BY <1>3, <1>4

LEMMA FramedFacts ==
  ASSUME NEW cr \in BOOLEAN, NEW cells \in Seq(Cell), NEW lines \in Seq(Utterance),
         NEW h \in Nat, NEW f, Framed(cr, cells, lines, h, f), h < Len(lines)
  PROVE  /\ Len(lines) \in Nat /\ Len(cells) \in Nat
         /\ h + 1 \in h..Len(lines) /\ f[h + 1] \in 1..Len(cells) /\ f[h] = 0
         /\ lines[h + 1] \in Utterance
         /\ lines[h + 1].line \in Line /\ lines[h + 1].whole \in BOOLEAN
         /\ lines[h + 1].line.width \in Nat
         /\ Holds(cr, cells, 0, f[h + 1], lines[h + 1])
<1>1. /\ Len(lines) \in Nat /\ Len(cells) \in Nat /\ h + 1 \in h..Len(lines)
      /\ h + 1 \in 1..Len(lines) /\ h + 1 \in (h + 1)..Len(lines) /\ h \in h..Len(lines)
      /\ (h + 1) - 1 = h
  OBVIOUS
<1>2. f[h] < f[h + 1] /\ f[h] = 0 /\ f[h + 1] \in 0..Len(cells)
  BY <1>1 DEF Framed
<1>3. lines[h + 1] \in Utterance
  BY <1>1, ElementOfSeq
<1>4. Holds(cr, cells, 0, f[h + 1], lines[h + 1])
  BY <1>1, <1>2 DEF Framed
<1>5. lines[h + 1].line \in Line /\ lines[h + 1].whole \in BOOLEAN
  BY <1>3 DEF Utterance
<1> QED
  BY <1>1, <1>2, <1>3, <1>4, <1>5, LineFields

\* The first LF of the body ends its first line, and without it and its CR the
\* line is what it was.
LEMMA FirstNewline ==
  ASSUME NEW cr \in BOOLEAN, NEW cells \in Seq(Cell), NEW lines \in Seq(Utterance),
         NEW h \in Nat, NEW f, Framed(cr, cells, lines, h, f),
         NEW i \in 1..Len(cells), cells[i] = LF,
         \A n \in 1..Len(lines) : ~lines[n].whole => n = Len(lines)
  PROVE  /\ h < Len(lines) /\ lines[h + 1].whole
         /\ f[h + 1] \in 1..i /\ cells[f[h + 1]] = LF
         /\ \A k \in 1..(f[h + 1] - 1) : cells[k] # LF
         /\ Parsed(WithoutCR(SubSeq(cells, 1, f[h + 1] - 1))) = lines[h + 1].line
<1>1. h < Len(lines)
  BY DEF Framed
<1> DEFINE u == lines[h + 1]
           b == f[h + 1]
           w == u.line.width
<1>2. /\ Len(lines) \in Nat /\ Len(cells) \in Nat /\ b \in 1..Len(cells)
      /\ u.line \in Line /\ u.whole \in BOOLEAN /\ w \in Nat
      /\ Holds(cr, cells, 0, b, u)
  BY <1>1, FramedFacts
<1>3. \A k \in 1..w : k <= b => cells[k] = [line |-> u.line, part |-> k] /\ cells[k] # LF
  BY <1>2, CellsDiffer DEF Holds
<1>4. u.whole
  <2> SUFFICES ASSUME ~u.whole PROVE FALSE
    BY <1>2
  <2>1. h + 1 = Len(lines) /\ b = Len(cells)
    BY <1>1, <1>2 DEF Framed
  <2>2. b <= w
    BY <1>2 DEF Holds
  <2>3. i \in 1..w /\ i <= b
    BY <1>2, <2>1, <2>2
  <2> QED
    BY <1>3, <2>3
<1>5. b = w + (IF cr THEN 2 ELSE 1) /\ (cr => cells[b - 1] = CR) /\ cells[b] = LF
  BY <1>2, <1>4 DEF Holds
<1>6. \A k \in 1..(b - 1) : cells[k] # LF
  <2> SUFFICES ASSUME NEW k \in 1..(b - 1) PROVE cells[k] # LF
    OBVIOUS
  <2> HIDE DEF b, w
  <2>1. CASE cr
    <3>1. (k \in 1..w /\ k <= b) \/ k = b - 1
      BY <1>2, <1>5, <2>1
    <3>2. cells[b - 1] # LF
      BY <1>5, <2>1, ControlAssumption
    <3> QED
      BY <1>3, <3>1, <3>2
  <2>2. CASE ~cr
    <3>1. k \in 1..w /\ k <= b
      BY <1>2, <1>5, <2>2
    <3> QED
      BY <1>3, <3>1
  <2> QED
    BY <2>1, <2>2
<1>7. b <= i
  BY <1>2, <1>6
<1> HIDE DEF b, w
<1> DEFINE front == SubSeq(cells, 1, b - 1)
<1>8. /\ front \in Seq(Cell) /\ Len(front) = b - 1
      /\ \A k \in 1..(b - 1) : front[k] = cells[k]
  <2>1. \A k \in 1..(b - 1) : cells[k] \in Cell
    BY <1>2, ElementOfSeq
  <2> QED
    BY <1>2, <2>1, SubSeqProperties
<1>9. /\ WithoutCR(front) \in Seq(Cell) /\ Len(WithoutCR(front)) = w
      /\ \A k \in 1..w : WithoutCR(front)[k] = cells[k]
  <2> HIDE DEF front
  <2>1. CASE cr
    <3>1. Len(front) = w + 1 /\ front[w + 1] = CR /\ w + 1 \in 1..(b - 1)
      BY <1>2, <1>5, <1>7, <1>8, <2>1
    <3>4. front # <<>>
      BY <1>2, <3>1, EmptySeq
    <3>2. WithoutCR(front) = SubSeq(front, 1, w)
      BY <1>2, <3>1, <3>4 DEF WithoutCR
    <3>3. \A k \in 1..w : front[k] \in Cell
      BY <1>2, <1>8, <3>1, ElementOfSeq
    <3>5. /\ SubSeq(front, 1, w) \in Seq(Cell) /\ Len(SubSeq(front, 1, w)) = w
          /\ \A k \in 1..w : SubSeq(front, 1, w)[k] = front[k]
      BY <1>2, <3>3, SubSeqProperties
    <3> QED
      BY <1>2, <1>8, <3>1, <3>2, <3>5
  <2>2. CASE ~cr
    <3>1. Len(front) = w
      BY <1>2, <1>5, <1>7, <1>8, <2>2
    <3>2. front # <<>> => front[Len(front)] # CR
      <4> SUFFICES ASSUME front # <<>> PROVE front[Len(front)] # CR
        OBVIOUS
      <4>1. Len(front) \in 1..w
        BY <1>2, <1>8, <3>1, EmptySeq
      <4>2. front[Len(front)] = [line |-> u.line, part |-> Len(front)]
        BY <1>2, <1>3, <1>5, <1>7, <1>8, <3>1, <4>1
      <4> QED
        BY <1>2, <4>1, <4>2, CellsDiffer
    <3>3. WithoutCR(front) = front
      BY <3>2 DEF WithoutCR
    <3> QED
      BY <1>8, <3>1, <3>3
  <2> QED
    BY <2>1, <2>2
<1>10. Parsed(WithoutCR(front)) = u.line
  <2>1. \A k \in 1..Len(WithoutCR(front)) :
          WithoutCR(front)[k] = [line |-> u.line, part |-> k]
    <3> HIDE DEF front
    <3>1. w <= b
      BY <1>2, <1>5
    <3>2. \A k \in 1..w : cells[k] = [line |-> u.line, part |-> k]
      BY <1>2, <1>3, <3>1
    <3> QED
      BY <1>9, <3>2
  <2> HIDE DEF front
  <2>2. u.line.width = Len(WithoutCR(front)) /\ w = u.line.width
    BY <1>9 DEF w
  <2>3. Len(WithoutCR(front)) = 0 => u.line.width = 0
    BY <2>2
  <2>4. Len(WithoutCR(front)) <= u.line.width
    BY <1>2, <2>2
  <2> HIDE DEF u
  <2> QED
    BY <1>2, <1>9, <2>1, <2>2, <2>3, <2>4, ParsedBack
<1> QED
  BY <1>1, <1>4, <1>7, <1>10, <1>2, <1>5, <1>6 DEF b

LEMMA SuffixCells ==
  ASSUME NEW s \in Seq(Cell), NEW i \in 1..Len(s)
  PROVE  /\ SubSeq(s, i + 1, Len(s)) \in Seq(Cell)
         /\ Len(SubSeq(s, i + 1, Len(s))) = Len(s) - i
         /\ \A k \in 1..(Len(s) - i) : SubSeq(s, i + 1, Len(s))[k] = s[i + k]
<1> DEFINE m == i + 1
<1>1. m \in Int /\ Len(s) \in Int /\ \A k \in m..Len(s) : s[k] \in Cell
  BY ElementOfSeq
<1>2. m = i + 1
  OBVIOUS
<1> HIDE DEF m
<1>3. /\ SubSeq(s, m, Len(s)) \in Seq(Cell)
      /\ Len(SubSeq(s, m, Len(s))) = IF m <= Len(s) THEN Len(s) - m + 1 ELSE 0
      /\ \A k \in 1..(Len(s) - m + 1) : SubSeq(s, m, Len(s))[k] = s[m + k - 1]
  BY <1>1, SubSeqProperties
<1>4. /\ Len(s) - m + 1 = Len(s) - i
      /\ (IF m <= Len(s) THEN Len(s) - m + 1 ELSE 0) = Len(s) - i
      /\ \A k \in 1..(Len(s) - i) : m + k - 1 = i + k
  BY <1>1, <1>2
<1> QED
  BY <1>2, <1>3, <1>4

\* What cells hold does not depend on where they are.
LEMMA HoldsThere ==
  ASSUME NEW cr \in BOOLEAN, NEW cells, NEW others, NEW a \in Nat, NEW b \in Nat,
         NEW d \in Int, NEW u \in Utterance, Holds(cr, cells, a, b, u),
         \A k \in (a + 1)..b : others[k + d] = cells[k]
  PROVE  Holds(cr, others, a + d, b + d, u)
<1>1. u.line.width \in Nat /\ u.whole \in BOOLEAN
  BY LineFields DEF Utterance
<1> DEFINE w == u.line.width
<1>2. ASSUME NEW k \in 1..w, (a + d) + k <= b + d
      PROVE  others[(a + d) + k] = [line |-> u.line, part |-> k]
  <2>1. a + k \in (a + 1)..b /\ (a + k) + d = (a + d) + k
    BY <1>1, <1>2
  <2>2. cells[a + k] = [line |-> u.line, part |-> k]
    BY <1>1, <2>1 DEF Holds
  <2> QED
    BY <2>1, <2>2
<1>3. CASE u.whole
  <2>1. b = a + w + (IF cr THEN 2 ELSE 1) /\ (cr => cells[b - 1] = CR) /\ cells[b] = LF
    BY <1>3 DEF Holds
  <2>2. b + d = (a + d) + w + (IF cr THEN 2 ELSE 1) /\ b \in (a + 1)..b
    BY <1>1, <2>1
  <2>3. others[b + d] = LF
    BY <2>1, <2>2
  <2>4. ASSUME cr PROVE others[(b + d) - 1] = CR
    <3>1. b - 1 \in (a + 1)..b /\ (b - 1) + d = (b + d) - 1
      BY <1>1, <2>1, <2>4
    <3>2. others[(b - 1) + d] = cells[b - 1]
      BY <3>1
    <3> QED
      BY <2>1, <2>4, <3>1, <3>2
  <2> QED
    BY <1>2, <1>3, <2>2, <2>3, <2>4 DEF Holds
<1>4. CASE ~u.whole
  <2>1. b \in (a + 1)..(a + w)
    BY <1>4 DEF Holds
  <2>2. b + d \in ((a + d) + 1)..((a + d) + w)
    BY <1>1, <2>1
  <2> QED
    BY <1>2, <1>4, <2>2 DEF Holds
<1> QED
  BY <1>1, <1>3, <1>4

\* Without its first line, the body is that of the remaining ones.
LEMMA DropFirst ==
  ASSUME NEW cr \in BOOLEAN, NEW cells \in Seq(Cell), NEW lines \in Seq(Utterance),
         NEW h \in Nat, NEW f, Framed(cr, cells, lines, h, f), h < Len(lines)
  PROVE  \E g : Framed(cr, SubSeq(cells, f[h + 1] + 1, Len(cells)), lines, h + 1, g)
<1> DEFINE b == f[h + 1]
           rest == SubSeq(cells, b + 1, Len(cells))
           g == [n \in (h + 1)..Len(lines) |-> f[n] - b]
<1>1. /\ Len(lines) \in Nat /\ Len(cells) \in Nat /\ b \in 1..Len(cells)
      /\ h + 1 \in h..Len(lines) /\ Len(lines) \in h..Len(lines)
      /\ \A n \in (h + 1)..Len(lines) : n \in h..Len(lines)
  BY FramedFacts
<1>2. /\ f[Len(lines)] = Len(cells)
      /\ \A m, n \in h..Len(lines) : m < n => f[m] < f[n]
      /\ \A n \in h..Len(lines) : f[n] \in Nat /\ f[n] <= Len(cells)
  <2>1. \A n \in h..Len(lines) : f[n] \in 0..Len(cells)
    BY DEF Framed
  <2>2. \A n \in h..Len(lines) : f[n] \in Nat /\ f[n] <= Len(cells)
    BY <1>1, <2>1
  <2> QED
    BY <2>2 DEF Framed
<1>3. /\ rest \in Seq(Cell) /\ Len(rest) = Len(cells) - b
      /\ \A k \in (b + 1)..Len(cells) : rest[k + (0 - b)] = cells[k]
  <2>2. \A k \in 1..(Len(cells) - b) : rest[k] = cells[b + k]
    BY <1>1, SuffixCells
  <2>3. rest \in Seq(Cell) /\ Len(rest) = Len(cells) - b
    BY <1>1, SuffixCells
  <2> HIDE DEF rest, b
  <2>4. \A k \in (b + 1)..Len(cells) :
          k + (0 - b) \in 1..(Len(cells) - b) /\ b + (k + (0 - b)) = k
    BY <1>1
  <2> QED
    BY <2>2, <2>3, <2>4
<1>4. \A n \in (h + 1)..Len(lines) : b <= f[n] /\ g[n] = f[n] - b
  BY <1>1, <1>2
<1>5. g \in [(h + 1)..Len(lines) -> 0..Len(rest)]
  <2>1. ASSUME NEW n \in (h + 1)..Len(lines)
        PROVE  f[n] - b \in 0..Len(rest)
    <3>1. n \in h..Len(lines)
      BY <1>1
    <3>2. f[n] \in Nat /\ f[n] <= Len(cells) /\ b <= f[n]
      BY <1>2, <1>4, <3>1
    <3>3. Len(rest) = Len(cells) - b /\ b \in Nat /\ Len(cells) \in Nat
      BY <1>1, <1>3
    <3> HIDE DEF rest, g, b
    <3> QED
      BY <3>2, <3>3
  <2> QED
    BY <2>1
<1>6. h + 1 <= Len(lines) /\ g[h + 1] = 0 /\ g[Len(lines)] = Len(rest)
  <2>1. /\ h + 1 <= Len(lines)
        /\ h + 1 \in (h + 1)..Len(lines) /\ Len(lines) \in (h + 1)..Len(lines)
    BY <1>1
  <2>2. g[h + 1] = f[h + 1] - b /\ g[Len(lines)] = f[Len(lines)] - b
    BY <1>4, <2>1
  <2>3. g[Len(lines)] = Len(rest)
    BY <1>2, <1>3, <2>2
  <2>4. f[h + 1] - b = 0
    BY <1>1
  <2> HIDE DEF g
  <2> QED
    BY <2>1, <2>2, <2>3, <2>4
<1>7. \A m, n \in (h + 1)..Len(lines) : m < n => g[m] < g[n]
  <2> HIDE DEF rest, g, b
  <2> QED
    BY <1>1, <1>2, <1>4
<1>8. ASSUME NEW n \in ((h + 1) + 1)..Len(lines)
      PROVE  Holds(cr, rest, g[n - 1], g[n], lines[n])
  <2>1. /\ n - 1 \in (h + 1)..Len(lines) /\ n \in (h + 1)..Len(lines)
        /\ n \in 1..Len(lines)
    BY <1>1
  <2>2. Holds(cr, cells, f[n - 1], f[n], lines[n])
    BY <2>1 DEF Framed
  <2>3. f[n - 1] \in Nat /\ f[n] \in Nat /\ f[n] <= Len(cells) /\ b <= f[n - 1]
    BY <1>1, <1>2, <1>4, <2>1
  <2>4. \A k \in (f[n - 1] + 1)..f[n] : rest[k + (0 - b)] = cells[k]
    <3>1. \A k \in (f[n - 1] + 1)..f[n] : k \in (b + 1)..Len(cells)
      <4> HIDE DEF b
      <4> QED
        BY <1>1, <2>3
    <3> QED
      BY <1>3, <3>1
  <2>5. lines[n] \in Utterance
    BY <2>1, ElementOfSeq
  <2>6. PICK d \in Int : d = 0 - b
    BY <1>1
  <2>7. Holds(cr, rest, f[n - 1] + d, f[n] + d, lines[n])
    <3>1. PICK p \in Nat, q \in Nat, u \in Utterance :
            p = f[n - 1] /\ q = f[n] /\ u = lines[n]
      BY <2>3, <2>5
    <3>2. Holds(cr, cells, p, q, u)
      BY <2>2, <3>1
    <3>3. \A k \in (p + 1)..q : rest[k + d] = cells[k]
      BY <2>4, <2>6, <3>1
    <3> HIDE DEF rest, b, g
    <3>4. Holds(cr, rest, p + d, q + d, u)
      BY <3>2, <3>3, HoldsThere
    <3> QED
      BY <3>1, <3>4
  <2>8. g[n - 1] = f[n - 1] + d /\ g[n] = f[n] + d
    <3> HIDE DEF b, g
    <3>1. g[n - 1] = f[n - 1] - b /\ g[n] = f[n] - b
      BY <1>4, <2>1
    <3>2. b \in Int /\ f[n - 1] \in Int /\ f[n] \in Int
      BY <1>1, <2>3
    <3> QED
      BY <2>6, <3>1, <3>2
  <2> QED
    BY <2>7, <2>8
<1> HIDE DEF g
<1> QED
  BY <1>5, <1>6, <1>7, <1>8 DEF Framed

\* A line that is written takes the cells that were written.
LEMMA AddUtterance ==
  ASSUME NEW cr \in BOOLEAN, NEW cells \in Seq(Cell), NEW lines \in Seq(Utterance),
         NEW h \in Nat, NEW f, Framed(cr, cells, lines, h, f),
         NEW more \in Seq(Cell), more # <<>>, NEW u \in Utterance,
         Holds(cr, more, 0, Len(more), u)
  PROVE  \E g : Framed(cr, cells \o more, Append(lines, u), h, g)
<1> DEFINE s == Len(lines)
           all == cells \o more
           ls == Append(lines, u)
           g == [n \in h..(s + 1) |-> IF n = s + 1 THEN Len(all) ELSE f[n]]
<1>1. /\ s \in Nat /\ Len(cells) \in Nat /\ Len(more) \in Nat \ {0}
      /\ all \in Seq(Cell) /\ Len(all) = Len(cells) + Len(more)
      /\ \A k \in 1..Len(cells) : all[k] = cells[k]
      /\ \A k \in 1..Len(more) : all[k + Len(cells)] = more[k]
  <2>1. s \in Nat /\ Len(cells) \in Nat /\ Len(more) \in Nat \ {0}
    BY EmptySeq
  <2>2. /\ all \in Seq(Cell) /\ Len(all) = Len(cells) + Len(more)
        /\ \A k \in 1..(Len(cells) + Len(more)) :
             all[k] = IF k <= Len(cells) THEN cells[k] ELSE more[k - Len(cells)]
    BY ConcatProperties
  <2> HIDE DEF all
  <2>3. \A k \in 1..Len(more) : k + Len(cells) \in 1..(Len(cells) + Len(more))
                                /\ ~(k + Len(cells) <= Len(cells))
                                /\ (k + Len(cells)) - Len(cells) = k
    BY <2>1
  <2> QED
    BY <2>1, <2>2, <2>3
<1>2. /\ ls \in Seq(Utterance) /\ Len(ls) = s + 1 /\ ls[s + 1] = u
      /\ \A n \in 1..s : ls[n] = lines[n]
  BY AppendProperties
<1>3. /\ h <= s /\ f[h] = 0 /\ f[s] = Len(cells)
      /\ \A m, n \in h..s : m < n => f[m] < f[n]
      /\ \A n \in h..s : f[n] \in Nat /\ f[n] <= Len(cells)
      /\ \A n \in (h + 1)..s : Holds(cr, cells, f[n - 1], f[n], lines[n])
  BY <1>1 DEF Framed
<1>4. /\ g[s + 1] = Len(all) /\ \A n \in h..s : g[n] = f[n]
      /\ \A n \in h..(s + 1) : n = s + 1 \/ n \in h..s
      /\ h \in h..s /\ s \in h..s
  BY <1>1, <1>3
<1> HIDE DEF s, all, ls
<1>5. g \in [h..(s + 1) -> 0..Len(all)]
  BY <1>1, <1>3, <1>4
<1> HIDE DEF g
<1>6. \A m, n \in h..(s + 1) : m < n => g[m] < g[n]
  <2>1. ASSUME NEW m \in h..(s + 1), NEW n \in h..(s + 1), m < n
        PROVE  g[m] < g[n]
    <3>1. m \in h..s /\ g[m] = f[m] /\ f[m] <= Len(cells) /\ f[m] \in Nat
      BY <1>1, <1>3, <1>4, <2>1
    <3>2. CASE n = s + 1
      BY <1>1, <1>4, <3>1, <3>2
    <3>3. CASE n \in h..s
      BY <1>3, <1>4, <2>1, <3>1, <3>3
    <3> QED
      BY <1>4, <3>2, <3>3
  <2> QED
    BY <2>1
<1>7. ASSUME NEW n \in (h + 1)..(s + 1)
      PROVE  Holds(cr, all, g[n - 1], g[n], ls[n])
  <2>1. CASE n = s + 1
    <3>1. g[n - 1] = Len(cells) /\ g[n] = Len(cells) + Len(more) /\ ls[n] = u
      BY <1>1, <1>2, <1>3, <1>4, <2>1
    <3>2. \A k \in (0 + 1)..Len(more) : all[k + Len(cells)] = more[k]
      BY <1>1
    <3>3. Holds(cr, all, 0 + Len(cells), Len(more) + Len(cells), u)
      BY <1>1, <3>2, HoldsThere, SMTT(30)
    <3> QED
      BY <1>1, <3>1, <3>3
  <2>2. CASE n \in (h + 1)..s
    <3>1. /\ n - 1 \in h..s /\ n \in h..s /\ n \in 1..s
      BY <1>1, <2>2
    <3>2. /\ g[n - 1] = f[n - 1] /\ g[n] = f[n] /\ ls[n] = lines[n]
          /\ f[n - 1] \in Nat /\ f[n] \in Nat /\ f[n] <= Len(cells)
      BY <1>2, <1>3, <1>4, <3>1
    <3>0. PICK d \in Int : d = 0
      OBVIOUS
    <3>3. \A k \in (f[n - 1] + 1)..f[n] : all[k + d] = cells[k]
      <4>1. \A k \in (f[n - 1] + 1)..f[n] : k \in 1..Len(cells) /\ k + d = k
        BY <1>1, <3>0, <3>2
      <4> QED
        BY <1>1, <4>1
    <3>4. lines[n] \in Utterance
      BY <3>1, ElementOfSeq DEF s
    <3>5. Holds(cr, cells, f[n - 1], f[n], lines[n])
      BY <1>3, <2>2
    <3>6. Holds(cr, all, f[n - 1] + d, f[n] + d, lines[n])
      BY <3>0, <3>2, <3>3, <3>4, <3>5, HoldsThere
    <3>7. f[n - 1] + d = f[n - 1] /\ f[n] + d = f[n]
      BY <3>0, <3>2
    <3> QED
      BY <3>2, <3>6, <3>7
  <2> QED
    BY <1>1, <2>1, <2>2
<1> QED
  <2>1. Framed(cr, all, ls, h, g)
    BY <1>1, <1>2, <1>3, <1>4, <1>5, <1>6, <1>7 DEF Framed
  <2> QED
    BY <2>1 DEF all, ls

-----------------------------------------------------------------------------
(***************************************************************************)
(* The invariant: what is left of the body are the lines not heard yet.    *)
(***************************************************************************)

BodyInv ==
  /\ crlf \in BOOLEAN /\ closed \in BOOLEAN
  /\ said \in Seq(Utterance)
  /\ wire \in Seq(Cell) /\ buffer \in Seq(Cell)
  /\ at \in {"connecting", "waiting", "lines", "ended"}
  /\ at \in {"connecting", "waiting"} => Newlines(buffer) = {} /\ Len(buffer) <= Limit
  /\ \A n \in 1..Len(said) : ~said[n].whole => n = Len(said) /\ closed
  /\ at # "ended" => \E f : Framed(crlf, buffer \o wire, said, Len(heard), f)

OutcomeInv ==
  /\ outcome \in {"running", "finished", "interrupted", "protocol", "refused"}
  /\ outcome # "running" => at = "ended"
  /\ outcome = "finished" => closed
  /\ LinesArriveWhole
  /\ EndsForAReason

StreamInv == ContextInv /\ BodyInv /\ OutcomeInv

\* What is said later is no reason to judge an earlier line differently.
LEMMA QuestionableStays ==
  ASSUME NEW n \in Nat, Questionable(n), kind' = kind, crlf' = crlf,
         \A i \in 1..n : said'[i] = said[i], n >= 1
  PROVE  Questionable(n)'
<1>1. /\ said'[n] = said[n]
      /\ \A i \in 1..(n - 1) : said'[i] = said[i]
  OBVIOUS
<1>2. {i \in 1..(n - 1) : said'[i].line.type = "gameFull"}
        = {i \in 1..(n - 1) : said[i].line.type = "gameFull"}
  BY <1>1
<1>3. \A i \in {i \in 1..(n - 1) : said[i].line.type = "gameFull"} :
        said'[i].line.start = said[i].line.start
  BY <1>1
<1> QED
  BY <1>1, <1>2, <1>3 DEF Questionable

\* A step that hears nothing and ends, if at all, for no fault of the body.
LEMMA QuietStep ==
  ASSUME ContextInv, BodyInv, OutcomeInv,
         UNCHANGED <<kind, crlf, heard>>, said' \in Seq(Utterance),
         closed => UNCHANGED <<closed, said>>,
         Len(said') >= Len(said), \A i \in 1..Len(said) : said'[i] = said[i],
         \/ outcome' = outcome /\ (at = "ended" => at' = "ended")
         \/ outcome' \in {"interrupted", "refused"} /\ at' = "ended"
  PROVE  OutcomeInv'
<1>1. /\ Len(said) \in Nat /\ Len(said') \in Nat /\ Len(heard) \in Nat
      /\ heard' = heard /\ kind' = kind /\ crlf' = crlf
  BY LenProperties DEF BodyInv, ContextInv
<1>2. LinesArriveWhole'
  <2>1. Len(heard) <= Len(said) /\ \A i \in 1..Len(heard) : heard[i] = said[i].line
    BY DEF OutcomeInv, LinesArriveWhole
  <2>2. outcome' = "finished" => Len(heard) = Len(said')
    BY DEF OutcomeInv, LinesArriveWhole
  <2> QED
    BY <1>1, <2>1, <2>2 DEF LinesArriveWhole
<1>3. EndsForAReason'
  <2>1. ASSUME outcome' = "protocol"
        PROVE  \/ Len(heard) < Len(said') /\ Questionable(Len(heard) + 1)'
               \/ closed' /\ kind = "game" /\ "gameFull" \notin Types(heard, Len(heard))
    <3>1. outcome = "protocol"
      BY <2>1
    <3>2. CASE Len(heard) < Len(said) /\ Questionable(Len(heard) + 1)
      <4>1. \A i \in 1..(Len(heard) + 1) : i \in 1..Len(said)
        BY <1>1, <3>2
      <4>2. Questionable(Len(heard) + 1)'
        BY <1>1, <3>2, <4>1, QuestionableStays
      <4> QED
        BY <1>1, <3>2, <4>2
    <3>3. CASE closed /\ kind = "game" /\ "gameFull" \notin Types(heard, Len(heard))
      BY <3>3
    <3> QED
      BY <3>1, <3>2, <3>3 DEF OutcomeInv, EndsForAReason
  <2>2. ASSUME outcome' = "finished"
        PROVE  \E i \in 1..Len(said') :
                 /\ said'[i].line.type \in {"gameFull", "gameState"}
                 /\ said'[i].line.over
                 /\ \A k \in (i + 1)..Len(said') :
                      said'[k].line.type \notin {"gameFull", "gameState"}
    <3>1. outcome = "finished" /\ closed /\ said' = said
      BY <2>2 DEF OutcomeInv
    <3> QED
      BY <3>1 DEF OutcomeInv, EndsForAReason
  <2> QED
    BY <1>1, <2>1, <2>2 DEF EndsForAReason
<1> QED
  BY <1>2, <1>3 DEF OutcomeInv

\* The lines before the next one, as they were written and as they were heard.
LEMMA RefusedIsQuestionable ==
  ASSUME ContextInv, LinesArriveWhole, said \in Seq(Utterance),
         Len(heard) < Len(said), Refuses(said[Len(heard) + 1].line)
  PROVE  Questionable(Len(heard) + 1)
<1> DEFINE h == Len(heard)
           l == said[h + 1].line
           full == {i \in 1..h : said[i].line.type = "gameFull"}
<1>1. h \in Nat /\ (h + 1) - 1 = h
  BY LenProperties DEF ContextInv
<1>2. \A i \in 1..h : heard[i] = said[i].line
  BY DEF LinesArriveWhole
<1>3. CASE l.type = "junk" \/ l.width > Limit
  BY <1>3 DEF Questionable
<1>4. CASE kind = "game" /\ l.type # "junk" /\ ~(l.width > Limit)
  <2>1. full = {} <=> game = NoGame
    BY <1>2, <1>4 DEF ContextInv, Types
  <2>2. game # NoGame => \A i \in full : said[i].line.start = game.start
    BY <1>2, <1>4 DEF ContextInv, Combines
  <2> HIDE DEF full, l
  <2>3. \/ l.type = "gameFull" /\ (full # {} \/ l.id # Requested)
        \/ l.type \in {"gameFull", "chatLine"} /\ ~l.fine
        \/ l.type \in {"gameState", "opponentGone"} /\ full = {}
        \/ l.type = "gameFull" /\ <<l.start, l.moves>> \notin Legal
        \/ l.type = "gameState" /\ \E i \in full : <<said[i].line.start, l.moves>> \notin Legal
    <3>1. \/ l.type = "gameFull" /\ (game # NoGame \/ ~l.fine \/ l.id # Requested
                                     \/ <<l.start, l.moves>> \notin Legal)
          \/ l.type = "gameState" /\ (game # NoGame => <<game.start, l.moves>> \notin Legal)
          \/ l.type = "opponentGone" /\ game = NoGame
          \/ l.type = "chatLine" /\ ~l.fine
      BY <1>4 DEF Refuses, l
    <3>2. CASE l.type = "gameState" /\ game # NoGame
      BY <2>1, <2>2, <3>1, <3>2
    <3>3. CASE ~(l.type = "gameState" /\ game # NoGame)
      BY <2>1, <3>1, <3>3
    <3> QED
      BY <3>2, <3>3
  <2> QED
    BY <1>1, <1>4, <2>3 DEF Questionable, full, l
<1> QED
  BY <1>3, <1>4 DEF Refuses

\* A step that moves nothing out of the body.
LEMMA BodyStays ==
  ASSUME BodyInv, UNCHANGED <<crlf, said, closed, heard>>,
         wire' \in Seq(Cell), buffer' \in Seq(Cell),
         buffer' \o wire' = buffer \o wire, at # "ended",
         at' \in {"connecting", "waiting", "lines", "ended"},
         at' \in {"connecting", "waiting"} =>
           Newlines(buffer') = {} /\ Len(buffer') <= Limit
  PROVE  BodyInv'
BY DEF BodyInv, Newlines

LEMMA CellsAssociative ==
  ASSUME NEW s \in Seq(Cell), NEW t \in Seq(Cell), NEW u \in Seq(Cell)
  PROVE  (s \o t) \o u = s \o (t \o u)
BY ConcatAssociative

LEMMA PrefixCells ==
  ASSUME NEW s \in Seq(Cell), NEW k \in 1..Len(s)
  PROVE  /\ SubSeq(s, 1, k) \in Seq(Cell) /\ Len(SubSeq(s, 1, k)) = k
         /\ \A j \in 1..k : SubSeq(s, 1, k)[j] = s[j]
<1>1. /\ k \in Int /\ 1 \in Int /\ 1 <= k /\ k - 1 + 1 = k
      /\ \A j \in 1..k : s[j] \in Cell /\ 1 + j - 1 = j
  BY ElementOfSeq
<1> QED
  BY <1>1, SubSeqProperties

LEMMA SpeakKeepsBody ==
  ASSUME ContextInv, BodyInv, OutcomeInv, ~closed,
         NEW u \in Utterance, NEW more \in Seq(Cell), more # <<>>,
         Holds(crlf, more, 0, Len(more), u),
         said' = Append(said, u), wire' = wire \o more,
         closed' \in BOOLEAN, ~u.whole => closed',
         UNCHANGED <<kind, crlf, at, buffer, heard, outcome>>
  PROVE  BodyInv' /\ OutcomeInv'
<1>1. /\ said' \in Seq(Utterance) /\ Len(said') = Len(said) + 1
      /\ Len(said) \in Nat /\ Len(heard) \in Nat
      /\ \A i \in 1..Len(said) : said'[i] = said[i]
      /\ said'[Len(said) + 1] = u
  BY AppendProperties DEF BodyInv, ContextInv
<1>2. OutcomeInv'
  BY <1>1, QuietStep
<1>3. wire' \in Seq(Cell) /\ buffer \o wire \in Seq(Cell)
      /\ buffer \o wire' = (buffer \o wire) \o more
  <2>1. buffer \in Seq(Cell) /\ wire \in Seq(Cell)
    BY DEF BodyInv
  <2>2. buffer \o (wire \o more) = (buffer \o wire) \o more
    BY <2>1, CellsAssociative
  <2> QED
    BY <2>1, <2>2, ConcatProperties
<1>4. ASSUME NEW n \in 1..Len(said'), ~said'[n].whole
      PROVE  n = Len(said') /\ closed'
  <2>1. CASE n \in 1..Len(said)
    BY <1>1, <1>4, <2>1 DEF BodyInv
  <2>2. CASE n = Len(said) + 1
    BY <1>1, <1>4, <2>2
  <2> QED
    BY <1>1, <2>1, <2>2
<1>5. ASSUME at # "ended"
      PROVE  \E g : Framed(crlf, buffer \o wire', said', Len(heard), g)
  <2>1. PICK f : Framed(crlf, buffer \o wire, said, Len(heard), f)
    BY <1>5 DEF BodyInv
  <2>2. \E g : Framed(crlf, (buffer \o wire) \o more, Append(said, u), Len(heard), g)
    BY <1>1, <1>3, <2>1, AddUtterance DEF BodyInv
  <2> QED
    BY <1>3, <2>2
<1>6. BodyInv'
  BY <1>1, <1>3, <1>4, <1>5 DEF BodyInv, Newlines
<1> QED
  BY <1>2, <1>6

LEMMA SayKeepsBody ==
  ASSUME StreamInv, NEW l \in Line, Say(l)
  PROVE  BodyInv' /\ OutcomeInv'
<1> DEFINE u == [line |-> l, whole |-> TRUE]
           cr == IF crlf THEN <<CR>> ELSE <<>>
           end == cr \o <<LF>>
           more == Content(l) \o end
           w == l.width
<1>1. crlf \in BOOLEAN /\ wire \in Seq(Cell) /\ u \in Utterance /\ w \in Nat
  BY LineFields DEF StreamInv, BodyInv, Utterance
<1>2. /\ end \in Seq(Cell) /\ Len(end) = (IF crlf THEN 2 ELSE 1)
      /\ end[Len(end)] = LF /\ (crlf => end[1] = CR)
      /\ cr \in Seq(Cell) /\ <<LF>> \in Seq(Cell)
  <2>1. /\ cr \in Seq(Cell) /\ Len(cr) = (IF crlf THEN 1 ELSE 0)
        /\ (crlf => cr[1] = CR)
    <3>1. CASE crlf
      BY <3>1 DEF Cell
    <3>2. CASE ~crlf
      BY <3>2, EmptySeq
    <3> QED
      BY <3>1, <3>2
  <2>2. <<LF>> \in Seq(Cell) /\ Len(<<LF>>) = 1 /\ <<LF>>[1] = LF
    BY DEF Cell
  <2> HIDE DEF cr
  <2>3. /\ end \in Seq(Cell) /\ Len(end) = Len(cr) + 1
        /\ \A i \in 1..(Len(cr) + 1) :
             end[i] = IF i <= Len(cr) THEN cr[i] ELSE <<LF>>[i - Len(cr)]
    BY <2>1, <2>2, ConcatProperties
  <2> HIDE DEF end
  <2>4. CASE crlf
    BY <2>1, <2>2, <2>3, <2>4
  <2>5. CASE ~crlf
    BY <2>1, <2>2, <2>3, <2>5
  <2> QED
    BY <1>1, <2>1, <2>2, <2>4, <2>5
<1>3. /\ Content(l) \in Seq(Cell) /\ Len(Content(l)) = w
      /\ \A k \in 1..w : Content(l)[k] = [line |-> l, part |-> k]
  BY ContentCells
<1>4. wire' = wire \o more
  <2>1. wire' = ((wire \o Content(l)) \o cr) \o <<LF>>
    BY DEF Say
  <2> HIDE DEF cr
  <2>2. wire \o Content(l) \in Seq(Cell)
    BY <1>1, <1>3, ConcatProperties
  <2>3. ((wire \o Content(l)) \o cr) \o <<LF>> = (wire \o Content(l)) \o end
    BY <1>2, <2>2, CellsAssociative
  <2> HIDE DEF end
  <2>4. (wire \o Content(l)) \o end = wire \o more
    <3>1. wire \in Seq(Cell) /\ Content(l) \in Seq(Cell) /\ end \in Seq(Cell)
      BY <1>1, <1>2, <1>3
    <3> QED
      BY <3>1, CellsAssociative
  <2> QED
    BY <2>1, <2>3, <2>4
<1> HIDE DEF end
<1>5. /\ more \in Seq(Cell) /\ Len(more) = w + Len(end)
      /\ \A k \in 1..w : more[k] = Content(l)[k]
      /\ \A k \in 1..Len(end) : more[w + k] = end[k]
  <2>1. /\ more \in Seq(Cell) /\ Len(more) = w + Len(end)
        /\ \A k \in 1..(w + Len(end)) :
             more[k] = IF k <= w THEN Content(l)[k] ELSE end[k - w]
    <3>1. /\ Content(l) \o end \in Seq(Cell)
          /\ Len(Content(l) \o end) = Len(Content(l)) + Len(end)
          /\ \A k \in 1..(Len(Content(l)) + Len(end)) : (Content(l) \o end)[k] =
               IF k <= Len(Content(l)) THEN Content(l)[k] ELSE end[k - Len(Content(l))]
      BY <1>2, <1>3, ConcatProperties
    <3> HIDE DEF w
    <3> QED
      BY <1>3, <3>1
  <2>2. \A k \in 1..Len(end) : w + k \in 1..(w + Len(end)) /\ ~(w + k <= w) /\ (w + k) - w = k
    BY <1>1, <1>2
  <2>3. \A k \in 1..w : k \in 1..(w + Len(end)) /\ k <= w
    BY <1>1, <1>2
  <2> HIDE DEF more, w
  <2> QED
    BY <2>1, <2>2, <2>3
<1> HIDE DEF more
<1>6. Holds(crlf, more, 0, Len(more), u)
  <2>1. \A k \in 1..w : more[0 + k] = [line |-> l, part |-> k]
    BY <1>1, <1>3, <1>5
  <2>2. Len(end) \in 1..Len(end)
    BY <1>1, <1>2
  <2>3. more[Len(more)] = LF
    BY <1>2, <1>5, <2>2
  <2>4. crlf => more[Len(more) - 1] = CR
    <3> SUFFICES ASSUME crlf PROVE more[Len(more) - 1] = CR
      OBVIOUS
    <3>1. Len(more) - 1 = w + 1 /\ 1 \in 1..Len(end)
      BY <1>1, <1>2, <1>5
    <3> QED
      BY <1>2, <1>5, <3>1
  <2>5. Len(more) = 0 + w + (IF crlf THEN 2 ELSE 1)
    BY <1>1, <1>2, <1>5
  <2> QED
    BY <2>1, <2>3, <2>4, <2>5 DEF Holds
<1>7. more # <<>>
  BY <1>1, <1>2, <1>5, EmptySeq
<1> QED
  <2>1. /\ ~closed /\ said' = Append(said, u)
        /\ UNCHANGED <<kind, crlf, closed, at, buffer, heard, outcome>>
    BY DEF Say, context
  <2>2. ContextInv /\ BodyInv /\ OutcomeInv /\ closed' \in BOOLEAN
    BY <2>1 DEF StreamInv, BodyInv
  <2> QED
    BY <1>1, <1>4, <1>5, <1>6, <1>7, <2>1, <2>2, SpeakKeepsBody

LEMMA CloseKeepsBody ==
  ASSUME StreamInv, Close
  PROVE  BodyInv' /\ OutcomeInv'
<1>1. /\ ContextInv /\ BodyInv /\ OutcomeInv /\ ~closed /\ closed' = TRUE
      /\ UNCHANGED <<kind, crlf, at, buffer, heard, outcome>>
  BY DEF Close, StreamInv, context
<1>2. CASE UNCHANGED <<said, wire>>
  <2>1. BodyInv'
    BY <1>1, <1>2 DEF BodyInv, Newlines
  <2>2. said \in Seq(Utterance) /\ Len(said) \in Nat
    BY <1>1 DEF BodyInv
  <2>3. OutcomeInv'
    <3>1. /\ said' = said /\ closed' = TRUE /\ kind' = kind /\ crlf' = crlf
          /\ heard' = heard /\ outcome' = outcome /\ at' = at
      BY <1>1, <1>2
    <3>2. Len(said') >= Len(said) /\ said' \in Seq(Utterance)
      BY <2>2, <3>1
    <3> QED
      BY <1>1, <3>1, <3>2, QuietStep
  <2> QED
    BY <2>1, <2>3
<1>3. ASSUME NEW l \in Line, NEW k \in 1..l.width,
             wire' = wire \o SubSeq(Content(l), 1, k),
             said' = Append(said, [line |-> l, whole |-> FALSE])
      PROVE  BodyInv' /\ OutcomeInv'
  <2> DEFINE u == [line |-> l, whole |-> FALSE]
             more == SubSeq(Content(l), 1, k)
  <2>1. u \in Utterance /\ l.width \in Nat
    BY LineFields DEF Utterance
  <2>2. /\ more \in Seq(Cell) /\ Len(more) = k
        /\ \A j \in 1..k : more[j] = [line |-> l, part |-> j]
    <3>1. Content(l) \in Seq(Cell) /\ k \in 1..Len(Content(l))
          /\ \A j \in 1..k : Content(l)[j] = [line |-> l, part |-> j]
      BY <2>1, ContentCells
    <3> QED
      BY <3>1, PrefixCells
  <2> HIDE DEF more
  <2>3. more # <<>>
    BY <2>1, <2>2, EmptySeq
  <2>4. Holds(crlf, more, 0, Len(more), u)
    BY <2>1, <2>2 DEF Holds
  <2>5. wire' = wire \o more
    BY <1>3 DEF more
  <2> QED
    BY <1>1, <1>3, <2>1, <2>2, <2>3, <2>4, <2>5, SpeakKeepsBody
<1> QED
  BY <1>2, <1>3 DEF Close

LEMMA WaitKeepsBody ==
  ASSUME StreamInv, Respond \/ BreakConnection
  PROVE  BodyInv' /\ OutcomeInv'
<1>1. /\ ContextInv /\ BodyInv /\ OutcomeInv /\ at \in {"connecting", "waiting"}
      /\ kind' = kind /\ crlf' = crlf /\ said' = said /\ closed' = closed
      /\ wire' = wire /\ buffer' = buffer /\ heard' = heard
      /\ \/ at = "connecting" /\ at' = "waiting" /\ outcome' = outcome
         \/ at' = "ended" /\ outcome' \in {"refused", "interrupted"}
  BY DEF StreamInv, Respond, BreakConnection, End, source, context
<1>2. said' \in Seq(Utterance) /\ Len(said) \in Nat
  BY <1>1 DEF BodyInv
<1>3. OutcomeInv'
  BY <1>1, <1>2, QuietStep
<1> QED
  BY <1>1, <1>3 DEF BodyInv

LEMMA ChunkKeepsBody ==
  ASSUME StreamInv, ReceiveChunk
  PROVE  BodyInv' /\ OutcomeInv'
<1>1. /\ ContextInv /\ BodyInv /\ OutcomeInv /\ at = "waiting" /\ at' = "lines"
      /\ kind' = kind /\ crlf' = crlf /\ said' = said /\ closed' = closed
      /\ heard' = heard /\ outcome' = outcome
  BY DEF StreamInv, ReceiveChunk, context
<1>2. /\ wire \in Seq(Cell) /\ buffer \in Seq(Cell)
      /\ said' \in Seq(Utterance) /\ Len(said) \in Nat
  BY <1>1 DEF BodyInv
<1>3. PICK k \in 1..Len(wire) :
        /\ buffer' = buffer \o SubSeq(wire, 1, k)
        /\ wire' = SubSeq(wire, k + 1, Len(wire))
  BY DEF ReceiveChunk
<1>4. /\ SubSeq(wire, 1, k) \in Seq(Cell) /\ SubSeq(wire, k + 1, Len(wire)) \in Seq(Cell)
      /\ SubSeq(wire, 1, k) \o SubSeq(wire, k + 1, Len(wire)) = wire
  <2>1. /\ Len(wire) \in Nat /\ k + 1 \in Int /\ k + 1 <= Len(wire) + 1
        /\ \A j \in (k + 1)..Len(wire) : wire[j] \in Cell
        /\ 1 \in 1..(Len(wire) + 1) /\ k \in (1 - 1)..Len(wire)
        /\ Len(wire) \in k..Len(wire)
    BY <1>2, ElementOfSeq
  <2>2. SubSeq(wire, k + 1, Len(wire)) \in Seq(Cell)
    BY <1>2, <2>1, SubSeqProperties
  <2>3. SubSeq(wire, 1, k) \o SubSeq(wire, k + 1, Len(wire)) = SubSeq(wire, 1, Len(wire))
    BY <1>2, <2>1, ConcatAdjacentSubSeq
  <2> QED
    BY <1>2, <2>2, <2>3, PrefixCells, SubSeqFull
<1>5. /\ buffer' \in Seq(Cell) /\ wire' \in Seq(Cell)
      /\ buffer' \o wire' = buffer \o wire
  <2>1. buffer' \o wire' = buffer \o (SubSeq(wire, 1, k) \o SubSeq(wire, k + 1, Len(wire)))
    BY <1>2, <1>3, <1>4, CellsAssociative
  <2> QED
    BY <1>2, <1>3, <1>4, <2>1, ConcatProperties
<1>6. BodyInv'
  BY <1>1, <1>5, BodyStays
<1>7. OutcomeInv'
  BY <1>1, <1>2, QuietStep
<1> QED
  BY <1>6, <1>7

\* What is received is the beginning of what is left of the body.
LEMMA BufferFirst ==
  ASSUME BodyInv
  PROVE  /\ buffer \o wire \in Seq(Cell) /\ Len(buffer) \in Nat /\ Len(wire) \in Nat
         /\ Len(buffer \o wire) = Len(buffer) + Len(wire)
         /\ \A k \in 1..Len(buffer) : (buffer \o wire)[k] = buffer[k]
<1>1. buffer \in Seq(Cell) /\ wire \in Seq(Cell)
  BY DEF BodyInv
<1>2. \A k \in 1..Len(buffer) : k \in 1..(Len(buffer) + Len(wire)) /\ k <= Len(buffer)
  BY <1>1
<1> QED
  BY <1>1, <1>2, ConcatProperties

\* A line in the buffer is the next one of those that were written.
LEMMA NextLine ==
  ASSUME ContextInv, BodyInv, at # "ended", NEW f,
         Framed(crlf, buffer \o wire, said, Len(heard), f), Newlines(buffer) # {},
         NEW i, i = CHOOSE k \in Newlines(buffer) : \A j \in Newlines(buffer) : k <= j
  PROVE  /\ Len(heard) \in Nat /\ Len(heard) < Len(said)
         /\ i = f[Len(heard) + 1] /\ i \in 1..Len(buffer)
         /\ said[Len(heard) + 1].whole
         /\ Parsed(WithoutCR(SubSeq(buffer, 1, i - 1))) = said[Len(heard) + 1].line
<1> DEFINE h == Len(heard)
           all == buffer \o wire
           b == f[h + 1]
<1>1. /\ crlf \in BOOLEAN /\ all \in Seq(Cell) /\ said \in Seq(Utterance) /\ h \in Nat
      /\ Len(buffer) \in Nat /\ Len(all) \in Nat /\ Len(buffer) <= Len(all)
      /\ \A k \in 1..Len(buffer) : all[k] = buffer[k]
      /\ \A n \in 1..Len(said) : ~said[n].whole => n = Len(said)
  BY BufferFirst DEF BodyInv, ContextInv
<1>2. PICK j \in 1..Len(buffer) : buffer[j] = LF
  BY DEF Newlines
<1> HIDE DEF all
<1>3. j \in 1..Len(all) /\ all[j] = LF
  BY <1>1, <1>2
<1>4. /\ h < Len(said) /\ said[h + 1].whole
      /\ b \in 1..j /\ all[b] = LF
      /\ \A k \in 1..(b - 1) : all[k] # LF
      /\ Parsed(WithoutCR(SubSeq(all, 1, b - 1))) = said[h + 1].line
  <2>1. Framed(crlf, all, said, h, f)
    BY DEF all
  <2> HIDE DEF h
  <2> QED
    BY <1>1, <1>3, <2>1, FirstNewline
<1> HIDE DEF b
<1>5. b \in 1..Len(buffer) /\ b \in Newlines(buffer)
  <2>1. b \in 1..Len(buffer)
    BY <1>1, <1>2, <1>4
  <2>2. buffer[b] = LF
    BY <1>1, <1>4, <2>1
  <2> QED
    BY <2>1, <2>2 DEF Newlines
<1>6. \A k \in Newlines(buffer) : b <= k
  <2> SUFFICES ASSUME NEW k \in Newlines(buffer), ~(b <= k) PROVE FALSE
    OBVIOUS
  <2>1. k \in 1..Len(buffer) /\ buffer[k] = LF
    BY DEF Newlines
  <2>2. k \in 1..(b - 1)
    BY <1>1, <1>5, <2>1
  <2> QED
    BY <1>1, <1>4, <2>1, <2>2
<1>7. \A k \in Newlines(buffer) : k \in Nat
  BY <1>1 DEF Newlines
<1>8. i = b
  <2>1. i \in Newlines(buffer) /\ \A k \in Newlines(buffer) : i <= k
    BY <1>5, <1>6
  <2> QED
    BY <1>5, <1>6, <1>7, <2>1
<1>9. SubSeq(buffer, 1, i - 1) = SubSeq(all, 1, b - 1)
  <2>1. CASE b - 1 = 0
    <3>1. b - 1 < 1 /\ b - 1 \in Int /\ 1 \in Int
      BY <2>1
    <3> QED
      BY <1>8, <3>1, SubSeqEmpty
  <2>2. CASE b - 1 # 0
    <3>1. b - 1 \in 1..Len(buffer) /\ 1 \in 1..Len(buffer)
      BY <1>1, <1>5, <2>2
    <3>2. buffer \in Seq(Cell) /\ wire \in Seq(Cell)
      BY DEF BodyInv
    <3>3. SubSeq(buffer \o wire, 1, b - 1) = SubSeq(buffer, 1, b - 1)
      BY <3>1, <3>2, SubSeqOfConcat1
    <3> QED
      BY <1>8, <3>3 DEF all
  <2> QED
    BY <2>1, <2>2
<1> QED
  BY <1>1, <1>4, <1>5, <1>8, <1>9 DEF b

LEMMA DropOfConcat ==
  ASSUME NEW s \in Seq(Cell), NEW t \in Seq(Cell), NEW i \in 1..Len(s)
  PROVE  /\ SubSeq(s, i + 1, Len(s)) \in Seq(Cell)
         /\ SubSeq(s \o t, i + 1, Len(s \o t)) = SubSeq(s, i + 1, Len(s)) \o t
<1> DEFINE all == s \o t
           left == SubSeq(s, i + 1, Len(s))
           right == SubSeq(all, i + 1, Len(all))
<1>1. /\ Len(s) \in Nat /\ Len(t) \in Nat /\ all \in Seq(Cell)
      /\ Len(all) = Len(s) + Len(t)
      /\ \A k \in 1..(Len(s) + Len(t)) : all[k] = IF k <= Len(s) THEN s[k] ELSE t[k - Len(s)]
  BY ConcatProperties
<1> HIDE DEF all
<1>2. /\ left \in Seq(Cell) /\ Len(left) = Len(s) - i
      /\ \A k \in 1..(Len(s) - i) : left[k] = s[i + k]
  BY SuffixCells
<1>3. /\ right \in Seq(Cell) /\ Len(right) = Len(all) - i
      /\ \A k \in 1..(Len(all) - i) : right[k] = all[i + k]
  <2>1. i \in 1..Len(all)
    BY <1>1
  <2> QED
    BY <1>1, <2>1, SuffixCells
<1> HIDE DEF left, right
<1>4. /\ left \o t \in Seq(Cell) /\ Len(left \o t) = Len(left) + Len(t)
      /\ \A k \in 1..(Len(left) + Len(t)) :
           (left \o t)[k] = IF k <= Len(left) THEN left[k] ELSE t[k - Len(left)]
  BY <1>2, ConcatProperties
<1>5. Len(right) = Len(left \o t)
  BY <1>1, <1>2, <1>3, <1>4
<1>6. ASSUME NEW k \in 1..Len(right) PROVE right[k] = (left \o t)[k]
  <2>1. k \in 1..(Len(left) + Len(t)) /\ i + k \in 1..(Len(s) + Len(t))
        /\ k \in 1..(Len(all) - i)
    BY <1>1, <1>2, <1>3
  <2>2. CASE k <= Len(left)
    <3>1. k \in 1..(Len(s) - i) /\ i + k <= Len(s)
      BY <1>1, <1>2, <2>1, <2>2
    <3> QED
      BY <1>1, <1>2, <1>3, <1>4, <2>1, <2>2, <3>1
  <2>3. CASE ~(k <= Len(left))
    <3>1. ~(i + k <= Len(s)) /\ (i + k) - Len(s) = k - Len(left)
      BY <1>1, <1>2, <2>1, <2>3
    <3> QED
      BY <1>1, <1>3, <1>4, <2>1, <2>3, <3>1
  <2> QED
    BY <2>2, <2>3
<1>7. right = left \o t
  BY <1>3, <1>4, <1>5, <1>6, SeqEqual
<1> QED
  BY <1>2, <1>7 DEF left, right, all

\* Consuming the next line keeps the lines heard those that were written.
LEMMA HeardIsSaid ==
  ASSUME ContextInv, LinesArriveWhole, said \in Seq(Utterance),
         Len(heard) < Len(said), Hear(said[Len(heard) + 1].line)
  PROVE  /\ heard' \in Seq(Line) /\ Len(heard') = Len(heard) + 1
         /\ Len(heard) \in Nat /\ Len(said) \in Nat
         /\ \A i \in 1..Len(heard') : heard'[i] = said[i].line
<1>1. Len(heard) \in Nat /\ Len(said) \in Nat /\ Len(heard) + 1 \in 1..Len(said)
  BY LenProperties DEF ContextInv
<1>2. said[Len(heard) + 1].line \in Line
  <2>1. said[Len(heard) + 1] \in Utterance
    BY <1>1, ElementOfSeq
  <2> QED
    BY <2>1 DEF Utterance
<1>3. /\ heard' \in Seq(Line) /\ Len(heard') = Len(heard) + 1
      /\ heard'[Len(heard) + 1] = said[Len(heard) + 1].line
      /\ \A i \in 1..Len(heard) : heard'[i] = heard[i]
  BY <1>2, NewLine
<1>4. \A i \in 1..Len(heard) : heard[i] = said[i].line
  BY DEF LinesArriveWhole
<1>5. \A i \in 1..(Len(heard) + 1) : i \in 1..Len(heard) \/ i = Len(heard) + 1
  BY <1>1
<1> QED
  BY <1>1, <1>3, <1>4, <1>5

\* A call that ends with a protocol error because of the next line.
LEMMA RefusedOutcome ==
  ASSUME ContextInv, BodyInv, OutcomeInv, at # "ended", at' = "ended",
         outcome' = "protocol", UNCHANGED <<kind, crlf, said, closed, heard>>,
         Len(heard) < Len(said), Questionable(Len(heard) + 1)
  PROVE  OutcomeInv'
<1>1. /\ Len(heard) \in Nat /\ kind' = kind /\ crlf' = crlf /\ said' = said
      /\ closed' = closed /\ heard' = heard
  BY LenProperties DEF ContextInv
<1>2. Questionable(Len(heard) + 1)'
  BY <1>1, QuestionableStays
<1>3. LinesArriveWhole'
  BY <1>1 DEF OutcomeInv, LinesArriveWhole
<1>4. EndsForAReason'
  BY <1>1, <1>2 DEF EndsForAReason
<1> QED
  BY <1>3, <1>4 DEF OutcomeInv

LEMMA TakeKeepsBody ==
  ASSUME StreamInv, TakeLine
  PROVE  BodyInv' /\ OutcomeInv'
<1> DEFINE i == CHOOSE i \in Newlines(buffer) : \A j \in Newlines(buffer) : i <= j
           l == Parsed(WithoutCR(SubSeq(buffer, 1, i - 1)))
           h == Len(heard)
<1>1. /\ ContextInv /\ BodyInv /\ OutcomeInv /\ at = "lines" /\ Newlines(buffer) # {}
      /\ kind' = kind /\ crlf' = crlf /\ said' = said /\ closed' = closed /\ wire' = wire
      /\ buffer' = SubSeq(buffer, i + 1, Len(buffer))
  BY DEF StreamInv, TakeLine, AfterLine, source
<1>2. \/ Refuses(l) /\ at' = "ended" /\ outcome' = "protocol" /\ heard' = heard
      \/ ~Refuses(l) /\ Hear(l) /\ at' = at /\ outcome' = outcome
  <2> HIDE DEF l
  <2> QED
    BY DEF TakeLine, End, context, l
<1>3. PICK f : Framed(crlf, buffer \o wire, said, h, f)
  BY <1>1 DEF BodyInv
<1>4. /\ h \in Nat /\ h < Len(said) /\ i = f[h + 1] /\ i \in 1..Len(buffer)
      /\ said[h + 1].whole /\ l = said[h + 1].line
  <2> HIDE DEF i
  <2> QED
    BY <1>1, <1>3, NextLine DEF i
<1>5. /\ crlf \in BOOLEAN /\ said \in Seq(Utterance) /\ buffer \in Seq(Cell)
      /\ wire \in Seq(Cell) /\ buffer \o wire \in Seq(Cell)
  BY <1>1, ConcatProperties DEF BodyInv
<1> HIDE DEF i, l
<1>6. /\ buffer' \in Seq(Cell)
      /\ SubSeq(buffer \o wire, i + 1, Len(buffer \o wire)) = buffer' \o wire'
  BY <1>1, <1>4, <1>5, DropOfConcat
<1>7. CASE Refuses(l) /\ at' = "ended" /\ outcome' = "protocol" /\ heard' = heard
  <2>1. Questionable(h + 1)
    BY <1>1, <1>4, <1>5, <1>7, RefusedIsQuestionable DEF OutcomeInv
  <2>2. OutcomeInv'
    BY <1>1, <1>4, <1>7, <2>1, RefusedOutcome
  <2>3. BodyInv'
    BY <1>1, <1>6, <1>7 DEF BodyInv
  <2> QED
    BY <2>2, <2>3
<1>8. CASE ~Refuses(l) /\ Hear(l) /\ at' = at /\ outcome' = outcome
  <2>1. outcome = "running"
    BY <1>1 DEF OutcomeInv
  <2>2. /\ Len(heard') = h + 1 /\ Len(said) \in Nat
        /\ \A k \in 1..Len(heard') : heard'[k] = said[k].line
    BY <1>1, <1>4, <1>5, <1>8, HeardIsSaid DEF OutcomeInv
  <2>3. \E g : Framed(crlf, buffer' \o wire', said, h + 1, g)
    <3>1. \E g : Framed(crlf, SubSeq(buffer \o wire, f[h + 1] + 1, Len(buffer \o wire)),
                        said, h + 1, g)
      <4> HIDE DEF h
      <4> QED
        BY <1>3, <1>4, <1>5, DropFirst
    <3> QED
      BY <1>4, <1>6, <3>1
  <2>4. BodyInv'
    BY <1>1, <1>6, <1>8, <2>2, <2>3 DEF BodyInv
  <2>5. LinesArriveWhole'
    BY <1>1, <1>4, <1>8, <2>1, <2>2 DEF LinesArriveWhole
  <2>6. EndsForAReason'
    BY <1>8, <2>1 DEF EndsForAReason
  <2> QED
    BY <1>1, <1>8, <2>1, <2>4, <2>5, <2>6 DEF OutcomeInv
<1> QED
  BY <1>2, <1>7, <1>8

\* If anything is received and no line is, the next line is not complete.
LEMMA CheckKeepsBody ==
  ASSUME StreamInv, CheckBuffer
  PROVE  BodyInv' /\ OutcomeInv'
<1> DEFINE h == Len(heard)
           all == buffer \o wire
<1>1. /\ ContextInv /\ BodyInv /\ OutcomeInv /\ at = "lines" /\ Newlines(buffer) = {}
      /\ kind' = kind /\ crlf' = crlf /\ said' = said /\ closed' = closed
      /\ wire' = wire /\ buffer' = buffer /\ heard' = heard
      /\ \/ Len(buffer) > Limit /\ at' = "ended" /\ outcome' = "protocol"
         \/ Len(buffer) <= Limit /\ at' = "waiting" /\ outcome' = outcome
  BY DEF StreamInv, CheckBuffer, End, source, context
<1>2. /\ said \in Seq(Utterance) /\ Len(said) \in Nat /\ h \in Nat /\ crlf \in BOOLEAN
      /\ Limit \in Nat /\ Len(buffer) \in Nat
  BY <1>1, LenProperties, LimitAssumption DEF BodyInv, ContextInv
<1>3. BodyInv'
  BY <1>1 DEF BodyInv, Newlines
<1>4. CASE at' = "waiting" /\ outcome' = outcome
  BY <1>1, <1>2, <1>3, <1>4, QuietStep
<1>5. CASE Len(buffer) > Limit /\ at' = "ended" /\ outcome' = "protocol"
  <2>1. PICK f : Framed(crlf, all, said, h, f)
    BY <1>1 DEF BodyInv
  <2>2. /\ all \in Seq(Cell) /\ Len(buffer) <= Len(all) /\ Len(all) \in Nat
        /\ \A k \in 1..Len(buffer) : all[k] = buffer[k]
    BY <1>1, BufferFirst
  <2> HIDE DEF all
  <2>3. h < Len(said)
    BY <1>2, <1>5, <2>1, <2>2 DEF Framed
  <2> DEFINE u == said[h + 1]
             b == f[h + 1]
  <2>4. /\ b \in 1..Len(all) /\ u.whole \in BOOLEAN /\ u.line.width \in Nat
        /\ Holds(crlf, all, 0, b, u)
    <3> HIDE DEF h
    <3> QED
      BY <1>2, <2>1, <2>2, <2>3, FramedFacts
  <2>5. Questionable(h + 1)
    <3>1. CASE ~u.whole
      BY <3>1 DEF Questionable
    <3>2. CASE u.whole
      <4>1. b = 0 + u.line.width + (IF crlf THEN 2 ELSE 1) /\ all[b] = LF
        BY <2>4, <3>2 DEF Holds
      <4>2. ~(b <= Len(buffer))
        BY <1>1, <2>2, <2>4, <4>1 DEF Newlines
      <4>3. u.line.width > Limit \/ (u.line.width = Limit /\ crlf)
        <5> HIDE DEF b
        <5> QED
          BY <1>2, <1>5, <2>2, <2>4, <4>1, <4>2, SMTT(30)
      <4> QED
        BY <4>3 DEF Questionable
    <3> QED
      BY <2>4, <3>1, <3>2
  <2> QED
    BY <1>1, <1>3, <1>5, <2>3, <2>5, RefusedOutcome
<1> QED
  BY <1>1, <1>4, <1>5

\* How a call ends that has heard all that was said.
LEMMA VerdictOutcome ==
  ASSUME ContextInv', BodyInv, closed' = TRUE, kind' = kind, said' = said,
         at' = "ended", outcome' = Verdict(game'), Len(heard') = Len(said),
         \A i \in 1..Len(heard') : heard'[i] = said[i].line
  PROVE  OutcomeInv'
<1>1. /\ kind \in {"game", "catalog"} /\ Len(said) \in Nat
      /\ kind = "game" =>
           /\ game' = NoGame <=> "gameFull" \notin Types(heard', Len(heard'))
           /\ game' # NoGame => Combines(heard', Len(heard'), game')
  BY DEF ContextInv, BodyInv
<1>2. /\ outcome' \in {"finished", "interrupted", "protocol"}
      /\ outcome' = "protocol" => kind = "game" /\ game' = NoGame
      /\ outcome' = "finished" => kind = "game" /\ game' # NoGame /\ game'.over
  <2>1. CASE kind = "catalog"
    BY <2>1 DEF Verdict
  <2>2. CASE kind = "game"
    BY <2>2 DEF Verdict
  <2> QED
    BY <1>1, <2>1, <2>2
<1>3. LinesArriveWhole'
  BY <1>1 DEF LinesArriveWhole
<1>4. ASSUME outcome' = "finished"
      PROVE  \E i \in 1..Len(said) :
               /\ said[i].line.type \in {"gameFull", "gameState"} /\ said[i].line.over
               /\ \A k \in (i + 1)..Len(said) :
                    said[k].line.type \notin {"gameFull", "gameState"}
  <2>1. PICK i \in 1..Len(heard') :
          /\ heard'[i].type \in {"gameFull", "gameState"} /\ heard'[i].over
          /\ \A k \in (i + 1)..Len(heard') :
               heard'[k].type \notin {"gameFull", "gameState"}
    BY <1>1, <1>2, <1>4 DEF Combines
  <2>2. \A k \in (i + 1)..Len(said) : k \in 1..Len(heard')
    BY <1>1
  <2> QED
    BY <2>1, <2>2
<1>5. EndsForAReason'
  BY <1>1, <1>2, <1>4 DEF EndsForAReason
<1> QED
  BY <1>2, <1>3, <1>5 DEF OutcomeInv

\* A rest without a LF is a line only if all of it came.
LEMMA FinishKeepsBody ==
  ASSUME StreamInv, FinishBody, ContextInv'
  PROVE  BodyInv' /\ OutcomeInv'
<1> DEFINE h == Len(heard)
<1>1. /\ ContextInv /\ BodyInv /\ OutcomeInv /\ at = "waiting" /\ closed /\ wire = <<>>
      /\ kind' = kind /\ crlf' = crlf /\ said' = said /\ closed' = closed
      /\ wire' = wire /\ buffer' = buffer /\ at' = "ended"
      /\ Newlines(buffer) = {}
  BY DEF StreamInv, FinishBody, End, source, BodyInv
<1>2. /\ said \in Seq(Utterance) /\ Len(said) \in Nat /\ h \in Nat /\ crlf \in BOOLEAN
      /\ closed = TRUE /\ buffer \in Seq(Cell) /\ buffer \o wire = buffer
      /\ Len(buffer) \in Nat /\ LinesArriveWhole /\ h <= Len(said)
  BY <1>1, LenProperties, ConcatEmptySeq
  DEF BodyInv, ContextInv, OutcomeInv, LinesArriveWhole
<1>3. BodyInv'
  BY <1>1 DEF BodyInv
<1>4. PICK f : Framed(crlf, buffer, said, h, f)
  BY <1>1, <1>2 DEF BodyInv
<1>5. CASE buffer = <<>> /\ End(Verdict(game)) /\ UNCHANGED context
  <2>1. heard' = heard /\ outcome' = Verdict(game')
    BY <1>5 DEF End, context
  <2>2. h = Len(said)
    BY <1>2, <1>4, <1>5, EmptySeq DEF Framed
  <2>3. \A i \in 1..Len(heard') : heard'[i] = said[i].line
    BY <1>2, <2>1 DEF LinesArriveWhole
  <2> QED
    BY <1>1, <1>2, <1>3, <2>1, <2>2, <2>3, VerdictOutcome
<1>6. CASE buffer # <<>>
  <2> DEFINE u == said[h + 1]
             b == f[h + 1]
  <2>1. h < Len(said)
    BY <1>2, <1>4, <1>6, EmptySeq DEF Framed
  <2>2. /\ b \in 1..Len(buffer) /\ u.whole \in BOOLEAN /\ u.line \in Line
        /\ u.line.width \in Nat /\ Holds(crlf, buffer, 0, b, u)
    <3> HIDE DEF h
    <3> QED
      BY <1>2, <1>4, <2>1, FramedFacts
  <2>3. ~u.whole
    BY <1>1, <2>2 DEF Holds, Newlines
  <2>4. h + 1 = Len(said) /\ b = Len(buffer)
    <3>1. h + 1 \in 1..Len(said)
      BY <1>2, <2>1
    <3>2. h + 1 = Len(said)
      BY <1>1, <2>3, <3>1 DEF BodyInv
    <3> QED
      BY <1>4, <3>2 DEF Framed
  <2>5. Parsed(buffer) = u.line \/ Refuses(Parsed(buffer))
    <3>1. /\ Len(buffer) <= u.line.width /\ Len(buffer) # 0
          /\ \A k \in 1..Len(buffer) : buffer[k] = [line |-> u.line, part |-> k]
      <4>1. b <= u.line.width
        BY <2>2, <2>3 DEF Holds
      <4>2. \A k \in 1..u.line.width : 0 + k <= b => buffer[0 + k] = [line |-> u.line, part |-> k]
        BY <2>2 DEF Holds
      <4> HIDE DEF u, b
      <4>3. \A k \in 1..Len(buffer) : k \in 1..u.line.width /\ 0 + k = k /\ k <= b
        BY <1>2, <2>2, <2>4, <4>1
      <4> QED
        BY <1>2, <2>2, <2>4, <4>1, <4>2, <4>3
    <3>2. Parsed(buffer) = IF Len(buffer) = u.line.width THEN u.line ELSE Junk
      <4> HIDE DEF u
      <4> QED
        BY <1>2, <2>2, <3>1, ParsedBack
    <3>3. Refuses(Junk)
      BY DEF Refuses, Junk
    <3> QED
      BY <3>2, <3>3
  <2>6. CASE Refuses(Parsed(buffer)) /\ End("protocol") /\ UNCHANGED context
    <3>1. heard' = heard /\ outcome' = "protocol"
      BY <2>6 DEF End, context
    <3>2. Questionable(h + 1)
      BY <2>3 DEF Questionable
    <3> QED
      BY <1>1, <1>3, <2>1, <3>1, <3>2, RefusedOutcome
  <2>7. CASE /\ ~Refuses(Parsed(buffer)) /\ Hear(Parsed(buffer))
             /\ End(Verdict(Updated(Parsed(buffer))))
    <3>1. Hear(u.line) /\ outcome' = Verdict(game')
      BY <2>5, <2>7 DEF End, Hear
    <3>2. Len(heard') = h + 1 /\ \A i \in 1..Len(heard') : heard'[i] = said[i].line
      BY <1>1, <1>2, <2>1, <3>1, HeardIsSaid
    <3> QED
      BY <1>1, <1>2, <1>3, <2>4, <3>1, <3>2, VerdictOutcome
  <2> QED
    BY <1>6, <2>6, <2>7 DEF FinishBody
<1> QED
  BY <1>5, <1>6 DEF FinishBody

LEMMA InitStream == Init => StreamInv
<1> SUFFICES ASSUME Init PROVE StreamInv
  OBVIOUS
<1>1. /\ crlf \in BOOLEAN /\ said = <<>> /\ wire = <<>> /\ closed = FALSE
      /\ at = "connecting" /\ buffer = <<>> /\ heard = <<>> /\ outcome = "running"
  BY DEF Init
<1>2. /\ said \in Seq(Utterance) /\ Len(said) = 0
      /\ wire \in Seq(Cell) /\ buffer \in Seq(Cell) /\ Len(buffer) = 0
      /\ buffer \o wire = <<>> /\ Len(<<>>) = 0 /\ Len(heard) = 0
  <2>1. /\ <<>> \in Seq(Utterance) /\ <<>> \in Seq(Cell) /\ Len(<<>>) = 0
    BY EmptySeq
  <2>2. <<>> \o <<>> = <<>>
    BY <2>1, ConcatEmptySeq
  <2> QED
    BY <1>1, <2>1, <2>2
<1>3. Framed(crlf, <<>>, said, 0, [n \in 0..0 |-> 0])
  BY <1>2 DEF Framed
<1>4. BodyInv
  BY <1>1, <1>2, <1>3, LimitAssumption DEF BodyInv, Newlines
<1>5. OutcomeInv
  BY <1>1, <1>2 DEF OutcomeInv, LinesArriveWhole, EndsForAReason
<1> QED
  BY <1>4, <1>5, InitContext DEF StreamInv

LEMMA StepStream ==
  ASSUME StreamInv, [Next]_vars
  PROVE  StreamInv'
<1>1. ContextInv'
  BY StepContext DEF StreamInv
<1>2. CASE \E l \in Line : Say(l)
  BY <1>1, <1>2, SayKeepsBody DEF StreamInv
<1>3. CASE Close
  BY <1>1, <1>3, CloseKeepsBody DEF StreamInv
<1>4. CASE Respond \/ BreakConnection
  BY <1>1, <1>4, WaitKeepsBody DEF StreamInv
<1>5. CASE ReceiveChunk
  BY <1>1, <1>5, ChunkKeepsBody DEF StreamInv
<1>6. CASE TakeLine
  BY <1>1, <1>6, TakeKeepsBody DEF StreamInv
<1>7. CASE CheckBuffer
  BY <1>1, <1>7, CheckKeepsBody DEF StreamInv
<1>8. CASE FinishBody
  BY <1>1, <1>8, FinishKeepsBody DEF StreamInv
<1>9. CASE UNCHANGED vars
  <2>1. /\ kind' = kind /\ crlf' = crlf /\ said' = said /\ wire' = wire /\ closed' = closed
        /\ at' = at /\ buffer' = buffer /\ heard' = heard /\ outcome' = outcome
    BY <1>9 DEF vars, source, context
  <2>2. ContextInv /\ BodyInv /\ OutcomeInv /\ said \in Seq(Utterance) /\ Len(said) \in Nat
    BY DEF StreamInv, BodyInv
  <2>3. BodyInv'
    BY <2>1, <2>2 DEF BodyInv, Newlines
  <2>4. OutcomeInv'
    BY <2>1, <2>2, QuietStep
  <2> QED
    BY <1>1, <2>3, <2>4 DEF StreamInv
<1> QED
  BY <1>2, <1>3, <1>4, <1>5, <1>6, <1>7, <1>8, <1>9 DEF Next

\* What a variable holds, and that the rest kept while waiting is bounded.
THEOREM StreamTypeCorrect == Spec => []TypeOK
<1>1. StreamInv => TypeOK
  BY DEF StreamInv, ContextInv, BodyInv, OutcomeInv, TypeOK
<1> QED
  BY InitStream, StepStream, <1>1, PTL DEF Spec

\* However the body is cut into chunks: lines are heard whole and in order.
THEOREM AnyChunksSameLines == Spec => []LinesArriveWhole
<1>1. StreamInv => LinesArriveWhole
  BY DEF StreamInv, OutcomeInv
<1> QED
  BY InitStream, StepStream, <1>1, PTL DEF Spec

\* A protocol error has its reason in the body, a good end the end of the game.
THEOREM EndsAreJustified == Spec => []EndsForAReason
<1>1. StreamInv => EndsForAReason
  BY DEF StreamInv, OutcomeInv
<1> QED
  BY InitStream, StepStream, <1>1, PTL DEF Spec

=============================================================================
