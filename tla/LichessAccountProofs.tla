------------------------ MODULE LichessAccountProofs ------------------------
(***************************************************************************)
(* For any lifetime of a request, any number of requests, callbacks and     *)
(* games, and any order of the browser's answers: only our own codes are    *)
(* exchanged, once each, and games are reported as Lichess keeps them.      *)
(***************************************************************************)
EXTENDS LichessAccount, TLAPS

\* Every URL the browser produced is the answer to a request that was begun.
Answered == \A url \in callbacks : \E r \in 1..begun : url \in {Approval(r), Denial(r)}

\* The pending request is the last one, and its code was never sent.
PendingIsFresh ==
  session # None =>
    /\ session = begun /\ session \in Request
    /\ \A i \in DOMAIN asked : asked[i].request # session

\* What was sent, was sent for a request that had begun and had not expired.
AskedInTime ==
  \A i \in DOMAIN asked :
    /\ asked[i].request \in 1..begun
    /\ asked[i].code = asked[i].request
    /\ asked[i].request = asked[i].last
    /\ asked[i].at - since[asked[i].request] <= TTL
    /\ \A j \in DOMAIN asked : asked[i].request = asked[j].request => i = j

\* What complete_oauth waits for was sent.
WaitsForOurs ==
  step.do \in {"exchange", "account"} =>
    \E i \in DOMAIN asked : asked[i].request = step.request

BackendIsOurs ==
  backend # None => \E i \in DOMAIN asked : asked[i].request = backend

AuthInv ==
  /\ asked \in Seq(TokenRequest)
  /\ begun \in 0..MaxRequests
  /\ now \in Nat
  /\ since \in [Request -> Nat]
  /\ Answered /\ PendingIsFresh /\ AskedInTime /\ WaitsForOurs /\ BackendIsOurs

LEMMA AuthInvImplies == AuthInv => ExchangesAreOurs
BY DEF AuthInv, AskedInTime, BackendIsOurs, ExchangesAreOurs

LEMMA AuthInitially == Init => AuthInv
<1> SUFFICES ASSUME Init PROVE AuthInv
  OBVIOUS
<1>1. asked = <<>> /\ asked \in Seq(TokenRequest) /\ DOMAIN asked = {}
  BY DEF Init, AuthInit
<1>2. begun \in 0..MaxRequests /\ since \in [Request -> Nat] /\ now \in Nat
  BY AuthorizationAssumption DEF Init, AuthInit
<1>3. Answered /\ PendingIsFresh /\ BackendIsOurs
  BY DEF Init, AuthInit, Answered, PendingIsFresh, BackendIsOurs
<1>4. AskedInTime
  BY <1>1 DEF AskedInTime
<1>5. WaitsForOurs
  BY DEF Init, AuthInit, Idle, WaitsForOurs
<1> QED
  BY <1>1, <1>2, <1>3, <1>4, <1>5 DEF AuthInv

\* A code is sent when the callback carries the state of the pending request:
\* it is the approval of that request, whatever else the browser produced.
LEMMA GrantedIsApproved ==
  ASSUME AuthInv, NEW url \in callbacks \cup Unrelated, session # None,
         IsGranted(session, url)
  PROVE  url = Approval(session)
<1>1. url \notin Unrelated
  BY AuthorizationAssumption DEF IsGranted, IsOurs
<1>2. PICK r \in 1..begun : url \in {Approval(r), Denial(r)}
  BY <1>1 DEF AuthInv, Answered
<1>3. url = Approval(r)
  BY <1>2 DEF IsGranted, Denial
<1>4. url.state = <<r>> /\ url.state = <<session>>
  BY <1>3 DEF Approval, IsGranted
<1> QED
  BY <1>3, <1>4

\* The steps that neither send a code nor begin a request.
LEMMA QuietStep ==
  ASSUME AuthInv, UNCHANGED <<begun, since, asked>>, now' \in Nat,
         session' \in {session, None}, Answered', WaitsForOurs', BackendIsOurs'
  PROVE  AuthInv'
<1>1. PendingIsFresh'
  BY DEF AuthInv, PendingIsFresh
<1>2. AskedInTime'
  BY DEF AuthInv, AskedInTime
<1> QED
  BY <1>1, <1>2 DEF AuthInv

LEMMA BeginKeeps ==
  ASSUME AuthInv, BeginOAuth
  PROVE  AuthInv'
<1>1. /\ begun' = begun + 1 /\ begun' \in 0..MaxRequests /\ begun' \in Request
      /\ session' = begun' /\ UNCHANGED <<now, callbacks, asked, step, backend>>
  BY AuthorizationAssumption DEF AuthInv, BeginOAuth, Request
<1>2. since' \in [Request -> Nat] /\ \A r \in 1..begun : since'[r] = since[r]
  BY <1>1 DEF AuthInv, BeginOAuth, Request
<1>3. Answered'
  BY <1>1 DEF AuthInv, Answered
<1>4. \A i \in DOMAIN asked : asked[i].request \in 1..begun
  BY DEF AuthInv, AskedInTime
<1>5. PendingIsFresh'
  BY <1>1, <1>4 DEF AuthInv, PendingIsFresh
<1>6. AskedInTime'
  BY <1>1, <1>2, <1>4 DEF AuthInv, AskedInTime
<1>7. WaitsForOurs' /\ BackendIsOurs'
  BY <1>1 DEF AuthInv, WaitsForOurs, BackendIsOurs
<1> QED
  BY <1>1, <1>2, <1>3, <1>5, <1>6, <1>7 DEF AuthInv

LEMMA CompleteKeeps ==
  ASSUME AuthInv, NEW url \in callbacks \cup Unrelated, CompleteOAuth(url)
  PROVE  AuthInv'
<1>1. CASE ~IsGranted(session, url)
  <2>1. UNCHANGED <<now, begun, since, callbacks, asked, step, backend>>
        /\ session' = None
    BY <1>1 DEF CompleteOAuth
  <2>2. Answered' /\ WaitsForOurs' /\ BackendIsOurs'
    BY <2>1 DEF AuthInv, Answered, WaitsForOurs, BackendIsOurs
  <2> QED
    BY <2>1, <2>2, QuietStep DEF AuthInv
<1>2. CASE IsGranted(session, url)
  <2> DEFINE new == [request |-> session, code |-> url.code[1],
                     at |-> now, last |-> begun]
  <2>1. /\ session \in Request /\ session = begun /\ begun \in 1..begun
        /\ \A i \in DOMAIN asked : asked[i].request # session
    BY DEF CompleteOAuth, AuthInv, PendingIsFresh, Request
  <2>2. url.code[1] = session
    BY <1>2, GrantedIsApproved DEF CompleteOAuth, Approval
  <2>3. now - since[session] <= TTL
    BY <1>2, <2>1, AuthorizationAssumption DEF IsGranted, IsExpired, AuthInv
  <2>4. /\ session' = None /\ step' = Exchanging(session)
        /\ asked' = Append(asked, new)
        /\ UNCHANGED <<now, begun, since, callbacks, backend>>
    BY <1>2 DEF CompleteOAuth
  <2>5. new \in TokenRequest
    BY <2>1, <2>2 DEF TokenRequest, AuthInv
  <2>6. /\ new.request = session /\ new.code = session
        /\ new.at = now /\ new.last = session
    BY <2>1, <2>2
  <2> HIDE DEF new
  <2>7. /\ asked' \in Seq(TokenRequest)
        /\ DOMAIN asked' = DOMAIN asked \cup {Len(asked) + 1}
        /\ Len(asked) + 1 \notin DOMAIN asked
        /\ \A i \in DOMAIN asked : asked'[i] = asked[i]
        /\ asked'[Len(asked) + 1] = new
    BY <2>4, <2>5 DEF AuthInv
  <2>8. AskedInTime'
    BY <2>1, <2>3, <2>4, <2>6, <2>7 DEF AuthInv, AskedInTime
  <2>9. PendingIsFresh'
    BY <2>4 DEF PendingIsFresh
  <2>10. WaitsForOurs'
    BY <2>4, <2>6, <2>7 DEF WaitsForOurs, Exchanging
  <2>11. BackendIsOurs'
    BY <2>4, <2>7 DEF AuthInv, BackendIsOurs
  <2>12. Answered'
    BY <2>4 DEF AuthInv, Answered
  <2> QED
    BY <2>4, <2>7, <2>8, <2>9, <2>10, <2>11, <2>12 DEF AuthInv
<1> QED
  BY <1>1, <1>2

\* The steps of this module and the answers of Lichess leave what was sent.
LEMMA OtherStepsKeep ==
  ASSUME AuthInv, UNCHANGED <<begun, since, asked, callbacks>>, now' \in Nat,
         session' \in {session, None},
         \/ UNCHANGED <<step, backend>>
         \/ step' = Idle /\ backend' \in {backend, None}
         \/ step.do = "exchange" /\ step' = Fetching(step.request)
            /\ UNCHANGED backend
         \/ step.do = "account" /\ step' = Idle /\ backend' = step.request
         \/ step'.do = "challenge" /\ UNCHANGED backend
         \/ UNCHANGED step /\ backend' = None
  PROVE  AuthInv'
<1>1. Answered'
  BY DEF AuthInv, Answered
<1>2. WaitsForOurs'
  BY DEF AuthInv, WaitsForOurs, Idle, Fetching
<1>3. BackendIsOurs'
  BY DEF AuthInv, BackendIsOurs, WaitsForOurs
<1> QED
  BY <1>1, <1>2, <1>3, QuietStep

LEMMA AuthInvStays == AuthInv /\ [Next]_vars => AuthInv'
<1> SUFFICES ASSUME AuthInv, [Next]_vars PROVE AuthInv'
  OBVIOUS
<1>1. CASE UNCHANGED vars
  BY <1>1, OtherStepsKeep DEF vars, AuthInv
<1>2. CASE BeginOAuth
  BY <1>2, BeginKeeps
<1>3. ASSUME NEW url \in callbacks \cup Unrelated, CompleteOAuth(url)
      PROVE  AuthInv'
  BY <1>3, CompleteKeeps
<1>4. ASSUME NEW r \in 1..begun, Answer(r)
      PROVE  AuthInv'
  <2>1. PICK new \in {Approval(r), Denial(r)} : callbacks' = callbacks \cup {new}
    BY <1>4 DEF Answer
  <2>2. Answered'
    BY <1>4, <2>1 DEF Answer, AuthInv, Answered
  <2>3. WaitsForOurs' /\ BackendIsOurs'
    BY <1>4 DEF Answer, AuthInv, WaitsForOurs, BackendIsOurs
  <2> QED
    BY <1>4, <2>2, <2>3, QuietStep DEF Answer, AuthInv
<1>5. CASE Tick
  <2>1. now' \in Nat
    BY <1>5 DEF Tick, AuthInv
  <2> QED
    BY <1>5, <2>1, OtherStepsKeep DEF Tick
<1>6. CASE CancelOAuth \/ Disconnect
  BY <1>6, OtherStepsKeep DEF CancelOAuth, Disconnect, AuthInv
<1>7. CASE TokenIssued \/ ExchangeFails
  BY <1>7, OtherStepsKeep DEF TokenIssued, ExchangeFails, AuthInv
<1>8. CASE AccountAnswers \/ AccountFails
  BY <1>8, OtherStepsKeep DEF AccountAnswers, AccountFails, AuthInv
<1>9. ASSUME NEW w \in Wanted, CreateBotGame(w)
      PROVE  AuthInv'
  <2>1. step'.do = "challenge"
    BY <1>9 DEF CreateBotGame
  <2> QED
    BY <1>9, <2>1, OtherStepsKeep DEF CreateBotGame, othersOfAuth, AuthInv
<1>10. ASSUME LichessCreates
       PROVE  AuthInv'
  <2>1. step'.do = "challenge"
    BY <1>10 DEF LichessCreates
  <2> QED
    BY <1>10, <2>1, OtherStepsKeep DEF LichessCreates, othersOfAuth, AuthInv
<1>11. CASE ChallengeAnswered \/ ChallengeFails
  BY <1>11, OtherStepsKeep
  DEF ChallengeAnswered, ChallengeFails, othersOfAuth, AuthInv
<1> QED
  BY <1>1, <1>2, <1>3, <1>4, <1>5, <1>6, <1>7, <1>8, <1>9, <1>10, <1>11
  DEF Next, AuthNext

\* A code is exchanged for its own request only, the last one begun, within its
\* lifetime and once, and the connected backend uses such a token.
THEOREM OnlyOurCodesAreExchanged == Spec => []ExchangesAreOurs
BY AuthInitially, AuthInvStays, AuthInvImplies, PTL DEF Spec

-----------------------------------------------------------------------------
(* The games.                                                              *)

\* The challenge as it was posted and, once Lichess has created the game, the
\* game it became.
PostedIsWanted ==
  step.do = "challenge" =>
    /\ step.color.sent = step.color.mine
    /\ step.color.sent \in Color
    /\ step.want.color \in {"random", step.color.mine}
    /\ step.created # 0 =>
         /\ step.created \in DOMAIN games
         /\ games[step.created].account = step.color.mine
         /\ games[step.created].opponent = step.want.opponent
         /\ games[step.created].position = PositionOf(step.want)

GameInv ==
  /\ games \in Seq([opponent : STRING, variant : STRING \cup Variant,
                    rated : BOOLEAN, account : Color, position : Position])
  /\ PostedIsWanted
  /\ \A g \in reported : g.id \in DOMAIN games
  /\ GamesAreAsReported

LEMMA GameInitially == Init => GameInv
BY DEF Init, AuthInit, Idle, GameInv, PostedIsWanted, GamesAreAsReported

\* Steps that leave the games and the posted challenge, or end it.
LEMMA GameKept ==
  ASSUME GameInv, UNCHANGED <<games, reported>>,
         step' = step \/ step'.do # "challenge"
  PROVE  GameInv'
<1>1. GamesAreAsReported'
  BY DEF GameInv, GamesAreAsReported
<1>2. PostedIsWanted'
  BY DEF GameInv, PostedIsWanted, PositionOf
<1> QED
  BY <1>1, <1>2 DEF GameInv

LEMMA CreateKeepsGames ==
  ASSUME GameInv, NEW w \in Wanted, CreateBotGame(w)
  PROVE  GameInv'
<1>1. w.color \in Color \cup {"random"}
  BY AccountAssumption DEF BotGameRequest
<1>2. PICK color \in ResolveColor(w.color) :
        step' = [do |-> "challenge", want |-> w, color |-> color, created |-> 0]
  BY DEF CreateBotGame
<1>3. /\ color.sent = color.mine /\ color.sent \in Color
      /\ w.color \in {"random", color.mine}
  BY <1>1 DEF ResolveColor, Color
<1>4. PostedIsWanted'
  BY <1>2, <1>3 DEF PostedIsWanted
<1>5. UNCHANGED <<games, reported>>
  BY DEF CreateBotGame
<1> QED
  BY <1>4, <1>5 DEF GameInv, GamesAreAsReported

LEMMA CreationKeepsGames ==
  ASSUME GameInv, step.do = "challenge" => step.want \in BotGameRequest,
         LichessCreates
  PROVE  GameInv'
<1> DEFINE Game == [opponent : STRING, variant : STRING \cup Variant,
                    rated : BOOLEAN, account : Color, position : Position]
<1>1. PICK account \in {step.color.sent},
           variant \in {VariantAtLichess(step.want), "standard"},
           rated \in BOOLEAN :
        games' = Append(games, [opponent |-> step.want.opponent,
                                variant |-> variant, rated |-> rated,
                                account |-> account,
                                position |-> PositionOf(step.want)])
  <2>1. step.color.sent \in Color /\ step.color.sent # "random"
    BY DEF LichessCreates, GameInv, PostedIsWanted, Color
  <2> QED
    BY <2>1 DEF LichessCreates
<1> DEFINE new == [opponent |-> step.want.opponent, variant |-> variant,
                   rated |-> rated, account |-> account,
                   position |-> PositionOf(step.want)]
<1>2. step.want \in BotGameRequest /\ step.color.sent \in Color
  BY DEF LichessCreates, GameInv, PostedIsWanted
<1>3. PositionOf(step.want) \in Position
  BY <1>2, AccountAssumption DEF PositionOf, BotGameRequest
<1>4. variant \in STRING \cup Variant /\ step.want.opponent \in STRING
  <2>1. step.want.variant \in STRING /\ step.want.opponent \in STRING
    BY <1>2 DEF BotGameRequest
  <2>2. VariantAtLichess(step.want) \in STRING \cup Variant
    BY <2>1, AccountAssumption DEF VariantAtLichess
  <2> QED
    BY <1>1, <2>1, <2>2, AccountAssumption
<1>5. new \in Game
  <2>1. account \in Color /\ rated \in BOOLEAN
    BY <1>1, <1>2
  <2> QED
    BY <1>3, <1>4, <2>1
<1>6. /\ new.account = step.color.sent
      /\ new.opponent = step.want.opponent
      /\ new.position = PositionOf(step.want)
  BY <1>1
<1> HIDE DEF new
<1>7. /\ games' \in Seq(Game)
      /\ DOMAIN games \subseteq DOMAIN games'
      /\ Len(games) + 1 \in DOMAIN games'
      /\ \A i \in DOMAIN games : games'[i] = games[i]
      /\ games'[Len(games) + 1] = new
  BY <1>1, <1>5 DEF new, GameInv
<1>8. /\ step' = [step EXCEPT !.created = Len(games) + 1]
      /\ UNCHANGED reported
  BY DEF LichessCreates
<1>9. GamesAreAsReported' /\ \A g \in reported' : g.id \in DOMAIN games'
  BY <1>7, <1>8 DEF GameInv, GamesAreAsReported
<1>10. step.created = 0
  BY DEF LichessCreates
<1>11. PostedIsWanted'
  BY <1>6, <1>7, <1>8 DEF LichessCreates, GameInv, PostedIsWanted, PositionOf
<1> QED
  BY <1>7, <1>9, <1>11 DEF GameInv

LEMMA AnswerKeepsGames ==
  ASSUME GameInv, ChallengeAnswered
  PROVE  GameInv'
<1> DEFINE new == BotGame(step.want, step.color.mine, step.created)
           theirs == games[step.created]
<1>1. /\ step.created \in DOMAIN games
      /\ theirs.account = step.color.mine
      /\ theirs.opponent = step.want.opponent
      /\ theirs.position = PositionOf(step.want)
      /\ step.want.color \in {"random", step.color.mine}
  BY DEF ChallengeAnswered, GameInv, PostedIsWanted
<1>2. /\ new.id = step.created
      /\ new.player = theirs.account
      /\ new.wanted \in {"random", theirs.account}
      /\ new.opponent = theirs.opponent
      /\ new.variant = theirs.variant
      /\ new.isMyTurn = (Turn[theirs.position] = theirs.account)
  BY <1>1 DEF BotGame
<1>3. \/ UNCHANGED reported
      \/ ~theirs.rated /\ reported' = reported \cup {new}
  BY DEF ChallengeAnswered
<1>4. UNCHANGED games /\ step' = Idle
  BY DEF ChallengeAnswered
<1> HIDE DEF new
<1>5. \A g \in reported' : g.id \in DOMAIN games'
  BY <1>1, <1>2, <1>3, <1>4 DEF GameInv
<1>6. GamesAreAsReported'
  BY <1>2, <1>3, <1>4 DEF GameInv, GamesAreAsReported
<1>7. PostedIsWanted'
  BY <1>4 DEF Idle, PostedIsWanted
<1> QED
  BY <1>4, <1>5, <1>6, <1>7 DEF GameInv

\* No step of the authorization posts a challenge.
LEMMA AuthPostsNothing ==
  ASSUME AuthNext
  PROVE  step' = step \/ step'.do # "challenge"
<1>1. CASE step' = Idle
  BY <1>1 DEF Idle
<1>2. ASSUME NEW r, step' = Exchanging(r) \/ step' = Fetching(r)
      PROVE  step'.do # "challenge"
  <2>1. CASE step' = Exchanging(r)
    BY <2>1 DEF Exchanging
  <2>2. CASE step' = Fetching(r)
    BY <2>2 DEF Fetching
  <2> QED
    BY <1>2, <2>1, <2>2
<1>3. CASE step' = step
  BY <1>3
<1>4. CASE Tick \/ (\E r \in 1..begun : Answer(r)) \/ BeginOAuth \/ CancelOAuth
           \/ Disconnect
  BY <1>3, <1>4 DEF Tick, Answer, BeginOAuth, CancelOAuth, Disconnect
<1>5. CASE \E url \in callbacks \cup Unrelated : CompleteOAuth(url)
  BY <1>2, <1>3, <1>5 DEF CompleteOAuth
<1>6. CASE TokenIssued
  BY <1>2, <1>6 DEF TokenIssued
<1>7. CASE ExchangeFails \/ AccountAnswers \/ AccountFails
  BY <1>1, <1>7 DEF ExchangeFails, AccountAnswers, AccountFails
<1> QED
  BY <1>4, <1>5, <1>6, <1>7 DEF AuthNext

\* The request that is posted is one of the users'.
WantIsRequest == step.do = "challenge" => step.want \in BotGameRequest

LEMMA WantStays == WantIsRequest /\ [Next]_vars => WantIsRequest'
<1> SUFFICES ASSUME WantIsRequest, [Next]_vars PROVE WantIsRequest'
  OBVIOUS
<1>1. CASE step' = step
  BY <1>1 DEF WantIsRequest
<1>2. CASE step'.do # "challenge"
  BY <1>2 DEF WantIsRequest
<1>3. ASSUME NEW w \in Wanted, CreateBotGame(w)
      PROVE  WantIsRequest'
  BY <1>3, AccountAssumption DEF CreateBotGame, WantIsRequest
<1>4. CASE LichessCreates
  BY <1>4 DEF LichessCreates, WantIsRequest
<1>5. CASE ChallengeAnswered \/ ChallengeFails
  <2>1. step'.do # "challenge"
    BY <1>5 DEF ChallengeAnswered, ChallengeFails, Idle
  <2> QED
    BY <1>2, <2>1
<1>6. CASE AuthNext
  BY <1>1, <1>2, <1>6, AuthPostsNothing
<1>7. CASE UNCHANGED vars
  BY <1>1, <1>7 DEF vars
<1> QED
  BY <1>3, <1>4, <1>5, <1>6, <1>7 DEF Next

LEMMA GameInvStays == GameInv /\ WantIsRequest /\ [Next]_vars => GameInv'
<1> SUFFICES ASSUME GameInv, WantIsRequest, [Next]_vars PROVE GameInv'
  OBVIOUS
<1>1. CASE UNCHANGED vars
  BY <1>1, GameKept DEF vars
<1>2. CASE AuthNext /\ UNCHANGED <<games, reported>>
  BY <1>2, AuthPostsNothing, GameKept
<1>3. ASSUME NEW w \in Wanted, CreateBotGame(w)
      PROVE  GameInv'
  BY <1>3, CreateKeepsGames
<1>4. CASE LichessCreates
  BY <1>4, CreationKeepsGames DEF WantIsRequest
<1>5. CASE ChallengeAnswered
  BY <1>5, AnswerKeepsGames
<1>6. CASE ChallengeFails
  BY <1>6, GameKept DEF ChallengeFails, Idle
<1> QED
  BY <1>1, <1>2, <1>3, <1>4, <1>5, <1>6 DEF Next

\* A reported game is the one Lichess keeps: the account's color, also when it
\* was chosen at random, the opponent, the variant, and whose turn it is.
THEOREM ReportedGamesAreTrue == Spec => []GamesAreAsReported
<1>1. Init => WantIsRequest
  BY DEF Init, AuthInit, Idle, WantIsRequest
<1>2. GameInv => GamesAreAsReported
  BY DEF GameInv
<1> QED
  BY <1>1, <1>2, GameInitially, GameInvStays, WantStays, PTL DEF Spec

=============================================================================
