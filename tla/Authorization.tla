--------------------------- MODULE Authorization ---------------------------
(***************************************************************************)
(* Signing in with Lichess: the OAuth request of libchess-lichess, held by  *)
(* libchess::Client, from the authorization URL to the connected account.   *)
(* The browser answers a request when it likes, if at all, and the frontend *)
(* may hand over a callback late, twice, or after another request began.    *)
(*                                                                         *)
(* A request stands for what is unique to it: its state, its code verifier  *)
(* and its redirect URI. The code that Lichess issues for a request is      *)
(* named like the request.                                                  *)
(***************************************************************************)
EXTENDS Naturals, Sequences

CONSTANTS
  TTL,          \* OAUTH_SESSION_TTL
  MaxTime,      \* bound: the clock
  MaxRequests,  \* bound: authorization requests
  Unrelated,    \* callback URLs that no browser answer produced
  None

Request == 1..MaxRequests

\* What exchange() reads of a callback URL: whether it parses and names the
\* redirect target, and the values of three query parameters.
Url == [ours : BOOLEAN, state : Seq(Request), error : Seq(STRING),
        code : Seq(Request)]

ASSUME AuthorizationAssumption ==
  /\ TTL \in Nat /\ MaxTime \in Nat /\ MaxRequests \in Nat
  /\ Unrelated \subseteq Url
  /\ \A url \in Unrelated :
       ~(url.ours /\ Len(url.state) = 1 /\ url.error = <<>> /\ Len(url.code) = 1)
  /\ None \notin Request

VARIABLES
  now,        \* the clock of the process
  begun,      \* requests begun; the last one is `begun`
  since,      \* since[r]: created_at of request r
  session,    \* Client::oauth_session: the request or None
  callbacks,  \* the URLs the browser was redirected to
  asked,      \* the token requests that reached Lichess, in order
  step,       \* what complete_oauth waits for
  backend     \* the request whose token the connected backend uses

authVars == <<now, begun, since, session, callbacks, asked, step, backend>>

Idle == [do |-> "nothing"]
Exchanging(r) == [do |-> "exchange", request |-> r]
Fetching(r) == [do |-> "account", request |-> r]

AuthInit ==
  /\ now = 0
  /\ begun = 0
  /\ since = [r \in Request |-> 0]
  /\ session = None
  /\ callbacks = {}
  /\ asked = <<>>
  /\ step = Idle
  /\ backend = None

-----------------------------------------------------------------------------
(* Time, the browser and Lichess.                                          *)

Tick ==
  /\ now < MaxTime
  /\ now' = now + 1
  /\ UNCHANGED <<begun, since, session, callbacks, asked, step, backend>>

Approval(r) == [ours |-> TRUE, state |-> <<r>>, error |-> <<>>, code |-> <<r>>]
Denial(r) == [ours |-> TRUE, state |-> <<r>>, error |-> <<"access_denied">>,
              code |-> <<>>]

\* The user approves or denies a request on the page of Lichess.
Answer(r) ==
  /\ \E url \in {Approval(r), Denial(r)} : callbacks' = callbacks \cup {url}
  /\ UNCHANGED <<now, begun, since, session, asked, step, backend>>

-----------------------------------------------------------------------------
(* The client: one command at a time.                                      *)

\* begin_oauth: a new request takes the place of the one that is pending.
BeginOAuth ==
  /\ step = Idle
  /\ begun < MaxRequests
  /\ begun' = begun + 1
  /\ since' = [since EXCEPT ![begun + 1] = now]
  /\ session' = begun + 1
  /\ UNCHANGED <<now, callbacks, asked, step, backend>>

CancelOAuth ==
  /\ step = Idle
  /\ session' = None
  /\ UNCHANGED <<now, begun, since, callbacks, asked, step, backend>>

Disconnect ==
  /\ step = Idle
  /\ session' = None
  /\ backend' = None
  /\ UNCHANGED <<now, begun, since, callbacks, asked, step>>

IsExpired(r) == now - since[r] > TTL

\* same_redirect_target
IsOurs(url) == url.ours

\* Mutant of IsGranted: the state is looked for, not compared.
IsGrantedStateless(r, url) ==
  /\ ~IsExpired(r)
  /\ IsOurs(url)
  /\ Len(url.state) = 1
  /\ url.error = <<>>
  /\ Len(url.code) = 1

\* validate_callback: every parameter at most once, the state of this request,
\* no error, and a code.
IsGranted(r, url) ==
  /\ ~IsExpired(r)
  /\ IsOurs(url)
  /\ url.state = <<r>>
  /\ url.error = <<>>
  /\ Len(url.code) = 1

\* complete_oauth takes the session whatever the callback is; the exchange
\* sends the code once the callback is validated.
CompleteOAuth(url) ==
  /\ step = Idle
  /\ session # None
  /\ session' = None
  /\ IF IsGranted(session, url)
     THEN /\ step' = Exchanging(session)
          /\ asked' = Append(asked, [request |-> session, code |-> url.code[1],
                                     at |-> now, last |-> begun])
     ELSE UNCHANGED <<step, asked>>
  /\ UNCHANGED <<now, begun, since, callbacks, backend>>

\* Lichess answers with a bearer token that expires later; it knows the code,
\* the verifier belongs to it and it is exchanged for the first time.
TokenIssued ==
  /\ step.do = "exchange"
  /\ LET last == asked[Len(asked)] IN
       /\ last.code = step.request
       /\ ~ \E i \in 1..(Len(asked) - 1) : asked[i].code = last.code
  /\ step' = Fetching(step.request)
  /\ UNCHANGED <<now, begun, since, session, callbacks, asked, backend>>

\* An error status, an unusable token, or no answer in fifteen seconds.
ExchangeFails ==
  /\ step.do = "exchange"
  /\ step' = Idle
  /\ UNCHANGED <<now, begun, since, session, callbacks, asked, backend>>

\* The account of the token: only now does the backend replace the old one.
AccountAnswers ==
  /\ step.do = "account"
  /\ backend' = step.request
  /\ step' = Idle
  /\ UNCHANGED <<now, begun, since, session, callbacks, asked>>

AccountFails ==
  /\ step.do = "account"
  /\ step' = Idle
  /\ UNCHANGED <<now, begun, since, session, callbacks, asked, backend>>

AuthNext ==
  \/ Tick
  \/ \E r \in 1..begun : Answer(r)
  \/ BeginOAuth \/ CancelOAuth \/ Disconnect
  \/ \E url \in callbacks \cup Unrelated : CompleteOAuth(url)
  \/ TokenIssued \/ ExchangeFails
  \/ AccountAnswers \/ AccountFails

-----------------------------------------------------------------------------
(* Properties.                                                             *)

TokenRequest == [request : Request, code : Request, at : Nat, last : Request]

\* "Rust checks the callback target, expiry, unique state, and authorization
\* result before exchanging the one-time code": a code is only ever sent for
\* its own request, the one begun last, within its lifetime, and no request is
\* exchanged twice, however late or often callbacks come in; the connected
\* backend uses the token of such an exchange.
ExchangesAreOurs ==
  /\ \A i \in DOMAIN asked :
       /\ asked[i].code = asked[i].request
       /\ asked[i].request = asked[i].last
       /\ asked[i].at - since[asked[i].request] <= TTL
       /\ \A j \in DOMAIN asked :
            asked[i].request = asked[j].request => i = j
  /\ backend # None =>
       \E i \in DOMAIN asked : /\ asked[i].request = backend
                               /\ asked[i].code = backend

=============================================================================
