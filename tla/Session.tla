------------------------------ MODULE Session ------------------------------
(***************************************************************************)
(* The session of libchess::Client: which backend is selected, which one is *)
(* connected, and the OAuth request that waits for its callback.  The client*)
(* is owned by one worker, which runs one operation of it at a time; the    *)
(* operators here are those operations, cut where they wait for a provider. *)
(*                                                                         *)
(* Client::account is set and cleared together with Client::backend, always *)
(* from the backend that is being connected, so `backend` stands for both.  *)
(***************************************************************************)
EXTENDS Naturals

CONSTANTS
  Provider,       \* the identifiers of the registered factories
  Local,          \* those that connect without credentials
  Serial,         \* tells apart the backends one factory has created
  None            \* stands for the absence of a provider or a backend

ASSUME SessionAssumption ==
  /\ Local \subseteq Provider
  /\ None \notin Provider

\* A backend that some factory created: connecting twice to the same provider
\* gives two of them.
Connection == [provider: Provider, serial: Serial]

ASSUME NoneIsNoConnection == None \notin Connection

VARIABLES
  selected,       \* Client::selected_backend
  backend,        \* Client::backend, and Client::account with it
  pending         \* the provider of Client::oauth_session

sessionVars == <<selected, backend, pending>>

SessionTypeOK ==
  /\ selected \in Provider \cup {None}
  /\ backend \in Connection \cup {None}
  /\ pending \in (Provider \ Local) \cup {None}

SessionInit == selected = None /\ backend = None /\ pending = None

-----------------------------------------------------------------------------
\* begin_oauth for a given provider, begin_selected_oauth for the selected one;
\* a new request replaces the one that was pending.
BeginOAuth(p) ==
  /\ pending' = p
  /\ UNCHANGED <<selected, backend>>

CancelOAuth ==
  /\ pending' = None
  /\ UNCHANGED <<selected, backend>>

\* connect() up to the account request: the selection moves before it is known
\* whether the connection succeeds.
SelectForConnect(p) ==
  /\ selected' = p
  /\ UNCHANGED <<backend, pending>>

\* complete_oauth up to the exchange: the session is consumed.
TakeOAuth ==
  /\ pending' = None
  /\ UNCHANGED <<selected, backend>>

\* Mutant of Connected: the old backend is kept if there is one.
ConnectedOnce(c) ==
  /\ backend' = IF backend = None THEN c ELSE backend
  /\ selected' = c.provider
  /\ UNCHANGED pending

\* connect_with_access_token once the account has answered.
Connected(c) ==
  /\ backend' = c
  /\ selected' = c.provider
  /\ UNCHANGED pending

Disconnect ==
  /\ pending' = None
  /\ backend' = None
  /\ UNCHANGED selected

ClearSelection == pending' = None /\ backend' = None /\ selected' = None

\* select_backend once nothing can fail any more: `c` is the backend that a
\* local factory created, None for a provider that must authenticate.
Select(p, c) ==
  /\ pending' = None
  /\ backend' = c
  /\ selected' = p

=============================================================================
