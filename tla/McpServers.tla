------------------------------ MODULE McpServers ------------------------------
(***************************************************************************)
(* One MCP server of the configuration: its row in mcp_servers and the     *)
(* handlers of the API that change it (edit, delete, discovery of tools,   *)
(* and the OAuth flow with start, callback, refresh and reset).  A handler *)
(* reads the row, awaits the MCP server or its authorization server, and   *)
(* writes the row long after: SQLAlchemy's UPDATE names the columns whose  *)
(* value differs from the one that was read, and no others.                *)
(* Secrets are numbers: a token is the response it came in, a state and a  *)
(* verifier the link they were made for, a client_id its registration; of  *)
(* oauth_metadata only which of its two parts it has: the endpoints of the *)
(* authorization server, and the hint of a 401 where to look for them.     *)
(***************************************************************************)
EXTENDS Naturals

CONSTANTS
    Handlers,      \* concurrent requests to the API
    MaxRequests,   \* bounds: requests altogether,
    MaxResponses   \* and responses with tokens

ASSUME HandlersAssumption == Handlers # {}
ASSUME BoundsAssumption   == MaxRequests \in Nat /\ MaxResponses \in Nat

VARIABLES
    row,           \* the columns, of which None is 0
    deleted,       \* the row is gone
    handlers,      \* what each request holds
    requests,      \* counters: requests,
    registrations, \* dynamic registrations of a client,
    links,         \* authorization URLs handed out,
    responses,     \* token responses
    expired,       \* responses whose access token has expired
    declares       \* the authorization server sends expires_in with its tokens

vars == <<row, deleted, handlers, requests, registrations, links, responses, expired, declares>>
grants == <<registrations, links, responses>>

Columns == [enabled : BOOLEAN, status : {"none", "OK", "ERROR", "AUTH_REQUIRED"},
            metadata : SUBSET {"endpoints", "hint"}, client : Nat, state : Nat, verifier : Nat,
            access : Nat, refresh : Nat, expires : Nat]

NewServer == [enabled |-> FALSE, status |-> "none", metadata |-> {}, client |-> 0,
              state |-> 0, verifier |-> 0, access |-> 0, refresh |-> 0, expires |-> 0]

Idle == [op |-> "none", step |-> "idle", read |-> NewServer, work |-> NewServer,
         refused |-> FALSE]

\* create_server has committed.
Init ==
    /\ row = NewServer
    /\ deleted = FALSE
    /\ handlers = [h \in Handlers |-> Idle]
    /\ requests = 0
    /\ registrations = 0 /\ links = 0 /\ responses = 0
    /\ expired = {}
    /\ declares \in BOOLEAN

-----------------------------------------------------------------------------
(* The session of a handler. *)

Load(h, op, step, work) ==
    /\ ~deleted
    /\ handlers[h] = Idle
    /\ requests < MaxRequests
    /\ requests' = requests + 1
    /\ handlers' = [handlers EXCEPT ![h] =
                      [op |-> op, step |-> step, read |-> row, work |-> work,
                       refused |-> FALSE]]
    /\ UNCHANGED <<row, deleted, grants, expired, declares>>

At(h, op, step) == handlers[h].op = op /\ handlers[h].step = step

Become(h, step, work) ==
    handlers' = [handlers EXCEPT ![h].step = step, ![h].work = work]

\* Mutant of Saved: the UPDATE names every column.
SavedWhole(h) == handlers[h].work

Saved(h) ==
    [c \in DOMAIN row |-> IF handlers[h].work[c] # handlers[h].read[c]
                          THEN handlers[h].work[c] ELSE row[c]]

\* The commit; without its row it is a StaleDataError.
Commit(h) ==
    /\ handlers[h].step = "commit"
    /\ handlers[h].op # "delete"
    /\ row' = IF deleted THEN row ELSE Saved(h)
    /\ handlers' = [handlers EXCEPT ![h] = Idle]
    /\ UNCHANGED <<deleted, requests, grants, expired, declares>>

CommitDelete(h) ==
    /\ At(h, "delete", "commit")
    /\ deleted' = TRUE
    /\ handlers' = [handlers EXCEPT ![h] = Idle]
    /\ UNCHANGED <<row, requests, grants, expired, declares>>

\* An exception before the commit (the network, a 422): everything is rolled back.
Fail(h) ==
    /\ handlers[h] # Idle
    /\ handlers' = [handlers EXCEPT ![h] = Idle]
    /\ UNCHANGED <<row, deleted, requests, grants, expired, declares>>

-----------------------------------------------------------------------------
(* Edit, delete and reset only read the row and write it.                   *)

UpdateServer(h, enabled) ==
    Load(h, "update", "commit", [row EXCEPT !.enabled = enabled])

DeleteServer(h) == Load(h, "delete", "commit", row)

\* Mutant of Cleared: the expiry is forgotten.
ClearedTokens(s) == [s EXCEPT !.access = 0, !.refresh = 0, !.state = 0, !.verifier = 0]

Cleared(s) == [s EXCEPT !.access = 0, !.refresh = 0, !.expires = 0,
                        !.state = 0, !.verifier = 0]

\* Mutant of ResetOAuth: the status of the authorization for that of the discovery.
ResetOAuthStatus(h) ==
    Load(h, "reset", "commit", [Cleared(row) EXCEPT !.status = "not_authorized"])

ResetOAuth(h) ==
    Load(h, "reset", "commit",
         [Cleared(row) EXCEPT !.status = IF @ = "OK" THEN "AUTH_REQUIRED" ELSE @])

-----------------------------------------------------------------------------
(* The OAuth flow.  The authorization server answers as it likes.           *)

StartOAuth(h) == Load(h, "start", "prepare", row)

\* The metadata (fetched anew, and replaced, unless it has the endpoints), a
\* registration if there is no client yet, state and verifier.
PrepareAuthorization(h) ==
    /\ At(h, "start", "prepare")
    /\ links' = links + 1
    /\ LET s == handlers[h].work
       IN  /\ registrations' = IF s.client = 0 THEN registrations + 1 ELSE registrations
           /\ Become(h, "commit", [s EXCEPT !.metadata = IF "endpoints" \in @ THEN @ ELSE {"endpoints"},
                                            !.client = IF @ = 0 THEN registrations + 1 ELSE @,
                                            !.state = links + 1, !.verifier = links + 1])
    /\ UNCHANGED <<row, deleted, requests, responses, expired, declares>>

\* The browser follows a link; the row is found by its state.
Callback(h, link) ==
    /\ link \in 1 .. links
    /\ row.state = link
    /\ Load(h, "callback", "exchange", row)

\* _store_tokens: a response need not carry a new refresh token or an expiry.
WithTokens(s, response, rotate) ==
    [s EXCEPT !.access = response, !.expires = IF declares THEN response ELSE 0,
              !.refresh = IF rotate THEN response ELSE @]

CanExchange(s) == "endpoints" \in s.metadata /\ s.verifier # 0 /\ s.client # 0

\* Mutant of ExchangeCode: the verifier is not cleared.
ExchangeCodeOnce(h, rotate) ==
    /\ At(h, "callback", "exchange")
    /\ responses < MaxResponses
    /\ responses' = responses + 1
    /\ CanExchange(handlers[h].work)
    /\ Become(h, "commit", [WithTokens(handlers[h].work, responses + 1, rotate)
                               EXCEPT !.state = 0])
    /\ UNCHANGED <<row, deleted, requests, registrations, links, expired, declares>>

ExchangeCode(h, rotate) ==
    /\ At(h, "callback", "exchange")
    /\ responses < MaxResponses
    /\ responses' = responses + 1
    /\ CanExchange(handlers[h].work)
    /\ Become(h, "commit", [WithTokens(handlers[h].work, responses + 1, rotate)
                               EXCEPT !.state = 0, !.verifier = 0])
    /\ UNCHANGED <<row, deleted, requests, registrations, links, expired, declares>>

ExchangeRefused(h) ==
    /\ At(h, "callback", "exchange")
    /\ Become(h, "commit", [handlers[h].work EXCEPT !.status = "AUTH_REQUIRED"])
    /\ UNCHANGED <<row, deleted, requests, grants, expired, declares>>

Expire(response) ==
    /\ response \in (1 .. responses) \ expired
    /\ expired' = expired \cup {response}
    /\ UNCHANGED <<row, deleted, handlers, requests, grants, declares>>

-----------------------------------------------------------------------------
(* Discovery, with the refresh of the token before it. *)

NeedsRefresh(s) ==
    /\ s.access # 0 /\ s.expires \in expired /\ s.refresh # 0
    /\ "endpoints" \in s.metadata /\ s.client # 0

DiscoverServerTools(h) ==
    Load(h, "discover", IF NeedsRefresh(row) THEN "refresh" ELSE "call", row)

RefreshToken(h, rotate) ==
    /\ At(h, "discover", "refresh")
    /\ responses < MaxResponses
    /\ responses' = responses + 1
    /\ Become(h, "call", WithTokens(handlers[h].work, responses + 1, rotate))
    /\ UNCHANGED <<row, deleted, requests, registrations, links, expired, declares>>

\* The authorization is cleared and the discovery goes on without a token.
RefreshRefused(h) ==
    /\ At(h, "discover", "refresh")
    /\ handlers' = [handlers EXCEPT ![h].step = "call", ![h].refused = TRUE,
                                    ![h].work = Cleared(@)]
    /\ UNCHANGED <<row, deleted, requests, grants, expired, declares>>

\* discover_tools: handshake and tools/list, or one of its exceptions.  A 401 may
\* name the metadata of the resource, which is added to what the handler has read.
Session(h, outcome, hint) ==
    /\ At(h, "discover", "call")
    /\ hint = {} \/ outcome = "AUTH_REQUIRED"
    /\ Become(h, "commit", [handlers[h].work EXCEPT !.status = outcome,
                                                    !.metadata = @ \cup hint])
    /\ UNCHANGED <<row, deleted, requests, grants, expired, declares>>

-----------------------------------------------------------------------------
Outcomes == {"OK", "ERROR", "AUTH_REQUIRED"}

Next ==
    \/ \E h \in Handlers :
         \/ \E enabled \in BOOLEAN : UpdateServer(h, enabled)
         \/ DeleteServer(h) \/ ResetOAuth(h) \/ StartOAuth(h)
         \/ PrepareAuthorization(h)
         \/ \E link \in 1 .. links : Callback(h, link)
         \/ \E rotate \in BOOLEAN : ExchangeCode(h, rotate) \/ RefreshToken(h, rotate)
         \/ ExchangeRefused(h)
         \/ DiscoverServerTools(h) \/ RefreshRefused(h)
         \/ \E outcome \in Outcomes, hint \in SUBSET {"hint"} : Session(h, outcome, hint)
         \/ Commit(h) \/ CommitDelete(h) \/ Fail(h)
    \/ \E response \in 1 .. responses : Expire(response)

Spec == Init /\ [][Next]_vars

-----------------------------------------------------------------------------
(* What concurrent handlers may not do to the row. *)

Steps == {"idle", "prepare", "exchange", "refresh", "call", "commit"}
Operations == {"none", "update", "delete", "reset", "start", "callback", "discover"}

TypeOK ==
    /\ row \in Columns
    /\ deleted \in BOOLEAN
    /\ handlers \in [Handlers -> [op : Operations, step : Steps, read : Columns,
                                  work : Columns, refused : BOOLEAN]]
    /\ requests \in 0 .. MaxRequests
    /\ registrations \in Nat /\ links \in Nat /\ responses \in 0 .. MaxResponses
    /\ expired \subseteq 1 .. responses
    /\ declares \in BOOLEAN

\* A code is exchanged with the verifier its link was made with: no merge of two
\* starts, callbacks or resets leaves the state of one and the verifier of another.
PendingIsPaired == row.state = row.verifier

\* The expiry that decides about a refresh is that of the token in use, after any
\* merge of callbacks, refreshes and resets: a token is never kept with the expiry
\* of another one (renewed too early, or never).
ExpiryOfToken == row.expires = IF declares THEN row.access ELSE 0

\* The requests that clear the authorization: a reset, a discovery whose refresh
\* was refused.
Clears(h) == handlers[h].op = "reset" \/ handlers[h].refused

\* Tokens leave the row by the commit of a request that cleared them itself and had
\* read some, and such a commit leaves none behind ("em vez de repetir chamadas com
\* um token inválido", mcp_oauth.py:140); the late commit of a start, a callback, an
\* edit or another discovery takes away no token stored since it read the row.  The
\* token that is cleared need not be the one that was read: a refusal of the old
\* refresh token, or a reset, also clears a token stored meanwhile.
ClearedAsDecided ==
    [][\A h \in Handlers : Commit(h) /\ ~deleted =>
          \A c \in {"access", "refresh"} :
             IF Clears(h) /\ handlers[h].read[c] # 0
             THEN row'[c] = 0
             ELSE row[c] # 0 => row'[c] # 0]_vars

\* A server is enabled or disabled by an edit, never by a discovery or a callback
\* that had read it before the edit.
EditsStay ==
    [][row'.enabled # row.enabled =>
          \E h \in Handlers : handlers[h].op = "update" /\ handlers[h].step = "commit"]_vars
=============================================================================
