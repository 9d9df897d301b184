------------------------------- MODULE HttpEdge -------------------------------
(***************************************************************************)
(* The /mcp endpoint of the HTTP server: authenticated requests, the       *)
(* per-principal concurrency slot each one holds, the table of MCP sessions*)
(* with its sweep and its reconnect grace, and the shutdown of the process.*)
(*                                                                         *)
(* Node runs a handler from one await to the next without interruption, so *)
(* an action is such a stretch.  Identity resolution, connect and close of *)
(* a transport settle in microtasks (the adapters behind them are          *)
(* synchronous): other requests' code may run in between, socket events may*)
(* not.  A session expires when it passes its absolute, its idle or, once  *)
(* closed, its grace limit; every request sweeps the table before it looks *)
(* at it, so the three limits are one flag.  The window limiters and the   *)
(* enforcement decision are free choices of Refuse.                        *)
(***************************************************************************)
EXTENDS Integers, FiniteSets

CONSTANTS
  Conn,           \* requests in flight at once
  Principal,      \* principalBinding: principal, client and resource
  Sid,            \* session ids: randomUUID values
  MaxConcurrent,  \* maxConcurrentRequestsPerPrincipal
  MaxSessions,    \* maxMcpSessions
  None            \* no session, no header

ASSUME FinitenessAssumption == IsFiniteSet(Conn) /\ IsFiniteSet(Sid)
ASSUME LimitsAssumption == MaxConcurrent \in Nat \ {0} /\ MaxSessions \in Nat

VARIABLES
  req,            \* per request: its handler, its response and its slot
  inflight,       \* expensiveInflight
  sessions,       \* the session table
  creator,        \* principalBinding of each session id drawn, kept as history
  server,         \* the listener and the process: up, draining, exited
  closedDb        \* onShutdown has closed the database

vars == <<req, inflight, sessions, creator, server, closedDb>>

Method == {"GET", "POST", "DELETE", "MODERN"}

\* closedAt is set; createdAt, lastActiveAt or closedAt is past its limit.
SessionEntry == [closed : BOOLEAN, expired : BOOLEAN]

ASSUME NoneAssumption == None \notin Sid \cup Principal \cup SessionEntry

\* A handler is at one of its awaits, or over; a response is open, ended by
\* res.end(), past its "finish" event, or past its "close" event.
Request == [pc : {"idle", "resolving", "connecting", "deleting", "handling", "over"},
            principal : Principal \cup {None}, method : Method,
            sid : Sid \cup {None},
            res : {"open", "ended", "finished", "closed"},
            admitted : BOOLEAN, released : BOOLEAN]

Idle == [pc |-> "idle", principal |-> None, method |-> "GET", sid |-> None,
         res |-> "closed", admitted |-> FALSE, released |-> FALSE]

TypeOK ==
  /\ req \in [Conn -> Request]
  /\ inflight \in [Principal -> Nat]
  /\ sessions \in [Sid -> SessionEntry \cup {None}]
  /\ creator \in [Sid -> Principal \cup {None}]
  /\ server \in {"up", "draining", "exited"}
  /\ closedDb \in BOOLEAN

Init ==
  /\ req = [r \in Conn |-> Idle]
  /\ inflight = [p \in Principal |-> 0]
  /\ sessions = [s \in Sid |-> None]
  /\ creator = [s \in Sid |-> None]
  /\ server = "up"
  /\ closedDb = FALSE

-----------------------------------------------------------------------------
(* Requests and responses *)

\* The request still has its concurrency slot.
Holds(r) == req[r].admitted /\ ~req[r].released

\* A record whose handler is over and whose response is closed is forgotten.
Settled(q) == IF q.pc = "over" /\ q.res = "closed" THEN Idle ELSE q

\* The handler is over; it ends the response if the client is still there.
Answered(q) ==
  Settled([q EXCEPT !.pc = "over", !.method = "GET", !.sid = None,
                    !.res = IF @ = "open" THEN "ended" ELSE @])

\* A GET stream lives until its session's transport closes or the client leaves.
Streaming(q) == q.pc = "handling" /\ q.method = "GET"

\* Closing the transports of the sessions in S ends the streams they serve.
CloseStreams(S) ==
  [r \in Conn |-> IF Streaming(req[r]) /\ req[r].sid \in S THEN Answered(req[r])
                                                           ELSE req[r]]

Live(s) == sessions[s] # None

\* Mutant: only closed sessions are removed.
Stale_ClosedOnly(s) == Live(s) /\ sessions[s].expired /\ sessions[s].closed

\* cleanupStaleSessions deletes these, whichever limit they passed.
Stale(s) == Live(s) /\ sessions[s].expired

Swept == {s \in Sid : Stale(s)}
Kept == [s \in Sid |-> IF Stale(s) THEN None ELSE sessions[s]]

\* The table after the sweep that every admitted request performs.
Size(table) == Cardinality({s \in Sid : table[s] # None})

\* A request with a bearer token that validates: the claims are read, then the
\* handler awaits observeRequestResolution.  The header names a session id the
\* server has drawn, or none it knows.  While the server drains, requests come
\* only on connections that are still open.
Arrive(r, p, m, s) ==
  /\ req[r] = Idle
  /\ \/ server = "up"
     \/ server = "draining" /\ \E q \in Conn : req[q].res # "closed"
  /\ s # None => creator[s] # None
  /\ req' = [req EXCEPT ![r] = [pc |-> "resolving", principal |-> p, method |-> m,
                                sid |-> s, res |-> "open",
                                admitted |-> FALSE, released |-> FALSE]]
  /\ UNCHANGED <<inflight, sessions, creator, server, closedDb>>

\* 403 context_denied, 429 rate_limited or 429 concurrency_limited: no slot.
Refuse(r) ==
  /\ server # "exited" /\ req[r].pc = "resolving"
  /\ req' = [req EXCEPT ![r] = Answered(@)]
  /\ UNCHANGED <<inflight, sessions, creator, server, closedDb>>

\* The handler goes on with a slot to take.
Admitted(r) ==
  /\ server # "exited" /\ req[r].pc = "resolving"
  /\ inflight[req[r].principal] < MaxConcurrent

\* Takes the slot, hooks its release to both events of the response, sweeps the
\* table, and leaves the request as q, with the transports of `shut` closed too.
Proceed(r, q, shut) ==
  /\ inflight' = [inflight EXCEPT ![req[r].principal] = @ + 1]
  /\ req' = [CloseStreams(Swept \cup shut) EXCEPT ![r] = [q EXCEPT !.admitted = TRUE]]
  /\ UNCHANGED <<server, closedDb>>

\* The session the header names, if the sweep left it.
Named(r) == {s \in Sid : s = req[r].sid /\ Kept[s] # None}
Foreign(r) == \E s \in Named(r) : creator[s] # req[r].principal

\* Mutant: a request of another principal is let through to the session.
Own_AnyPrincipal(r) == Named(r)

\* The named session, once session_principal_mismatch is ruled out.
Own(r) == {s \in Named(r) : creator[s] = req[r].principal}

-----------------------------------------------------------------------------
(* Routes of an admitted request *)

\* Answers without a session: 405, 413 or 429 of a modern request, 403 for a foreign
\* session, 400 for a stream without one, 200 for a DELETE of an unknown one, and
\* 429 when the table is full.  (Other methods end in 403 or 405, like a refused
\* modern request.)
Reply(r) ==
  /\ Admitted(r)
  /\ \/ req[r].method = "MODERN"
     \/ Foreign(r)
     \/ req[r].method \in {"GET", "DELETE"} /\ Named(r) = {}
     \/ req[r].method = "POST" /\ Named(r) = {} /\ Size(Kept) >= MaxSessions
  /\ Proceed(r, Answered(req[r]), {})
  /\ sessions' = Kept
  /\ UNCHANGED creator

\* A modern request runs without a session.
ModernPost(r) ==
  /\ Admitted(r) /\ req[r].method = "MODERN"
  /\ Proceed(r, [req[r] EXCEPT !.pc = "handling", !.sid = None], {})
  /\ sessions' = Kept
  /\ UNCHANGED creator

\* DELETE calls transport.close(), whose onclose marks the entry, and awaits it.
CloseSession(r, s) ==
  /\ Admitted(r) /\ req[r].method = "DELETE" /\ s \in Own(r)
  /\ Proceed(r, [req[r] EXCEPT !.pc = "deleting"], {s})
  /\ sessions' = [Kept EXCEPT ![s].closed = TRUE]
  /\ UNCHANGED creator

\* runAuthorizedSession: the session's transport takes over.  (That the session
\* becomes active again delays Expire.)
OpenStream(r, s) ==
  /\ Admitted(r) /\ req[r].method = "GET" /\ s \in Own(r)
  /\ Proceed(r, [req[r] EXCEPT !.pc = "handling"], {})
  /\ sessions' = Kept
  /\ UNCHANGED creator

PostToSession(r, s) ==
  /\ Admitted(r) /\ req[r].method = "POST" /\ s \in Own(r)
  /\ ~Kept[s].closed
  /\ Proceed(r, [req[r] EXCEPT !.pc = "handling"], {})
  /\ sessions' = Kept
  /\ UNCHANGED creator

\* A closed session within its grace gets a new transport.
Reconnect(r, s) ==
  /\ Admitted(r) /\ req[r].method = "POST" /\ s \in Own(r)
  /\ Kept[s].closed
  /\ Proceed(r, [req[r] EXCEPT !.pc = "connecting"], {})
  /\ sessions' = [Kept EXCEPT ![s].closed = FALSE]
  /\ UNCHANGED creator

\* A POST without a session the table knows draws an id and stores a new entry.
NewSession(r, s) ==
  /\ Admitted(r) /\ req[r].method = "POST" /\ Named(r) = {}
  /\ creator[s] = None /\ Size(Kept) < MaxSessions
  /\ Proceed(r, [req[r] EXCEPT !.pc = "connecting", !.sid = s], {})
  /\ sessions' = [Kept EXCEPT ![s] = [closed |-> FALSE, expired |-> FALSE]]
  /\ creator' = [creator EXCEPT ![s] = req[r].principal]

\* server.connect settled: the request is handled in its session.  A reconnected
\* entry is at hand even if it has been removed from the table meanwhile.
Connected(r) ==
  /\ server # "exited" /\ req[r].pc = "connecting"
  /\ req' = [req EXCEPT ![r].pc = "handling"]
  /\ UNCHANGED <<inflight, sessions, creator, server, closedDb>>

\* connect or close threw, or a new entry is gone: the outer catch answers 500.
Fail(r) ==
  /\ server # "exited" /\ req[r].pc \in {"connecting", "deleting"}
  /\ req' = [req EXCEPT ![r] = Answered(@)]
  /\ UNCHANGED <<inflight, sessions, creator, server, closedDb>>

\* The awaited close settled: the entry is removed, whatever became of it.
DeleteSession(r) ==
  /\ server # "exited" /\ req[r].pc = "deleting"
  /\ req' = [req EXCEPT ![r] = Answered(@)]
  /\ sessions' = [sessions EXCEPT ![req[r].sid] = None]
  /\ UNCHANGED <<inflight, creator, server, closedDb>>

\* The transport, or the outer catch, ends the response.
Respond(r) ==
  /\ server # "exited" /\ req[r].pc = "handling"
  /\ req' = [req EXCEPT ![r] = Answered(@)]
  /\ UNCHANGED <<inflight, sessions, creator, server, closedDb>>

-----------------------------------------------------------------------------
(* Events of the response *)

\* Mutant: every event gives the slot back.
Release_EveryEvent(r) ==
  inflight' = [inflight EXCEPT ![req[r].principal] =
                 IF req[r].admitted THEN (IF @ <= 1 THEN 0 ELSE @ - 1) ELSE @]

\* release(): the first event to call it gives the slot back.
Release(r) ==
  inflight' = [inflight EXCEPT ![req[r].principal] =
                 IF Holds(r) THEN (IF @ <= 1 THEN 0 ELSE @ - 1) ELSE @]

\* The record after either event: an admitted request has been released.
Finished(q) == [q EXCEPT !.res = "finished", !.released = q.admitted]
Gone(q) ==
  Settled([q EXCEPT !.res = "closed", !.released = q.admitted,
                    !.pc = IF Streaming(q) THEN "over" ELSE q.pc])

\* The last bytes were handed to the socket.
Finish(r) ==
  /\ server # "exited" /\ req[r].res = "ended"
  /\ Release(r)
  /\ req' = [req EXCEPT ![r] = Finished(@)]
  /\ UNCHANGED <<sessions, creator, server, closedDb>>

\* The connection is gone: after the response, or because the client left.  The
\* handler of a request whose client left runs on.
Close(r) ==
  /\ server # "exited" /\ req[r].pc \in {"handling", "over"} /\ req[r].res # "closed"
  /\ Release(r)
  /\ req' = [req EXCEPT ![r] = Gone(@)]
  /\ UNCHANGED <<sessions, creator, server, closedDb>>

-----------------------------------------------------------------------------
(* Timers, the transports and the clock *)

\* The interval timer sweeps the table.
CleanupStaleSessions ==
  /\ server # "exited" /\ Swept # {}
  /\ req' = CloseStreams(Swept)
  /\ sessions' = Kept
  /\ UNCHANGED <<inflight, creator, server, closedDb>>

\* A transport closes by itself; its hook marks the entry.
TransportClosed(s) ==
  /\ server # "exited" /\ Live(s) /\ ~sessions[s].closed
  /\ req' = CloseStreams({s})
  /\ sessions' = [sessions EXCEPT ![s].closed = TRUE]
  /\ UNCHANGED <<inflight, creator, server, closedDb>>

\* The absolute, the idle or the grace limit of a session passes.
Expire(s) ==
  /\ server # "exited" /\ Live(s) /\ ~sessions[s].expired
  /\ sessions' = [sessions EXCEPT ![s].expired = TRUE]
  /\ UNCHANGED <<req, inflight, creator, server, closedDb>>

-----------------------------------------------------------------------------
(* Shutdown *)

\* finish(code, release) of the shutdown controller.
Exit(release) ==
  /\ server' = "exited"
  /\ closedDb' = release
  /\ UNCHANGED <<req, inflight, sessions, creator>>

\* The first signal stops the listener and arms the timer; a second one forces.
Shutdown ==
  \/ /\ server = "up"
     /\ server' = "draining"
     /\ UNCHANGED <<req, inflight, sessions, creator, closedDb>>
  \/ server = "draining" /\ Exit(FALSE)

\* server.close calls back once every connection has ended.
Drained ==
  /\ server = "draining"
  /\ \A r \in Conn : req[r].res = "closed"
  /\ Exit(TRUE)

\* Mutant: the timer gives up when a response is still open.
ForceExit_WhenQuiet ==
  /\ server = "draining"
  /\ \A r \in Conn : req[r].res # "open"
  /\ Exit(FALSE)

\* The grace period of the shutdown elapsed.
ForceExit == server = "draining" /\ Exit(FALSE)

-----------------------------------------------------------------------------
Handle(r) ==
  \/ \E p \in Principal, m \in Method, s \in Sid \cup {None} : Arrive(r, p, m, s)
  \/ Refuse(r)
  \/ Reply(r)
  \/ ModernPost(r)
  \/ \E s \in Sid : CloseSession(r, s)
  \/ \E s \in Sid : OpenStream(r, s)
  \/ \E s \in Sid : PostToSession(r, s)
  \/ \E s \in Sid : Reconnect(r, s)
  \/ \E s \in Sid : NewSession(r, s)
  \/ Connected(r)
  \/ Fail(r)
  \/ DeleteSession(r)
  \/ Respond(r)
  \/ Finish(r)
  \/ Close(r)

Next ==
  \/ \E r \in Conn : Handle(r)
  \/ \E s \in Sid : TransportClosed(s) \/ Expire(s)
  \/ CleanupStaleSessions
  \/ Shutdown \/ Drained \/ ForceExit

Spec == Init /\ [][Next]_vars

\* The clock moves and armed timers fire; nothing is assumed of clients or tools.
FairSpec ==
  /\ Spec
  /\ \A s \in Sid : WF_vars(Expire(s))
  /\ WF_vars(CleanupStaleSessions)
  /\ WF_vars(ForceExit)

-----------------------------------------------------------------------------
(* Properties *)

\* The request was admitted and its response is still going on.
Occupies(r) == req[r].admitted /\ req[r].res \in {"open", "ended"}

\* "Global bounded concurrency": the counter of a principal is exactly the number
\* of its admitted requests whose response is still going on, within the limit,
\* though each slot is given back by either of two events of the response that
\* may both come (release in http-server.ts).
InflightExact ==
  \A p \in Principal :
    /\ inflight[p] = Cardinality({r \in Conn : Occupies(r) /\ req[r].principal = p})
    /\ inflight[p] <= MaxConcurrent

\* A session serves the principal it was created for and no other, also when it is
\* reconnected or deleted while requests to it are under way
\* (session_principal_mismatch).
SessionServesCreator ==
  \A r \in Conn :
    req[r].pc \in {"connecting", "deleting", "handling"} /\ req[r].sid # None =>
      creator[req[r].sid] = req[r].principal

\* The table never exceeds MAX_MCP_SESSIONS, with any number of concurrent creations.
SessionsBounded == Size(sessions) <= MaxSessions

\* The database is closed only after a drain: then no response is open
\* (createShutdownController: "resources freed only after a clean drain").
DatabaseClosedAfterDrain == closedDb => \A r \in Conn : req[r].res = "closed"

\* A session leaves the table only past one of its limits or by a DELETE of its own
\* principal: neither a closed transport nor a request of another principal, in
\* whatever order they meet, ends it within its grace.
SessionRemovedForCause ==
  [][\A s \in Sid : Live(s) /\ sessions'[s] = None =>
       \/ sessions[s].expired
       \/ \E r \in Conn : /\ req[r].pc = "deleting" /\ req[r].sid = s
                          /\ req[r].principal = creator[s]]_vars

\* Every session leaves the table in the end, however busy it is kept.
SessionsExpire == \A s \in Sid : Live(s) ~> ~Live(s) \/ server = "exited"

\* "A bounded force timer guarantees termination even if a connection never drains."
ShutdownEnds == server = "draining" ~> server = "exited"
=============================================================================
