---------------------------- MODULE HttpEdgeProofs ----------------------------
(***************************************************************************)
(* Proofs about HttpEdge, for any finite number of requests and session ids*)
(* and any limits.                                                         *)
(*                                                                         *)
(* The inductive invariant adds to the properties what a request record may*)
(* look like (Coherent): a slot is given back exactly when the response has*)
(* finished or closed, and a request that waits for its resolution has none*)
(* yet.  The counter argument then has three cases: a step that leaves the *)
(* set of a principal's occupying requests alone, one that adds a request  *)
(* and one that removes it.                                                *)
(***************************************************************************)
EXTENDS HttpEdge, FiniteSetTheorems, TLAPS

Serving == {"connecting", "deleting", "handling"}

\* The record occupies a slot.
Occ(q) == q.admitted /\ q.res \in {"open", "ended"}

\* What every request record satisfies.
RecordOK(q) ==
  /\ q \in Request
  /\ q.pc = "idle" => q.res = "closed" /\ ~q.admitted
  /\ q.pc # "idle" => q.principal \in Principal
  /\ q.admitted => (q.released <=> q.res \in {"finished", "closed"})
  /\ q.released => q.admitted
  /\ q.pc = "resolving" => ~q.admitted /\ q.res = "open"
  /\ q.pc \in {"connecting", "deleting"} => q.sid \in Sid

Coherent == \A r \in Conn : RecordOK(req[r])

\* A record changes from q to z without touching slots or entering a session.
Keeps(q, z) ==
  /\ RecordOK(z)
  /\ Occ(z) <=> Occ(q)
  /\ Occ(q) => z.principal = q.principal
  /\ z.pc \in Serving /\ z.sid # None =>
       q.pc \in Serving /\ z.sid = q.sid /\ z.principal = q.principal

-----------------------------------------------------------------------------
(* Records *)

\* A record of the right fields is a request, and has the fields it is built from.
LEMMA RequestFields ==
  ASSUME NEW q \in Request
  PROVE  /\ q.pc \in {"idle", "resolving", "connecting", "deleting", "handling", "over"}
         /\ q.principal \in Principal \cup {None}
         /\ q.method \in Method
         /\ q.sid \in Sid \cup {None}
         /\ q.res \in {"open", "ended", "finished", "closed"}
         /\ q.admitted \in BOOLEAN /\ q.released \in BOOLEAN
BY DEF Request

\* The record of an unused place is a request record.
LEMMA IdleOK == RecordOK(Idle) /\ ~Occ(Idle) /\ Idle.pc = "idle"
BY DEF RecordOK, Idle, Request, Occ, Method

\* A record keeps what it satisfies when nothing happens to it.
LEMMA SameKeeps ==
  ASSUME NEW q, RecordOK(q)
  PROVE  Keeps(q, q)
BY DEF Keeps

\* Answering a request keeps its slot as it is and takes it out of its session.
LEMMA AnsweredKeeps ==
  ASSUME NEW q, RecordOK(q), q.pc # "idle"
  PROVE  /\ Keeps(q, Answered(q))
         /\ q.res = "open" => /\ Answered(q).res = "ended"
                              /\ Answered(q).pc = "over"
                              /\ Answered(q).principal = q.principal
                              /\ Answered(q).admitted = q.admitted
                              /\ Answered(q).released = q.released
         /\ q.res = "closed" => Answered(q).res = "closed"
<1> DEFINE a == [q EXCEPT !.pc = "over", !.method = "GET", !.sid = None,
                          !.res = IF @ = "open" THEN "ended" ELSE @]
<1>1. q \in Request
  BY DEF RecordOK
<1>2. /\ a \in Request
      /\ a.pc = "over" /\ a.sid = None /\ a.principal = q.principal
      /\ a.res = (IF q.res = "open" THEN "ended" ELSE q.res)
      /\ a.admitted = q.admitted /\ a.released = q.released
  BY <1>1, Zenon DEF Request, Method
<1>3. Answered(q) = IF a.pc = "over" /\ a.res = "closed" THEN Idle ELSE a
  BY DEF Answered, Settled
<1> HIDE DEF a
<1>4. RecordOK(a) /\ (Occ(a) <=> Occ(q))
  BY <1>1, <1>2, RequestFields DEF RecordOK, Occ
<1>5. CASE a.res = "closed"
  <2>1. Answered(q) = Idle /\ q.res = "closed" /\ ~Occ(q)
    BY <1>2, <1>3, <1>5 DEF Occ
  <2> QED  BY <2>1, IdleOK DEF Keeps, Serving, Idle
<1>6. CASE a.res # "closed"
  <2>1. Answered(q) = a
    BY <1>3, <1>6
  <2> QED  BY <1>2, <1>4, <1>6, <2>1 DEF Keeps, Serving
<1> QED  BY <1>5, <1>6

\* What a request looks like once it was admitted and has left its first await.
Taken(q, z) ==
  /\ RecordOK(z) /\ Occ(z)
  /\ z.principal = q.principal

\* Admission of a request that is answered at once.
LEMMA AnsweredTaken ==
  ASSUME NEW q, RecordOK(q), q.pc = "resolving"
  PROVE  /\ Taken(q, [Answered(q) EXCEPT !.admitted = TRUE])
         /\ [Answered(q) EXCEPT !.admitted = TRUE].pc \notin Serving
<1> DEFINE a == Answered(q)
<1>1. /\ RecordOK(a) /\ a.res = "ended" /\ a.pc = "over" /\ a.principal = q.principal
      /\ a.released = q.released
  BY AnsweredKeeps DEF RecordOK, Keeps
<1>2. ~q.released /\ q.principal \in Principal
  BY DEF RecordOK
<1> HIDE DEF a
<1>3. a \in Request
  BY <1>1 DEF RecordOK
<1> DEFINE z == [a EXCEPT !.admitted = TRUE]
<1>4. /\ z \in Request /\ z.admitted = TRUE /\ z.res = a.res /\ z.pc = a.pc
      /\ z.principal = a.principal /\ z.released = a.released
  BY <1>3, Zenon DEF Request
<1> HIDE DEF z
<1>5. Taken(q, z) /\ z.pc \notin Serving
  BY <1>1, <1>2, <1>4 DEF Taken, RecordOK, Occ, Serving
<1> QED  BY <1>5 DEF z, a

\* Admission of a request that goes on in a session, or in none.
LEMMA RoutedTaken ==
  ASSUME NEW q, RecordOK(q), q.pc = "resolving",
         NEW z \in Request, z.admitted = TRUE, z.res = q.res, z.pc \in Serving,
         z.principal = q.principal, z.released = q.released,
         z.pc # "handling" => z.sid \in Sid
  PROVE  Taken(q, z)
BY DEF Taken, RecordOK, Occ, Serving

\* Connecting ends in handling, in the same session.
LEMMA HandlingKeeps ==
  ASSUME NEW q, RecordOK(q), q.pc = "connecting"
  PROVE  Keeps(q, [q EXCEPT !.pc = "handling"])
<1> DEFINE z == [q EXCEPT !.pc = "handling"]
<1>1. q \in Request
  BY DEF RecordOK
<1>2. /\ z \in Request /\ z.pc = "handling" /\ z.sid = q.sid /\ z.res = q.res
      /\ z.principal = q.principal /\ z.admitted = q.admitted /\ z.released = q.released
  BY <1>1 DEF Request
<1> HIDE DEF z
<1>3. Keeps(q, z)
  BY <1>1, <1>2 DEF Keeps, RecordOK, Occ, Serving
<1> QED  BY <1>3 DEF z

\* What an event of the response leaves of a request.
Dropped(q, z) ==
  /\ RecordOK(z) /\ ~Occ(z)
  /\ z.pc \in Serving /\ z.sid # None =>
       q.pc \in Serving /\ z.sid = q.sid /\ z.principal = q.principal

\* The "finish" event.
LEMMA FinishDrops ==
  ASSUME NEW q, RecordOK(q), q.res = "ended"
  PROVE  Dropped(q, Finished(q))
<1>1. q \in Request /\ q.pc # "idle" /\ q.pc # "resolving"
  BY DEF RecordOK
<1> DEFINE z == Finished(q)
<1>2. /\ z \in Request /\ z.pc = q.pc /\ z.sid = q.sid /\ z.res = "finished"
      /\ z.principal = q.principal /\ z.admitted = q.admitted /\ z.released = q.admitted
  BY <1>1, Zenon DEF Request, Finished
<1> HIDE DEF z
<1>3. Dropped(q, z)
  BY <1>1, <1>2 DEF Dropped, RecordOK, Occ
<1> QED  BY <1>3 DEF z

\* The "close" event.
LEMMA CloseDrops ==
  ASSUME NEW q, RecordOK(q), q.pc \in {"handling", "over"}
  PROVE  Dropped(q, Gone(q))
<1>1. q \in Request
  BY DEF RecordOK
<1>2. PICK c \in {"handling", "over"} : c = IF Streaming(q) THEN "over" ELSE q.pc
  OBVIOUS
<1> DEFINE y == [q EXCEPT !.res = "closed", !.released = q.admitted, !.pc = c]
<1>3. Gone(q) = Settled(y)
  BY <1>2 DEF Gone
<1>4. /\ y \in Request /\ y.pc = c /\ y.sid = q.sid /\ y.res = "closed"
      /\ y.principal = q.principal /\ y.admitted = q.admitted /\ y.released = q.admitted
  BY <1>1, Zenon DEF Request
<1> HIDE DEF y
<1>5. Gone(q) = IF c = "over" THEN Idle ELSE y
  BY <1>3, <1>4 DEF Settled
<1>6. CASE c = "over"
  <2>1. Gone(q) = Idle
    BY <1>5, <1>6
  <2> QED  BY <2>1, IdleOK DEF Dropped, Serving
<1>7. CASE c # "over"
  <2>1. Gone(q) = y /\ c = "handling" /\ q.pc = "handling"
    BY <1>2, <1>5, <1>7
  <2> QED  BY <1>4, <2>1 DEF Dropped, RecordOK, Occ, Serving
<1> QED  BY <1>6, <1>7

-----------------------------------------------------------------------------
(* What one step does to the requests and the counters *)

KeepStep ==
  /\ req' \in [Conn -> Request] /\ inflight' = inflight
  /\ \A q \in Conn : Keeps(req[q], req'[q])

TakeStep(r) ==
  /\ req' \in [Conn -> Request]
  /\ req[r].pc = "resolving" /\ inflight[req[r].principal] < MaxConcurrent
  /\ inflight' = [inflight EXCEPT ![req[r].principal] = @ + 1]
  /\ Taken(req[r], req'[r])
  /\ \A q \in Conn \ {r} : Keeps(req[q], req'[q])

DropStep(r) ==
  /\ req' \in [Conn -> Request]
  /\ req[r].pc # "idle" /\ Release(r)
  /\ Dropped(req[r], req'[r])
  /\ \A q \in Conn \ {r} : Keeps(req[q], req'[q])

\* Closing transports changes no slot.
LEMMA CloseStreamsKeep ==
  ASSUME TypeOK, Coherent, NEW S
  PROVE  /\ CloseStreams(S) \in [Conn -> Request]
         /\ \A q \in Conn : Keeps(req[q], CloseStreams(S)[q])
<1>1. ASSUME NEW q \in Conn
      PROVE  Keeps(req[q], CloseStreams(S)[q])
  <2>1. RecordOK(req[q])
    BY DEF Coherent
  <2>2. CloseStreams(S)[q] = IF Streaming(req[q]) /\ req[q].sid \in S THEN Answered(req[q])
                                                                      ELSE req[q]
    BY DEF CloseStreams
  <2>3. CASE Streaming(req[q]) /\ req[q].sid \in S
    <3>1. req[q].pc # "idle"
      BY <2>3 DEF Streaming
    <3> QED  BY <2>1, <2>2, <2>3, <3>1, AnsweredKeeps
  <2>4. CASE ~(Streaming(req[q]) /\ req[q].sid \in S)
    BY <2>1, <2>2, <2>4, SameKeeps
  <2> QED  BY <2>3, <2>4
<1>2. \A q \in Conn : CloseStreams(S)[q] \in Request
  BY <1>1 DEF Keeps, RecordOK
<1>3. CloseStreams(S) \in [Conn -> Request]
  BY <1>2 DEF CloseStreams
<1> QED  BY <1>1, <1>3

\* A step that changes one record and no counter.
LEMMA OneKeeps ==
  ASSUME TypeOK, Coherent, NEW r \in Conn, NEW z, Keeps(req[r], z),
         req' = [req EXCEPT ![r] = z], inflight' = inflight
  PROVE  KeepStep
<1>1. z \in Request
  BY DEF Keeps, RecordOK
<1>2. \A q \in Conn : req'[q] = IF q = r THEN z ELSE req[q]
  BY DEF TypeOK
<1>3. \A q \in Conn : Keeps(req[q], req'[q])
  BY <1>2, SameKeeps DEF Coherent
<1> QED  BY <1>1, <1>3 DEF KeepStep, TypeOK

\* The event of one response.
LEMMA OneDrops ==
  ASSUME TypeOK, Coherent, NEW r \in Conn, NEW z, Dropped(req[r], z),
         req[r].pc # "idle", req' = [req EXCEPT ![r] = z], Release(r)
  PROVE  DropStep(r)
<1>1. z \in Request
  BY DEF Dropped, RecordOK
<1>2. \A q \in Conn : req'[q] = IF q = r THEN z ELSE req[q]
  BY DEF TypeOK
<1>3. \A q \in Conn \ {r} : Keeps(req[q], req'[q])
  BY <1>2, SameKeeps DEF Coherent
<1> QED  BY <1>1, <1>2, <1>3 DEF DropStep, TypeOK

\* The common part of the routes.
LEMMA ProceedTakes ==
  ASSUME TypeOK, Coherent, NEW r \in Conn, NEW y, NEW shut,
         Admitted(r), Proceed(r, y, shut), Taken(req[r], [y EXCEPT !.admitted = TRUE])
  PROVE  TakeStep(r) /\ req'[r] = [y EXCEPT !.admitted = TRUE]
<1> DEFINE z == [y EXCEPT !.admitted = TRUE]
           f == CloseStreams(Swept \cup shut)
<1>1. f \in [Conn -> Request] /\ \A q \in Conn : Keeps(req[q], f[q])
  BY CloseStreamsKeep
<1>2. req' = [f EXCEPT ![r] = z] /\ Taken(req[r], z)
  BY DEF Proceed
<1>3. inflight' = [inflight EXCEPT ![req[r].principal] = @ + 1]
  BY DEF Proceed
<1> HIDE DEF z, f
<1>4. z \in Request
  BY <1>2 DEF Taken, RecordOK
<1>5. req'[r] = z /\ \A q \in Conn \ {r} : req'[q] = f[q]
  BY <1>1, <1>2
<1>6. req' \in [Conn -> Request]
  BY <1>1, <1>2, <1>4
<1>7. TakeStep(r)
  BY <1>1, <1>2, <1>3, <1>5, <1>6 DEF TakeStep, Admitted
<1> QED  BY <1>5, <1>7 DEF z

\* The step leaves an admitted request in a session of its own principal, or in none.
Enters(r) ==
  req'[r].pc \in Serving /\ req'[r].sid # None => creator'[req'[r].sid] = req'[r].principal

\* The table after a step has no new entry, or the one a new session needs room for.
ShrinkTable == \A s \in Sid : sessions'[s] # None => sessions[s] # None

GrowTable(s) ==
  /\ Size(Kept) < MaxSessions
  /\ \A t \in Sid : sessions'[t] # None => Kept[t] # None \/ t = s

\* Bindings of sessions are set once.
BindingsStay ==
  /\ creator' \in [Sid -> Principal \cup {None}]
  /\ \A s \in Sid : creator[s] # None => creator'[s] = creator[s]

TableStep ==
  /\ sessions' \in [Sid -> SessionEntry \cup {None}]
  /\ BindingsStay
  /\ ShrinkTable \/ \E s \in Sid : GrowTable(s)

StepKind ==
  \/ KeepStep
  \/ \E r \in Conn : TakeStep(r) /\ Enters(r)
  \/ \E r \in Conn : DropStep(r)

\* The sweep leaves a table of the same type with no new entry.
LEMMA KeptTable ==
  ASSUME TypeOK
  PROVE  /\ Kept \in [Sid -> SessionEntry \cup {None}]
         /\ \A s \in Sid : Kept[s] # None => sessions[s] # None /\ Kept[s] \in SessionEntry
         /\ \A s \in Sid : Kept[s] = None /\ Live(s) => sessions[s].expired
BY DEF TypeOK, Kept, Stale, Live

\* A table step that keeps the swept table, or changes one entry left in it.
LEMMA SweptTable ==
  ASSUME TypeOK, creator' = creator,
         \/ sessions' = Kept
         \/ \E s \in Sid, b \in BOOLEAN :
              Kept[s] # None /\ sessions' = [Kept EXCEPT ![s].closed = b]
  PROVE  TableStep
<1>1. BindingsStay
  BY DEF BindingsStay, TypeOK
<1>2. CASE sessions' = Kept
  BY <1>1, <1>2, KeptTable DEF TableStep, ShrinkTable
<1>3. ASSUME NEW s \in Sid, NEW b \in BOOLEAN, Kept[s] # None,
             sessions' = [Kept EXCEPT ![s].closed = b]
      PROVE  TableStep
  <2> DEFINE e == [Kept[s] EXCEPT !.closed = b]
  <2>1. e \in SessionEntry
    BY <1>3, KeptTable DEF SessionEntry
  <2>2. sessions' = [Kept EXCEPT ![s] = e]
    BY <1>3
  <2> HIDE DEF e
  <2>3. /\ sessions' \in [Sid -> SessionEntry \cup {None}]
        /\ \A t \in Sid : sessions'[t] = IF t = s THEN e ELSE Kept[t]
    BY <2>1, <2>2, KeptTable
  <2>4. ShrinkTable
    BY <1>3, <2>3, KeptTable DEF ShrinkTable
  <2> QED  BY <1>1, <2>3, <2>4 DEF TableStep
<1> QED  BY <1>2, <1>3

\* The session of a route that needs one.
LEMMA OwnSession ==
  ASSUME NEW r, NEW s, s \in Own(r)
  PROVE  s \in Sid /\ req[r].sid = s /\ Kept[s] # None /\ creator[s] = req[r].principal
BY DEF Own, Named

\* A route into the handling of session s by its own principal.
LEMMA RouteOwn ==
  ASSUME TypeOK, Coherent, NEW r \in Conn, NEW s, s \in Own(r), NEW c \in Serving, NEW shut,
         Admitted(r), Proceed(r, [req[r] EXCEPT !.pc = c], shut), creator' = creator
  PROVE  TakeStep(r) /\ Enters(r)
<1>1. /\ RecordOK(req[r]) /\ req[r] \in Request /\ req[r].pc = "resolving"
      /\ s \in Sid /\ req[r].sid = s /\ creator[s] = req[r].principal
  BY OwnSession DEF Coherent, RecordOK, Admitted
<1>2. PICK q \in Request : q = req[r]
  BY <1>1
<1> DEFINE y == [q EXCEPT !.pc = c]
           z == [y EXCEPT !.admitted = TRUE]
<1>3. /\ z \in Request /\ z.admitted = TRUE /\ z.res = q.res /\ z.pc = c /\ z.sid = q.sid
      /\ z.principal = q.principal /\ z.released = q.released
  BY <1>2, Zenon DEF Request, Serving
<1>4. Proceed(r, y, shut)
  BY <1>2
<1> HIDE DEF y, z
<1>5. Taken(req[r], z) /\ z.pc = c /\ z.sid = s
  BY <1>1, <1>2, <1>3, RoutedTaken, Zenon
<1>6. TakeStep(r) /\ req'[r] = z
  BY <1>4, <1>5, ProceedTakes DEF z
<1>7. z.principal = req[r].principal
  BY <1>5 DEF Taken
<1> QED  BY <1>1, <1>5, <1>6, <1>7 DEF Enters

\* A step that leaves the session table alone.
LEMMA SameTable ==
  ASSUME TypeOK, sessions' = sessions, creator' = creator
  PROVE  TableStep
BY DEF TypeOK, TableStep, BindingsStay, ShrinkTable

\* Arrival of a request.
LEMMA ArriveStep ==
  ASSUME TypeOK, Coherent, NEW r \in Conn, NEW p \in Principal, NEW m \in Method,
         NEW s \in Sid \cup {None}, Arrive(r, p, m, s)
  PROVE  StepKind /\ TableStep
<1> DEFINE z == [pc |-> "resolving", principal |-> p, method |-> m, sid |-> s,
                 res |-> "open", admitted |-> FALSE, released |-> FALSE]
<1>1. z \in Request
  BY DEF Request
<1>2. RecordOK(z) /\ ~Occ(z) /\ z.pc \notin Serving
  BY <1>1 DEF RecordOK, Occ, Serving
<1>3. /\ req[r] = Idle /\ req' = [req EXCEPT ![r] = z] /\ inflight' = inflight
      /\ sessions' = sessions /\ creator' = creator
  BY DEF Arrive
<1> HIDE DEF z
<1>4. Keeps(req[r], z)
  BY <1>2, <1>3, IdleOK DEF Keeps
<1> QED  BY <1>3, <1>4, OneKeeps, SameTable, Zenon DEF StepKind

\* A handler that is over and changes no session.
LEMMA AnswerStep ==
  ASSUME TypeOK, Coherent, NEW r \in Conn, Refuse(r) \/ Fail(r) \/ Respond(r)
  PROVE  StepKind /\ TableStep
<1>1. /\ req[r].pc # "idle" /\ req' = [req EXCEPT ![r] = Answered(req[r])]
      /\ inflight' = inflight /\ sessions' = sessions /\ creator' = creator
  BY DEF Refuse, Fail, Respond
<1>2. Keeps(req[r], Answered(req[r]))
  BY <1>1, AnsweredKeeps DEF Coherent
<1> QED  BY <1>1, <1>2, OneKeeps, SameTable, Zenon DEF StepKind

\* A DELETE that ends by removing the entry.
LEMMA DeleteStep ==
  ASSUME TypeOK, Coherent, NEW r \in Conn, DeleteSession(r)
  PROVE  StepKind /\ TableStep
<1>1. /\ req[r].pc = "deleting" /\ req' = [req EXCEPT ![r] = Answered(req[r])]
      /\ inflight' = inflight /\ sessions' = [sessions EXCEPT ![req[r].sid] = None]
      /\ creator' = creator
  BY DEF DeleteSession
<1>2. Keeps(req[r], Answered(req[r]))
  BY <1>1, AnsweredKeeps DEF Coherent
<1>3. StepKind
  BY <1>1, <1>2, OneKeeps, Zenon DEF StepKind
<1>4. TableStep
  BY <1>1, Zenon DEF TypeOK, TableStep, BindingsStay, ShrinkTable
<1> QED  BY <1>3, <1>4

\* A connected transport takes the request over.
LEMMA ConnectedStep ==
  ASSUME TypeOK, Coherent, NEW r \in Conn, Connected(r)
  PROVE  StepKind /\ TableStep
<1>1. PICK q : q = req[r]
  OBVIOUS
<1>2. /\ q.pc = "connecting" /\ req' = [req EXCEPT ![r] = [q EXCEPT !.pc = "handling"]]
      /\ inflight' = inflight /\ sessions' = sessions /\ creator' = creator
  BY <1>1 DEF Connected
<1>3. Keeps(q, [q EXCEPT !.pc = "handling"])
  BY <1>1, <1>2, HandlingKeeps DEF Coherent
<1> DEFINE z == [q EXCEPT !.pc = "handling"]
<1>4. Keeps(req[r], z) /\ req' = [req EXCEPT ![r] = z]
  BY <1>1, <1>2, <1>3
<1> HIDE DEF z
<1> QED  BY <1>2, <1>4, OneKeeps, SameTable, Zenon DEF StepKind

\* The two events of a response.
LEMMA EventStep ==
  ASSUME TypeOK, Coherent, NEW r \in Conn, Finish(r) \/ Close(r)
  PROVE  StepKind /\ TableStep
<1>1. RecordOK(req[r]) /\ sessions' = sessions /\ creator' = creator /\ Release(r)
  BY DEF Coherent, Finish, Close
<1>2. CASE Finish(r)
  <2>1. req[r].res = "ended" /\ req' = [req EXCEPT ![r] = Finished(req[r])]
    BY <1>2 DEF Finish
  <2>2. Dropped(req[r], Finished(req[r])) /\ req[r].pc # "idle"
    BY <1>1, <2>1, FinishDrops DEF RecordOK
  <2> QED  BY <1>1, <2>1, <2>2, OneDrops, SameTable, Zenon DEF StepKind
<1>3. CASE Close(r)
  <2>1. req[r].pc \in {"handling", "over"} /\ req' = [req EXCEPT ![r] = Gone(req[r])]
    BY <1>3 DEF Close
  <2>2. Dropped(req[r], Gone(req[r])) /\ req[r].pc # "idle"
    BY <1>1, <2>1, CloseDrops
  <2> QED  BY <1>1, <2>1, <2>2, OneDrops, SameTable, Zenon DEF StepKind
<1> QED  BY <1>2, <1>3

\* An admitted request that is answered at once.
LEMMA ReplyStep ==
  ASSUME TypeOK, Coherent, NEW r \in Conn, Reply(r)
  PROVE  StepKind /\ TableStep
<1>1. /\ Admitted(r) /\ Proceed(r, Answered(req[r]), {})
      /\ sessions' = Kept /\ creator' = creator
  BY DEF Reply
<1>2. RecordOK(req[r]) /\ req[r].pc = "resolving"
  BY <1>1 DEF Coherent, Admitted
<1>3. /\ Taken(req[r], [Answered(req[r]) EXCEPT !.admitted = TRUE])
      /\ [Answered(req[r]) EXCEPT !.admitted = TRUE].pc \notin Serving
  BY <1>2, AnsweredTaken
<1>4. TakeStep(r) /\ req'[r] = [Answered(req[r]) EXCEPT !.admitted = TRUE]
  BY <1>1, <1>3, ProceedTakes
<1>5. Enters(r)
  BY <1>3, <1>4 DEF Enters
<1> QED  BY <1>1, <1>4, <1>5, SweptTable DEF StepKind

\* A modern request.
LEMMA ModernStep ==
  ASSUME TypeOK, Coherent, NEW r \in Conn, ModernPost(r)
  PROVE  StepKind /\ TableStep
<1>1. PICK q : q = req[r]
  OBVIOUS
<1> DEFINE y == [q EXCEPT !.pc = "handling", !.sid = None]
           z == [y EXCEPT !.admitted = TRUE]
<1>2. /\ Admitted(r) /\ Proceed(r, y, {}) /\ sessions' = Kept /\ creator' = creator
  BY <1>1 DEF ModernPost
<1>3. RecordOK(q) /\ q.pc = "resolving" /\ q \in Request
  BY <1>1, <1>2 DEF Coherent, Admitted, RecordOK
<1>4. /\ z \in Request /\ z.admitted = TRUE /\ z.res = q.res /\ z.pc = "handling" /\ z.sid = None
      /\ z.principal = q.principal /\ z.released = q.released
  BY <1>3, Zenon DEF Request
<1> HIDE DEF y, z
<1>5. Taken(req[r], z)
  BY <1>1, <1>3, <1>4, RoutedTaken, Zenon DEF Serving
<1>6. TakeStep(r) /\ req'[r] = z
  BY <1>2, <1>5, ProceedTakes DEF z
<1>7. Enters(r)
  BY <1>4, <1>6 DEF Enters
<1> QED  BY <1>2, <1>6, <1>7, SweptTable DEF StepKind

\* The routes into a session that exists.
LEMMA SessionStep ==
  ASSUME TypeOK, Coherent, NEW r \in Conn, NEW s \in Sid,
         CloseSession(r, s) \/ OpenStream(r, s) \/ PostToSession(r, s) \/ Reconnect(r, s)
  PROVE  StepKind /\ TableStep
<1>1. s \in Own(r) /\ Kept[s] # None /\ Admitted(r) /\ creator' = creator
  BY OwnSession DEF CloseSession, OpenStream, PostToSession, Reconnect
<1>2. \E c \in Serving, shut \in {{}, {s}} : Proceed(r, [req[r] EXCEPT !.pc = c], shut)
  BY DEF CloseSession, OpenStream, PostToSession, Reconnect, Serving
<1>3. TakeStep(r) /\ Enters(r)
  BY <1>1, <1>2, RouteOwn
<1>4. \/ sessions' = Kept
      \/ sessions' = [Kept EXCEPT ![s].closed = TRUE]
      \/ sessions' = [Kept EXCEPT ![s].closed = FALSE]
  BY DEF CloseSession, OpenStream, PostToSession, Reconnect
<1>5. TableStep
  BY <1>1, <1>4, SweptTable, Zenon
<1> QED  BY <1>3, <1>5 DEF StepKind

\* A new session.
LEMMA NewSessionStep ==
  ASSUME TypeOK, Coherent, NEW r \in Conn, NEW s \in Sid, NewSession(r, s)
  PROVE  StepKind /\ TableStep
<1>1. PICK q : q = req[r]
  OBVIOUS
<1> DEFINE y == [q EXCEPT !.pc = "connecting", !.sid = s]
           z == [y EXCEPT !.admitted = TRUE]
           e == [closed |-> FALSE, expired |-> FALSE]
<1>2. /\ Admitted(r) /\ Proceed(r, y, {}) /\ sessions' = [Kept EXCEPT ![s] = e]
      /\ creator[s] = None /\ Size(Kept) < MaxSessions
      /\ creator' = [creator EXCEPT ![s] = q.principal]
  BY <1>1 DEF NewSession
<1>3. RecordOK(q) /\ q.pc = "resolving" /\ q \in Request /\ q.principal \in Principal
  BY <1>1, <1>2 DEF Coherent, Admitted, RecordOK
<1>4. /\ z \in Request /\ z.admitted = TRUE /\ z.res = q.res /\ z.pc = "connecting" /\ z.sid = s
      /\ z.principal = q.principal /\ z.released = q.released
  BY <1>3, Zenon DEF Request
<1>5. e \in SessionEntry
  BY DEF SessionEntry
<1> HIDE DEF y, z, e
<1>6. Taken(req[r], z)
  BY <1>1, <1>3, <1>4, RoutedTaken, Zenon DEF Serving
<1>7. TakeStep(r) /\ req'[r] = z
  BY <1>2, <1>6, ProceedTakes DEF z
<1>8. BindingsStay /\ creator'[s] = q.principal
  BY <1>2, <1>3 DEF BindingsStay, TypeOK
<1>9. Enters(r)
  BY <1>4, <1>7, <1>8 DEF Enters
<1>10. /\ sessions' \in [Sid -> SessionEntry \cup {None}]
       /\ \A t \in Sid : sessions'[t] = IF t = s THEN e ELSE Kept[t]
  BY <1>2, <1>5, KeptTable
<1>11. GrowTable(s)
  BY <1>2, <1>10 DEF GrowTable
<1> QED  BY <1>7, <1>8, <1>9, <1>10, <1>11 DEF StepKind, TableStep

\* The sweep, a transport that closes, and the clock.
LEMMA TimerStep ==
  ASSUME TypeOK, Coherent,
         CleanupStaleSessions \/ \E s \in Sid : TransportClosed(s) \/ Expire(s)
  PROVE  StepKind /\ TableStep
<1>1. CASE CleanupStaleSessions
  <2>1. req' = CloseStreams(Swept) /\ inflight' = inflight /\ sessions' = Kept /\ creator' = creator
    BY <1>1 DEF CleanupStaleSessions
  <2>2. KeepStep
    BY <2>1, CloseStreamsKeep DEF KeepStep
  <2> QED  BY <2>1, <2>2, SweptTable DEF StepKind
<1>2. ASSUME NEW s \in Sid, TransportClosed(s) \/ Expire(s)
      PROVE  StepKind /\ TableStep
  <2>1. /\ sessions[s] # None /\ inflight' = inflight /\ creator' = creator
        /\ req' = CloseStreams({s}) \/ req' = req
    BY <1>2 DEF TransportClosed, Expire, Live
  <2>2. KeepStep
    <3>1. CASE req' = CloseStreams({s})
      BY <2>1, <3>1, CloseStreamsKeep DEF KeepStep
    <3>2. CASE req' = req
      BY <2>1, <3>2, SameKeeps DEF KeepStep, TypeOK, Coherent
    <3> QED  BY <2>1, <3>1, <3>2
  <2>3. PICK e \in SessionEntry : sessions' = [sessions EXCEPT ![s] = e]
    <3>1. sessions[s] \in SessionEntry
      BY <2>1 DEF TypeOK
    <3>2. /\ [sessions[s] EXCEPT !.closed = TRUE] \in SessionEntry
          /\ [sessions[s] EXCEPT !.expired = TRUE] \in SessionEntry
      BY <3>1, Zenon DEF SessionEntry
    <3>3. \/ sessions' = [sessions EXCEPT ![s] = [sessions[s] EXCEPT !.closed = TRUE]]
          \/ sessions' = [sessions EXCEPT ![s] = [sessions[s] EXCEPT !.expired = TRUE]]
      BY <1>2 DEF TransportClosed, Expire
    <3> QED  BY <3>2, <3>3, Zenon
  <2>4. TableStep
    BY <2>1, <2>3 DEF TableStep, BindingsStay, ShrinkTable, TypeOK
  <2> QED  BY <2>2, <2>4 DEF StepKind
<1> QED  BY <1>1, <1>2

\* Every step is of one of the three kinds and treats the table as TableStep says.
LEMMA StepKinds ==
  ASSUME TypeOK, Coherent, [Next]_vars
  PROVE  StepKind /\ TableStep
<1>1. ASSUME req' = req, inflight' = inflight, sessions' = sessions, creator' = creator
      PROVE  StepKind /\ TableStep
  BY <1>1, SameKeeps, SameTable DEF StepKind, KeepStep, TypeOK, Coherent
<1>2. CASE Shutdown \/ Drained \/ ForceExit \/ UNCHANGED vars
  BY <1>1, <1>2 DEF Shutdown, Drained, ForceExit, Exit, vars
<1>3. ASSUME NEW r \in Conn, Handle(r)
      PROVE  StepKind /\ TableStep
  BY <1>3, ArriveStep, AnswerStep, ReplyStep, ModernStep, SessionStep, NewSessionStep,
     ConnectedStep, DeleteStep, EventStep DEF Handle
<1> QED  BY <1>2, <1>3, TimerStep DEF Next

-----------------------------------------------------------------------------
(* Counting *)

\* The requests of a principal that occupy a slot.
Users(p) == {r \in Conn : Occupies(r) /\ req[r].principal = p}

\* They can be counted.
LEMMA UsersFinite ==
  ASSUME NEW p
  PROVE  /\ IsFiniteSet(Users(p)) /\ Cardinality(Users(p)) \in Nat
         /\ IsFiniteSet(Users(p)') /\ Cardinality(Users(p)') \in Nat
<1>1. Users(p) \subseteq Conn /\ Users(p)' \subseteq Conn
  BY DEF Users
<1> QED  BY <1>1, FinitenessAssumption, FS_Subset, FS_CardinalityType

\* The record of a request that keeps its slot stays with its principal.
LEMMA KeepsUsers ==
  ASSUME NEW p, NEW q \in Conn, Keeps(req[q], req'[q])
  PROVE  q \in Users(p)' <=> q \in Users(p)
BY DEF Keeps, Users, Occupies, Occ

\* Every step keeps the counters exact and within the limit.
LEMMA InflightStep ==
  ASSUME TypeOK, Coherent, InflightExact, StepKind
  PROVE  InflightExact' /\ inflight' \in [Principal -> Nat]
<1>1. /\ inflight \in [Principal -> Nat]
      /\ \A p \in Principal : inflight[p] = Cardinality(Users(p)) /\ inflight[p] <= MaxConcurrent
  BY Zenon DEF TypeOK, InflightExact, Users
<1>2. SUFFICES /\ inflight' \in [Principal -> Nat]
               /\ \A p \in Principal : /\ inflight'[p] = Cardinality(Users(p)')
                                       /\ inflight'[p] <= MaxConcurrent
  BY DEF InflightExact, Users
<1>3. CASE KeepStep
  <2>1. \A p \in Principal : Users(p)' = Users(p)
    <3> SUFFICES ASSUME NEW p \in Principal PROVE Users(p)' = Users(p)
      OBVIOUS
    <3>1. \A q \in Conn : q \in Users(p)' <=> q \in Users(p)
      BY <1>3, KeepsUsers DEF KeepStep
    <3>2. Users(p) \subseteq Conn /\ Users(p)' \subseteq Conn
      BY DEF Users
    <3> QED  BY <3>1, <3>2
  <2> QED  BY <1>1, <1>3, <2>1 DEF KeepStep
<1>4. ASSUME NEW r \in Conn, TakeStep(r)
      PROVE  /\ inflight' \in [Principal -> Nat]
             /\ \A p \in Principal : /\ inflight'[p] = Cardinality(Users(p)')
                                     /\ inflight'[p] <= MaxConcurrent
  <2>1. PICK x \in Principal : x = req[r].principal
    BY <1>4 DEF TakeStep, Coherent, RecordOK
  <2>2. /\ inflight' = [inflight EXCEPT ![x] = @ + 1] /\ inflight[x] < MaxConcurrent
        /\ Occupies(r)' /\ req'[r].principal = x /\ ~Occupies(r)
    BY <1>4, <2>1 DEF TakeStep, Taken, Occupies, Occ, Coherent, RecordOK
  <2>3. ASSUME NEW p \in Principal
        PROVE  Users(p)' = IF p = x THEN Users(p) \cup {r} ELSE Users(p)
    <3>1. \A q \in Conn \ {r} : q \in Users(p)' <=> q \in Users(p)
      BY <1>4, KeepsUsers DEF TakeStep
    <3>2. r \notin Users(p) /\ (r \in Users(p)' <=> p = x)
      BY <2>2 DEF Users
    <3>3. Users(p) \subseteq Conn /\ Users(p)' \subseteq Conn
      BY DEF Users
    <3> QED  BY <3>1, <3>2, <3>3
  <2>4. Cardinality(Users(x) \cup {r}) = Cardinality(Users(x)) + 1
    <3>1. r \notin Users(x)
      BY <2>2 DEF Users
    <3> QED  BY <3>1, UsersFinite, FS_AddElement, Zenon
  <2>5. MaxConcurrent \in Nat
    BY LimitsAssumption
  <2>6. inflight' \in [Principal -> Nat]
    BY <1>1, <2>2
  <2>7. ASSUME NEW p \in Principal
        PROVE  inflight'[p] = Cardinality(Users(p)') /\ inflight'[p] <= MaxConcurrent
    BY <1>1, <2>2, <2>3, <2>4, <2>5
  <2> QED  BY <2>6, <2>7
<1>5. ASSUME NEW r \in Conn, DropStep(r)
      PROVE  /\ inflight' \in [Principal -> Nat]
             /\ \A p \in Principal : /\ inflight'[p] = Cardinality(Users(p)')
                                     /\ inflight'[p] <= MaxConcurrent
  <2>1. PICK x \in Principal : x = req[r].principal
    BY <1>5 DEF DropStep, Coherent, RecordOK
  <2>2. Holds(r) <=> Occupies(r)
    BY RequestFields DEF Holds, Occupies, Coherent, RecordOK
  <2>3. inflight' = [inflight EXCEPT ![x] = IF Occupies(r) THEN (IF @ <= 1 THEN 0 ELSE @ - 1) ELSE @]
    BY <1>5, <2>1, <2>2, Zenon DEF DropStep, Release
  <2>4. ASSUME NEW p \in Principal
        PROVE  Users(p)' = Users(p) \ {r}
    <3>1. \A q \in Conn \ {r} : q \in Users(p)' <=> q \in Users(p)
      BY <1>5, KeepsUsers DEF DropStep
    <3>2. r \notin Users(p)'
      BY <1>5 DEF DropStep, Dropped, Users, Occupies, Occ
    <3>3. Users(p) \subseteq Conn /\ Users(p)' \subseteq Conn
      BY DEF Users
    <3> QED  BY <3>1, <3>2, <3>3
  <2>5. ASSUME NEW p \in Principal
        PROVE  /\ Cardinality(Users(p) \ {r}) =
                    IF Occupies(r) /\ p = x THEN Cardinality(Users(p)) - 1
                                            ELSE Cardinality(Users(p))
               /\ Cardinality(Users(p) \ {r}) \in Nat
    <3>1. r \in Users(p) <=> Occupies(r) /\ p = x
      BY <2>1 DEF Users
    <3>2. Cardinality(Users(p) \ {r}) =
            IF r \in Users(p) THEN Cardinality(Users(p)) - 1 ELSE Cardinality(Users(p))
      BY UsersFinite, FS_RemoveElement, Zenon
    <3>3. Cardinality(Users(p) \ {r}) \in Nat
      BY UsersFinite, FS_RemoveElement, FS_CardinalityType, Zenon
    <3> QED  BY <3>1, <3>2, <3>3
  <2>6. MaxConcurrent \in Nat
    BY LimitsAssumption
  <2>7. inflight' \in [Principal -> Nat]
    BY <1>1, <2>3
  <2>8. ASSUME NEW p \in Principal
        PROVE  inflight'[p] = Cardinality(Users(p)') /\ inflight'[p] <= MaxConcurrent
    BY <1>1, <2>3, <2>4, <2>5, <2>6
  <2> QED  BY <2>7, <2>8
<1> QED  BY <1>3, <1>4, <1>5 DEF StepKind

\* A table with no new entry, or with one more where there was room, is within its limit.
LEMMA SizeStep ==
  ASSUME TypeOK, SessionsBounded, TableStep
  PROVE  SessionsBounded'
<1> DEFINE L(f) == {s \in Sid : f[s] # None}
<1>1. \A f : IsFiniteSet(L(f)) /\ Cardinality(L(f)) \in Nat
  <2> SUFFICES ASSUME NEW f PROVE IsFiniteSet(L(f)) /\ Cardinality(L(f)) \in Nat
    OBVIOUS
  <2>1. L(f) \subseteq Sid
    OBVIOUS
  <2> QED  BY <2>1, FinitenessAssumption, FS_Subset, FS_CardinalityType
<1>2. /\ Cardinality(L(sessions)) <= MaxSessions /\ MaxSessions \in Nat
      /\ Size(Kept) = Cardinality(L(Kept)) /\ Size(sessions)' = Cardinality(L(sessions'))
  BY LimitsAssumption DEF SessionsBounded, Size
<1>3. CASE ShrinkTable
  <2>1. L(sessions') \subseteq L(sessions)
    BY <1>3 DEF ShrinkTable
  <2>2. Cardinality(L(sessions')) <= Cardinality(L(sessions))
    BY <1>1, <2>1, FS_Subset
  <2>3. Cardinality(L(sessions)) \in Nat /\ Cardinality(L(sessions')) \in Nat
    BY <1>1
  <2> HIDE DEF L
  <2> QED  BY <1>2, <2>2, <2>3 DEF SessionsBounded
<1>4. ASSUME NEW s \in Sid, GrowTable(s)
      PROVE  SessionsBounded'
  <2>1. L(sessions') \subseteq L(Kept) \cup {s} /\ Size(Kept) < MaxSessions
    BY <1>4 DEF GrowTable
  <2>2. /\ IsFiniteSet(L(Kept) \cup {s})
        /\ Cardinality(L(Kept) \cup {s}) = IF s \in L(Kept) THEN Cardinality(L(Kept))
                                                           ELSE Cardinality(L(Kept)) + 1
    BY <1>1, FS_AddElement
  <2>3. Cardinality(L(sessions')) <= Cardinality(L(Kept) \cup {s})
    BY <2>1, <2>2, FS_Subset
  <2>4. Cardinality(L(Kept)) \in Nat /\ Cardinality(L(sessions')) \in Nat
    BY <1>1
  <2> HIDE DEF L
  <2> QED  BY <1>2, <2>1, <2>2, <2>3, <2>4 DEF SessionsBounded
<1> QED  BY <1>3, <1>4 DEF TableStep

\* Records stay coherent and sessions keep serving their creators.
LEMMA ServeStep ==
  ASSUME TypeOK, Coherent, SessionServesCreator, StepKind, TableStep
  PROVE  Coherent' /\ SessionServesCreator'
<1>1. ASSUME NEW q \in Conn, Keeps(req[q], req'[q]) \/ Dropped(req[q], req'[q])
      PROVE  RecordOK(req'[q]) /\ Enters(q)
  <2>1. RecordOK(req'[q])
    BY <1>1 DEF Keeps, Dropped
  <2>2. SUFFICES ASSUME req'[q].pc \in Serving, req'[q].sid # None
                 PROVE  creator'[req'[q].sid] = req'[q].principal
    BY <2>1 DEF Enters
  <2>3. req[q].pc \in Serving /\ req'[q].sid = req[q].sid /\ req'[q].principal = req[q].principal
    BY <1>1, <2>2 DEF Keeps, Dropped
  <2>4. req[q].sid \in Sid /\ req[q].principal \in Principal
    BY <2>2, <2>3, RequestFields DEF Coherent, RecordOK, Serving
  <2>5. creator[req[q].sid] = req[q].principal
    BY <2>2, <2>3 DEF SessionServesCreator, Serving
  <2>6. creator[req[q].sid] # None
    BY <2>4, <2>5, NoneAssumption
  <2> QED  BY <2>3, <2>4, <2>5, <2>6 DEF TableStep, BindingsStay
<1>2. \A q \in Conn : RecordOK(req'[q]) /\ Enters(q)
  BY <1>1 DEF StepKind, KeepStep, TakeStep, DropStep, Taken
<1> QED  BY <1>2 DEF Coherent, SessionServesCreator, Enters, Serving, RecordOK

-----------------------------------------------------------------------------
(* The process *)

\* The database is closed only in a process that has exited with nothing open.
DrainedFirst == closedDb => server = "exited" /\ \A r \in Conn : req[r].res = "closed"

\* Every step of a live process leaves the database open or follows a drain.
LEMMA ProcessStep ==
  ASSUME TypeOK, DrainedFirst, [Next]_vars
  PROVE  /\ server' \in {"up", "draining", "exited"} /\ closedDb' \in BOOLEAN
         /\ DrainedFirst'
<1>1. CASE Shutdown \/ Drained \/ ForceExit
  <2>1. CASE Exit(FALSE)
    BY <2>1, Zenon DEF Exit, DrainedFirst
  <2>2. CASE Drained
    BY <2>2 DEF Drained, Exit, DrainedFirst
  <2>3. CASE server = "up" /\ server' = "draining" /\ closedDb' = closedDb
    <3>1. ~closedDb
      BY <2>3 DEF DrainedFirst
    <3> QED  BY <2>3, <3>1 DEF TypeOK, DrainedFirst
  <2> QED  BY <1>1, <2>1, <2>2, <2>3, Zenon DEF Shutdown, ForceExit
<1>2. CASE UNCHANGED vars
  BY <1>2 DEF TypeOK, DrainedFirst, vars
<1>3. ASSUME server # "exited", UNCHANGED <<server, closedDb>>
      PROVE  server' \in {"up", "draining", "exited"} /\ closedDb' \in BOOLEAN /\ DrainedFirst'
  BY <1>3 DEF TypeOK, DrainedFirst
<1>4. ASSUME NEW r \in Conn, Handle(r)
      PROVE  server # "exited" /\ UNCHANGED <<server, closedDb>>
  <2>1. ASSUME Admitted(r), NEW y, NEW S, Proceed(r, y, S)
        PROVE  server # "exited" /\ UNCHANGED <<server, closedDb>>
    BY <2>1 DEF Admitted, Proceed
  <2>2. ASSUME Reply(r) \/ ModernPost(r)
        PROVE  server # "exited" /\ UNCHANGED <<server, closedDb>>
    BY <2>1, <2>2 DEF Reply, ModernPost
  <2>3. ASSUME NEW s \in Sid, \/ CloseSession(r, s) \/ OpenStream(r, s) \/ PostToSession(r, s)
                              \/ Reconnect(r, s) \/ NewSession(r, s)
        PROVE  server # "exited" /\ UNCHANGED <<server, closedDb>>
    BY <2>1, <2>3 DEF CloseSession, OpenStream, PostToSession, Reconnect, NewSession
  <2>4. ASSUME NEW p \in Principal, NEW m \in Method, NEW s \in Sid \cup {None}, Arrive(r, p, m, s)
        PROVE  server # "exited" /\ UNCHANGED <<server, closedDb>>
    BY <2>4 DEF Arrive
  <2>5. ASSUME \/ Refuse(r) \/ Connected(r) \/ Fail(r) \/ DeleteSession(r) \/ Respond(r)
               \/ Finish(r) \/ Close(r)
        PROVE  server # "exited" /\ UNCHANGED <<server, closedDb>>
    BY <2>5 DEF Refuse, Connected, Fail, DeleteSession, Respond, Finish, Close
  <2> QED  BY <1>4, <2>2, <2>3, <2>4, <2>5 DEF Handle
<1>5. CASE CleanupStaleSessions \/ \E s \in Sid : TransportClosed(s) \/ Expire(s)
  BY <1>3, <1>5, Zenon DEF CleanupStaleSessions, TransportClosed, Expire
<1> QED  BY <1>1, <1>2, <1>3, <1>4, <1>5 DEF Next

-----------------------------------------------------------------------------
(* The invariant and the theorems *)

IInv ==
  /\ TypeOK
  /\ Coherent
  /\ InflightExact
  /\ SessionServesCreator
  /\ SessionsBounded
  /\ DrainedFirst

\* The server starts with no requests, no sessions and counters at zero.
LEMMA InitIInv == Init => IInv
<1> SUFFICES ASSUME Init PROVE IInv
  OBVIOUS
<1>1. \A r \in Conn : req[r] = Idle
  BY DEF Init
<1>2. TypeOK /\ Coherent
  BY IdleOK, Zenon DEF Init, TypeOK, Coherent, RecordOK
<1>3. InflightExact
  <2>1. \A p \in Principal : {r \in Conn : Occupies(r) /\ req[r].principal = p} = {}
    BY <1>1 DEF Occupies, Idle
  <2>2. \A p \in Principal : inflight[p] = 0
    BY DEF Init
  <2> QED  BY <2>1, <2>2, FS_EmptySet, LimitsAssumption DEF InflightExact
<1>4. SessionServesCreator
  BY <1>1 DEF SessionServesCreator, Idle
<1>5. SessionsBounded
  <2>1. {s \in Sid : sessions[s] # None} = {}
    BY DEF Init
  <2> QED  BY <2>1, FS_EmptySet, LimitsAssumption DEF SessionsBounded, Size
<1>6. DrainedFirst
  BY DEF Init, DrainedFirst
<1> QED  BY <1>2, <1>3, <1>4, <1>5, <1>6 DEF IInv

\* Every step keeps the invariant.
LEMMA NextIInv == IInv /\ [Next]_vars => IInv'
<1> SUFFICES ASSUME IInv, [Next]_vars PROVE IInv'
  OBVIOUS
<1>1. StepKind /\ TableStep
  BY StepKinds DEF IInv
<1>2. InflightExact' /\ inflight' \in [Principal -> Nat]
  BY <1>1, InflightStep DEF IInv
<1>3. Coherent' /\ SessionServesCreator'
  BY <1>1, ServeStep DEF IInv
<1>4. SessionsBounded'
  BY <1>1, SizeStep DEF IInv
<1>5. DrainedFirst' /\ server' \in {"up", "draining", "exited"} /\ closedDb' \in BOOLEAN
  BY ProcessStep DEF IInv
<1>6. req' \in [Conn -> Request]
  BY <1>1 DEF StepKind, KeepStep, TakeStep, DropStep
<1>7. TypeOK'
  BY <1>1, <1>2, <1>5, <1>6 DEF TypeOK, TableStep, BindingsStay
<1> QED  BY <1>2, <1>3, <1>4, <1>5, <1>7 DEF IInv

\* The invariant holds in every behaviour.
LEMMA Invariance == Spec => []IInv
BY InitIInv, NextIInv, PTL DEF Spec

\* Requests, counters, sessions and the process keep their types.
THEOREM TypeCorrect == Spec => []TypeOK
<1>1. IInv => TypeOK
  BY DEF IInv
<1> QED  BY <1>1, Invariance, PTL

\* The in-flight counter of every principal is the number of its open requests and
\* stays within the limit (expensiveInflight), for any number of requests.
THEOREM InflightExactTheorem == Spec => []InflightExact
<1>1. IInv => InflightExact
  BY DEF IInv
<1> QED  BY <1>1, Invariance, PTL

\* A session only ever serves the principal it was created for.
THEOREM SessionServesCreatorTheorem == Spec => []SessionServesCreator
<1>1. IInv => SessionServesCreator
  BY DEF IInv
<1> QED  BY <1>1, Invariance, PTL

\* The session table stays within MAX_MCP_SESSIONS.
THEOREM SessionsBoundedTheorem == Spec => []SessionsBounded
<1>1. IInv => SessionsBounded
  BY DEF IInv
<1> QED  BY <1>1, Invariance, PTL

\* The shutdown controller closes the database only after a drain.
THEOREM DatabaseClosedAfterDrainTheorem == Spec => []DatabaseClosedAfterDrain
<1>1. IInv => DatabaseClosedAfterDrain
  BY DEF IInv, DrainedFirst, DatabaseClosedAfterDrain
<1> QED  BY <1>1, Invariance, PTL

\* The reasons for which an entry may leave the table.
Cause(s) ==
  \/ sessions[s].expired
  \/ \E r \in Conn : req[r].pc = "deleting" /\ req[r].sid = s /\ req[r].principal = creator[s]

\* Only the sweep and a DELETE remove entries.
LEMMA RemovalStep ==
  ASSUME IInv, Next, NEW s \in Sid, Live(s), sessions'[s] = None
  PROVE  Cause(s)
<1>1. TypeOK /\ sessions[s] # None
  BY DEF IInv, Live
<1>2. CASE Kept[s] = None
  BY <1>1, <1>2, KeptTable DEF Cause, Live
<1>3. CASE Kept[s] # None
  <2>1. Kept[s] = sessions[s] /\ Kept[s] \in SessionEntry
    BY <1>1, <1>3, KeptTable DEF Kept
  <2>2. sessions' # sessions /\ sessions' # Kept
    BY <1>1, <1>3
  <2>3. ASSUME NEW t \in Sid, NEW e, sessions' = [Kept EXCEPT ![t] = e]
                                    \/ sessions' = [sessions EXCEPT ![t] = e]
        PROVE  t = s /\ e = None
    BY <1>1, <1>3, <2>3, KeptTable DEF TypeOK
  <2>4. \A t \in Sid, f \in [Sid -> SessionEntry \cup {None}] : f[t] # None =>
            /\ [f[t] EXCEPT !.closed = TRUE] \in SessionEntry
            /\ [f[t] EXCEPT !.closed = FALSE] \in SessionEntry
            /\ [f[t] EXCEPT !.expired = TRUE] \in SessionEntry
    BY Zenon DEF SessionEntry
  <2>5. /\ sessions \in [Sid -> SessionEntry \cup {None}]
        /\ Kept \in [Sid -> SessionEntry \cup {None}] /\ None \notin SessionEntry
    BY <1>1, KeptTable, NoneAssumption DEF TypeOK
  <2>6. ASSUME NEW t \in Sid, NEW e \in SessionEntry, sessions' = [Kept EXCEPT ![t] = e]
                                    \/ sessions' = [sessions EXCEPT ![t] = e]
        PROVE  FALSE
    BY <2>3, <2>5, <2>6
  <2>7. ASSUME NEW r \in Conn, NEW t \in Sid,
               CloseSession(r, t) \/ OpenStream(r, t) \/ PostToSession(r, t) \/ Reconnect(r, t)
        PROVE  FALSE
    <3>1. t \in Own(r)
      BY <2>7 DEF CloseSession, OpenStream, PostToSession, Reconnect
    <3>2. Kept[t] # None
      BY <3>1, OwnSession
    <3>3. \/ sessions' = Kept
          \/ sessions' = [Kept EXCEPT ![t] = [Kept[t] EXCEPT !.closed = TRUE]]
          \/ sessions' = [Kept EXCEPT ![t] = [Kept[t] EXCEPT !.closed = FALSE]]
      BY <2>7 DEF CloseSession, OpenStream, PostToSession, Reconnect
    <3>4. /\ [Kept[t] EXCEPT !.closed = TRUE] \in SessionEntry
          /\ [Kept[t] EXCEPT !.closed = FALSE] \in SessionEntry
      BY <2>4, <2>5, <3>2, Zenon
    <3> QED  BY <2>2, <2>6, <3>3, <3>4, Zenon
  <2>8. ASSUME NEW r \in Conn, NEW t \in Sid, NewSession(r, t)
        PROVE  FALSE
    <3>1. [closed |-> FALSE, expired |-> FALSE] \in SessionEntry
      BY DEF SessionEntry
    <3> QED  BY <2>6, <2>8, <3>1, Zenon DEF NewSession
  <2>9. ASSUME NEW t \in Sid, TransportClosed(t) \/ Expire(t)
        PROVE  FALSE
    <3>1. sessions[t] # None
      BY <2>9 DEF TransportClosed, Expire, Live
    <3>2. \/ sessions' = [sessions EXCEPT ![t] = [sessions[t] EXCEPT !.closed = TRUE]]
          \/ sessions' = [sessions EXCEPT ![t] = [sessions[t] EXCEPT !.expired = TRUE]]
      BY <2>9 DEF TransportClosed, Expire
    <3>3. /\ [sessions[t] EXCEPT !.closed = TRUE] \in SessionEntry
          /\ [sessions[t] EXCEPT !.expired = TRUE] \in SessionEntry
      BY <2>4, <2>5, <3>1, Zenon
    <3> QED  BY <2>6, <3>2, <3>3, Zenon
  <2>10. ASSUME NEW r \in Conn, DeleteSession(r)
         PROVE  Cause(s)
    <3>1. req[r].pc = "deleting" /\ sessions' = [sessions EXCEPT ![req[r].sid] = None]
      BY <2>10 DEF DeleteSession
    <3>2. req[r].sid \in Sid
      BY <3>1 DEF IInv, Coherent, RecordOK
    <3>3. req[r].sid = s
      BY <2>3, <3>1, <3>2, Zenon
    <3>4. s # None
      BY NoneAssumption
    <3>5. creator[s] = req[r].principal
      BY <3>1, <3>3, <3>4 DEF IInv, SessionServesCreator
    <3> QED  BY <3>1, <3>3, <3>5 DEF Cause
  <2>11. ASSUME NEW r \in Conn, Handle(r)
         PROVE  Cause(s)
    BY <2>2, <2>7, <2>8, <2>10, <2>11
       DEF Handle, Arrive, Refuse, Reply, ModernPost, Connected, Fail, Respond, Finish, Close
  <2>12. CASE CleanupStaleSessions \/ Shutdown \/ Drained \/ ForceExit
    BY <2>2, <2>12 DEF CleanupStaleSessions, Shutdown, Drained, ForceExit, Exit
  <2> QED  BY <2>9, <2>11, <2>12 DEF Next
<1> QED  BY <1>2, <1>3

\* A session leaves the table only past its limits or by a DELETE of its principal.
THEOREM SessionRemovedForCauseTheorem == Spec => SessionRemovedForCause
<1> DEFINE A == \A s \in Sid : Live(s) /\ sessions'[s] = None => Cause(s)
<1>1. IInv /\ [Next]_vars => [A]_vars
  BY RemovalStep
<1>2. [A]_vars =>
        [\A s \in Sid : Live(s) /\ sessions'[s] = None =>
           \/ sessions[s].expired
           \/ \E r \in Conn : /\ req[r].pc = "deleting" /\ req[r].sid = s
                              /\ req[r].principal = creator[s]]_vars
  BY DEF Cause
<1> HIDE DEF A
<1> QED  BY <1>1, <1>2, Invariance, PTL DEF Spec, SessionRemovedForCause
===============================================================================
