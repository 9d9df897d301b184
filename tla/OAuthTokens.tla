----------------------------- MODULE OAuthTokens -----------------------------
(****************************************************************************)
(* Credentials of the HTTP server: authorization codes, rotating token      *)
(* families, their revocation and cleanup, and the Context each access      *)
(* token resolves to.                                                       *)
(*                                                                          *)
(* Codes live in one provider's memory; tokens and bindings are SQLite rows *)
(* that providers of several processes share.  A grant or a rotation mints  *)
(* an access and a refresh token together, so both are named by their family*)
(* and generation.  Clients, redirects, resources, scopes and PKCE are the  *)
(* Boolean "matches": whether a request carries what its code or token asks.*)
(* consumed_at and revoked_at are Booleans; deadlines keep their values.    *)
(****************************************************************************)
EXTENDS Integers, FiniteSets

CONSTANTS
  Provider,        \* processes that run an OAuthProvider
  Code,            \* authorization codes
  Family,          \* token families; also names the Context a grant provisions
  MaxGeneration,   \* bound on the rotations of a family
  AccessTTL,       \* accessTtlMs
  RefreshTTLs,     \* the values of refreshTtlMs a restart may choose between
  CodeTTL,         \* codeTtlMs
  Mode,            \* the values of CTX_ISOLATION_MODE a restart may choose between
  MaxPendingCodes, \* maxPendingCodes
  MaxTime,         \* bound on the clock
  None             \* no row

ASSUME BoundsAssumption == MaxGeneration \in Nat /\ MaxTime \in Nat
ASSUME TTLAssumption == AccessTTL \in Nat /\ CodeTTL \in Nat /\ RefreshTTLs \subseteq Nat
ASSUME ModeAssumption == Mode \subseteq {"OFF", "SHADOW", "PER_CONNECTION"}
ASSUME NoneAssumption ==
  /\ None \notin Code
  /\ None \notin [principal : {"operator", "own"}, expires : Nat, revoked : BOOLEAN]
  /\ None \notin [principal : {"operator", "own"}, expires : Nat, consumed : BOOLEAN, revoked : BOOLEAN]

VARIABLES
  now,
  codes,            \* each provider's pending codes
  access,           \* oauth_access_tokens, by family and generation
  refresh,          \* oauth_refresh_tokens, by family and generation
  revokedFamilies,  \* oauth_revoked_families
  bindings,         \* context_binding, by the access token that selects it
  legacy,           \* the rows of the legacy Context
  proc,             \* what each provider does
  origin,           \* history: the code a family was granted for
  killed            \* history: families revoked so far

tokenVars == <<access, refresh, revokedFamilies, killed>>
contextVars == <<bindings, legacy>>
vars == <<now, codes, access, refresh, revokedFamilies, bindings, legacy, proc, origin, killed>>

Generation == 0..MaxGeneration
Token == [family : Family, gen : Generation]

\* An own principal is minted with its Context; every other grant is "operator".
Principal == {"operator", "own"}
AccessRow == [principal : Principal, expires : Nat, revoked : BOOLEAN]
RefreshRow == [principal : Principal, expires : Nat, consumed : BOOLEAN, revoked : BOOLEAN]

Unissued == [state |-> "unissued"]
Spent == [state |-> "spent"]
CodeRecord == {Unissued, Spent} \cup [state : {"pending"}, at : Provider, expires : Nat]

Down == [pc |-> "down"]
Ready == [pc : {"ready"}, mode : Mode]
Granting == [pc : {"granting"}, mode : Mode, family : Family]
Pinning == [pc : {"registry", "grant", "bind"},
            mode : Mode, token : Token \cup {None}]

TypeOK ==
  /\ now \in 0..MaxTime
  /\ codes \in [Code -> CodeRecord]
  /\ access \in [Family -> [Generation -> AccessRow \cup {None}]]
  /\ refresh \in [Family -> [Generation -> RefreshRow \cup {None}]]
  /\ revokedFamilies \subseteq Family
  /\ bindings \in [Family -> [Generation -> {"own", "legacy", "none"}]]
  /\ legacy \in [registry : BOOLEAN, grant : BOOLEAN]
  /\ proc \in [Provider -> {Down} \cup Ready \cup Granting \cup Pinning]
  /\ origin \in [Family -> Code \cup {None}]
  /\ killed \subseteq Family

Init ==
  /\ now = 0
  /\ codes = [c \in Code |-> Unissued]
  /\ access = [f \in Family |-> [g \in Generation |-> None]]
  /\ refresh = [f \in Family |-> [g \in Generation |-> None]]
  /\ revokedFamilies = {}
  /\ bindings = [f \in Family |-> [g \in Generation |-> "none"]]
  /\ legacy = [registry |-> FALSE, grant |-> FALSE]
  /\ proc = [p \in Provider |-> Down]
  /\ origin = [f \in Family |-> None]
  /\ killed = {}

IsReady(p) == proc[p].pc = "ready"
Enter(p, pc) == proc' = [proc EXCEPT ![p].pc = pc]
Finish(p) == proc' = [proc EXCEPT ![p] = [pc |-> "ready", mode |-> @.mode]]

-----------------------------------------------------------------------------
(* The token repository *)

\* validateOAuthAccess: is this access token accepted?
Valid(f, g) ==
  /\ access[f][g] # None
  /\ ~access[f][g].revoked /\ access[f][g].expires > now
  /\ f \notin revokedFamilies

\* The checks rotateOAuthRefresh makes before it consumes a refresh token.
CanRotate(f, g) ==
  /\ refresh[f][g] # None
  /\ ~refresh[f][g].consumed /\ ~refresh[f][g].revoked
  /\ f \notin revokedFamilies /\ refresh[f][g].expires > now

Revoked(rows) ==
  [g \in Generation |-> IF rows[g] = None THEN None ELSE [rows[g] EXCEPT !.revoked = TRUE]]

RevokeFamily_FamilyRowOnly(f) ==
  /\ revokedFamilies' = revokedFamilies \cup {f}
  /\ refresh' = [refresh EXCEPT ![f] = Revoked(@)]
  /\ killed' = killed \cup {f}
  /\ UNCHANGED access

\* The three writes that a replayed refresh token and revokeOAuthAccess share.
RevokeFamily(f) ==
  /\ revokedFamilies' = revokedFamilies \cup {f}
  /\ access' = [access EXCEPT ![f] = Revoked(@)]
  /\ refresh' = [refresh EXCEPT ![f] = Revoked(@)]
  /\ killed' = killed \cup {f}

Lesser(a, b) == IF a <= b THEN a ELSE b

\* The rows of accessInsert and refreshInsert
NewAccess(principal, expires) ==
  [principal |-> principal, expires |-> expires, revoked |-> FALSE]
NewRefresh(principal, expires) ==
  [principal |-> principal, expires |-> expires, consumed |-> FALSE, revoked |-> FALSE]

RotateOAuthRefresh_Extends(p, f, g, ttl) ==
  LET old == refresh[f][g] IN
  /\ IsReady(p) /\ CanRotate(f, g)
  /\ g < MaxGeneration /\ refresh[f][g + 1] = None
  /\ access' = [access EXCEPT ![f][g + 1] = NewAccess(old.principal, now + AccessTTL)]
  /\ refresh' = [refresh EXCEPT ![f][g].consumed = TRUE,
                                ![f][g + 1] = NewRefresh(old.principal, now + ttl)]
  /\ UNCHANGED <<now, codes, revokedFamilies, killed, contextVars, proc, origin>>

RotateOAuthRefresh_KeepsOld(p, f, g, ttl) ==
  LET old == refresh[f][g] IN
  /\ IsReady(p) /\ CanRotate(f, g)
  /\ g < MaxGeneration /\ refresh[f][g + 1] = None
  /\ access' = [access EXCEPT ![f][g + 1] = NewAccess(old.principal, now + AccessTTL)]
  /\ refresh' = [refresh EXCEPT
       ![f][g + 1] = NewRefresh(old.principal, Lesser(old.expires, now + ttl))]
  /\ UNCHANGED <<now, codes, revokedFamilies, killed, contextVars, proc, origin>>

\* rotateOAuthRefresh of a live token, one transaction: it is consumed and its
\* successor never expires later.  UNIQUE(family_id,generation) rejects a second one.
RotateOAuthRefresh(p, f, g, ttl) ==
  LET old == refresh[f][g] IN
  /\ IsReady(p) /\ CanRotate(f, g)
  /\ g < MaxGeneration /\ refresh[f][g + 1] = None
  /\ access' = [access EXCEPT ![f][g + 1] = NewAccess(old.principal, now + AccessTTL)]
  /\ refresh' = [refresh EXCEPT
       ![f][g].consumed = TRUE,
       ![f][g + 1] = NewRefresh(old.principal, Lesser(old.expires, now + ttl))]
  /\ UNCHANGED <<now, codes, revokedFamilies, killed, contextVars, proc, origin>>

\* rotateOAuthRefresh of a consumed token, expired or not: the family is revoked.
ReplayRefresh(p, f, g) ==
  /\ IsReady(p) /\ refresh[f][g] # None /\ refresh[f][g].consumed
  /\ RevokeFamily(f)
  /\ UNCHANGED <<now, codes, contextVars, proc, origin>>

\* revokeOAuthAccess: nothing happens when the row is gone.
RevokeOAuthAccess(p, f, g) ==
  /\ IsReady(p) /\ access[f][g] # None
  /\ RevokeFamily(f)
  /\ UNCHANGED <<now, codes, contextVars, proc, origin>>

Unexpired(table) ==
  [f \in Family |-> [g \in Generation |->
     IF table[f][g] # None /\ table[f][g].expires < now THEN None ELSE table[f][g]]]

\* cleanupOAuthExpired: a revoked family is forgotten with its last refresh token.
CleanupOAuthExpired ==
  /\ access' = Unexpired(access)
  /\ refresh' = Unexpired(refresh)
  /\ revokedFamilies' = {f \in revokedFamilies : \E g \in Generation : refresh'[f][g] # None}
  /\ UNCHANGED killed

-----------------------------------------------------------------------------
(* OAuthProvider: codes and grants *)

PendingAt(p) == {c \in Code : codes[c].state = "pending" /\ codes[c].at = p}
ExpiredAt(p) == {c \in PendingAt(p) : codes[c].expires <= now}
Drop(cs) == [c \in Code |-> IF c \in cs THEN Spent ELSE codes[c]]

\* cleanup, every cleanupIntervalMs
Cleanup(p) ==
  /\ IsReady(p)
  /\ codes' = Drop(ExpiredAt(p))
  /\ CleanupOAuthExpired
  /\ UNCHANGED <<now, contextVars, proc, origin>>

\* issueCode cleans up when the provider is at its limit, and refuses if that
\* frees no place.
issueCode(p, c) ==
  LET full == Cardinality(PendingAt(p)) >= MaxPendingCodes
      kept == IF full THEN Drop(ExpiredAt(p)) ELSE codes
      room == ~full \/ Cardinality(PendingAt(p) \ ExpiredAt(p)) < MaxPendingCodes IN
  /\ codes' = IF room
                THEN [kept EXCEPT ![c] = [state |-> "pending", at |-> p, expires |-> now + CodeTTL]]
                ELSE kept
  /\ IF full THEN CleanupOAuthExpired ELSE UNCHANGED tokenVars

\* handleAuthorizePOST: the operator consents; a form it rejects changes nothing.
IssueCode(p, c) ==
  /\ IsReady(p) /\ codes[c] = Unissued
  /\ issueCode(p, c)
  /\ UNCHANGED <<now, contextVars, proc, origin>>

\* provision: the Context's row, its grant and the binding, in one transaction.
provision(f) == [bindings EXCEPT ![f][0] = "own"]

\* establishConnection runs under enforcement only; every grant is a new connection.
establishConnection(p, f) ==
  bindings' = IF proc[p].mode = "PER_CONNECTION" THEN provision(f) ELSE bindings

\* exchange: what the request carries is what the code was issued for, in time.
exchange(c, matches) == matches /\ codes[c].expires > now

\* handleTokenPOST: exchange and the first half of issueGrant.  The code is spent whether or not
\* the request matches it; under enforcement the connection's Context and its
\* binding are then stored, in a transaction of their own.
Exchange(p, c, matches, f) ==
  /\ IsReady(p) /\ c \in PendingAt(p)
  /\ codes' = [codes EXCEPT ![c] = Spent]
  /\ IF exchange(c, matches)
       THEN /\ origin[f] = None
            /\ proc' = [proc EXCEPT ![p] = [pc |-> "granting", mode |-> @.mode, family |-> f]]
            /\ establishConnection(p, f)
            /\ origin' = [origin EXCEPT ![f] = c]
       ELSE UNCHANGED <<proc, bindings, origin>>
  /\ UNCHANGED <<now, tokenVars, legacy>>

\* persistOAuthGrant, the transaction that ends issueGrant.
PersistGrant(p, ttl) ==
  LET f == proc[p].family
      principal == IF proc[p].mode = "PER_CONNECTION" THEN "own" ELSE "operator" IN
  /\ proc[p].pc = "granting"
  /\ access' = [access EXCEPT ![f][0] = NewAccess(principal, now + AccessTTL)]
  /\ refresh' = [refresh EXCEPT ![f][0] = NewRefresh(principal, now + ttl)]
  /\ Finish(p)
  /\ UNCHANGED <<now, codes, revokedFamilies, killed, contextVars, origin>>

\* persistOAuthGrant throws: the token endpoint answers token_error.
GrantFails(p) ==
  /\ proc[p].pc = "granting"
  /\ Finish(p)
  /\ UNCHANGED <<now, codes, tokenVars, contextVars, origin>>

-----------------------------------------------------------------------------
(* Which Context a request runs in *)

\* pinLegacyContext runs statement by statement, in no transaction.  It starts by
\* looking for the legacy Context; t is the request's token, None at startup.
Pin(p, m, t) ==
  proc' = [proc EXCEPT ![p] =
             [pc |-> IF legacy.registry THEN "bind" ELSE "registry", mode |-> m, token |-> t]]

\* tokenClaimsWithHash: the presented token is found by its hash.
tokenClaimsWithHash(f, g) == Valid(f, g)

\* The /mcp edge: a request with an accepted access token, isolation switched on.
\* resolveContextFromPort pins the legacy Context before it resolves.
Request(p, f, g) ==
  /\ IsReady(p) /\ proc[p].mode # "OFF" /\ tokenClaimsWithHash(f, g)
  /\ Pin(p, proc[p].mode, [family |-> f, gen |-> g])
  /\ UNCHANGED <<now, codes, tokenVars, contextVars, origin>>

\* A resolution that throws is a refusal; a startup that throws ends the process.
Fail(p) ==
  proc' = [proc EXCEPT ![p] =
             IF @.token = None THEN Down ELSE [pc |-> "ready", mode |-> @.mode]]

PinRegistry(p) ==
  /\ proc[p].pc = "registry"
  /\ IF legacy.registry
       THEN Fail(p) /\ UNCHANGED legacy
       ELSE Enter(p, "grant") /\ legacy' = [legacy EXCEPT !.registry = TRUE]
  /\ UNCHANGED <<now, codes, tokenVars, bindings, origin>>

PinGrant(p) ==
  /\ proc[p].pc = "grant"
  /\ Enter(p, "bind")
  /\ legacy' = [legacy EXCEPT !.grant = TRUE]
  /\ UNCHANGED <<now, codes, tokenVars, bindings, origin>>

Unbound(f, g) == access[f][g] # None /\ ~access[f][g].revoked /\ bindings[f][g] = "none"

\* Every token without a binding is taken for a legacy one.
Pinned_EveryToken ==
  [f \in Family |-> [g \in Generation |-> IF Unbound(f, g) THEN "legacy" ELSE bindings[f][g]]]

\* Every unbound token of the operator that is not revoked joins the legacy Context.
Pinned ==
  [f \in Family |-> [g \in Generation |->
     IF Unbound(f, g) /\ access[f][g].principal = "operator" THEN "legacy" ELSE bindings[f][g]]]

\* resolveContextWith: by the presented token's hash and nothing else.
ResolveContext(f, g) ==
  CASE Pinned[f][g] = "none" -> "UNBOUND"
    [] Pinned[f][g] = "legacy" /\ ~legacy.grant -> "INACTIVE"
    [] OTHER -> "RESOLVED"

\* observeRequestResolution and decideEnforcement: a request runs in the Context it
\* resolved to; when isolation is enforced, any other verdict refuses it.
Admitted(p) ==
  proc[p].mode = "PER_CONNECTION" => ResolveContext(proc[p].token.family, proc[p].token.gen) = "RESOLVED"

\* The bindings, then the resolution: nobody removes what either of them reads.
PinBind(p) ==
  /\ proc[p].pc = "bind"
  /\ bindings' = Pinned
  /\ Finish(p)
  /\ UNCHANGED <<now, codes, tokenVars, legacy, origin>>

StartupPin(p) == proc[p].pc = "bind" /\ proc[p].token = None /\ PinBind(p)
Admit(p) == proc[p].pc = "bind" /\ proc[p].token # None /\ Admitted(p) /\ PinBind(p)
Refuse(p) == proc[p].pc = "bind" /\ proc[p].token # None /\ ~Admitted(p) /\ PinBind(p)

-----------------------------------------------------------------------------
(* Processes and time *)

\* startHttpServer: with isolation switched on, the legacy Context is pinned first.
Start(p, m) ==
  /\ proc[p] = Down
  /\ IF m = "OFF" THEN proc' = [proc EXCEPT ![p] = [pc |-> "ready", mode |-> m]]
                  ELSE Pin(p, m, None)
  /\ UNCHANGED <<now, codes, tokenVars, contextVars, origin>>

\* A process ends between two statements; its pending codes go with it.
Crash(p) ==
  /\ proc[p] # Down
  /\ proc' = [proc EXCEPT ![p] = Down]
  /\ codes' = Drop(PendingAt(p))
  /\ UNCHANGED <<now, tokenVars, contextVars, origin>>

Tick ==
  /\ now < MaxTime
  /\ now' = now + 1
  /\ UNCHANGED <<codes, tokenVars, contextVars, proc, origin>>

ProviderStep(p) ==
  \/ \E c \in Code : IssueCode(p, c)
  \/ \E c \in Code, matches \in BOOLEAN, f \in Family : Exchange(p, c, matches, f)
  \/ \E ttl \in RefreshTTLs : PersistGrant(p, ttl)
  \/ GrantFails(p)
  \/ \E f \in Family, g \in Generation, ttl \in RefreshTTLs : RotateOAuthRefresh(p, f, g, ttl)
  \/ \E f \in Family, g \in Generation : ReplayRefresh(p, f, g)
  \/ \E f \in Family, g \in Generation : RevokeOAuthAccess(p, f, g)
  \/ Cleanup(p)

ResolutionStep(p) ==
  \/ \E f \in Family, g \in Generation : Request(p, f, g)
  \/ PinRegistry(p) \/ PinGrant(p)
  \/ StartupPin(p) \/ Admit(p) \/ Refuse(p)

ProcessStep(p) ==
  \/ \E m \in Mode : Start(p, m)
  \/ Crash(p)

Next ==
  \/ \E p \in Provider : ProviderStep(p) \/ ResolutionStep(p) \/ ProcessStep(p)
  \/ Tick

Spec == Init /\ [][Next]_vars

-----------------------------------------------------------------------------
(* Properties *)

\* exchange deletes the code before it looks at anything else: a code is the
\* origin of at most one token family, whatever is presented with it, whichever
\* provider restarts and whether or not the grant's second transaction succeeds.
CodeSingleUse ==
  \A f, h \in Family : origin[f] # None /\ origin[f] = origin[h] => f = h

\* A family revoked by a replay or by revoke stays dead: none of its access tokens
\* is accepted and none of its refresh tokens rotates, even after cleanup has
\* forgotten the oauth_revoked_families row while access tokens outlive it.
KilledFamilyStaysDead ==
  \A f \in killed, g \in Generation : ~Valid(f, g) /\ ~CanRotate(f, g)

\* Rotation is linear: of all refresh tokens of a family at most one is live, so two
\* requests with the same token never both get a successor.
OneLiveRefresh ==
  \A f \in Family : \A g, h \in Generation : CanRotate(f, g) /\ CanRotate(f, h) => g = h

\* While a refresh token can rotate, each of its predecessors is still on record as
\* consumed, so presenting one revokes the family: cleanup never deletes a consumed
\* token before the tokens rotated from it have expired.
ReplayStaysDetectable ==
  \A f \in Family : \A g, h \in Generation :
    CanRotate(f, g) /\ h < g => refresh[f][h] # None /\ refresh[f][h].consumed

\* A connection granted under enforcement is bound to its own Context before its
\* first access token exists, and no token of it ever joins the legacy Context,
\* whatever pinLegacyContext finds unbound and however modes change at restarts.
NewConnectionNeverLegacy ==
  \A f \in Family, g \in Generation :
    access[f][g] # None /\ access[f][g].principal = "own" =>
      bindings[f][g] # "legacy" /\ bindings[f][0] = "own"

================================================================================
