----------------------------- MODULE AccessProofs -----------------------------
(***************************************************************************)
(* Proofs about who is let in and what a caller may then do: the OAuth     *)
(* tokens, for any number of providers, codes, families, generations and   *)
(* any lifetimes, and the tool gateway, for every set of calls: any tool,  *)
(* argument, scope, origin and level, and any bound on lost audit records. *)
(***************************************************************************)
EXTENDS OAuthTokens, ToolGateway, TLAPS

-----------------------------------------------------------------------------
(* Tokens. *)


Quiet(f) == \A g \in Generation : access[f][g] = None /\ refresh[f][g] = None
GrantingFor(p, f) == proc[p].pc = "granting" /\ proc[p].family = f

\* A family nobody has granted yet has left no trace.
Fresh ==
  \A f \in Family : origin[f] = None =>
    /\ Quiet(f) /\ f \notin killed
    /\ \A g \in Generation : bindings[f][g] = "none"
    /\ \A p \in Provider : ~GrantingFor(p, f)

\* A family between its two transactions has one provider at work and no tokens.
Grants ==
  \A p \in Provider, f \in Family : GrantingFor(p, f) =>
    /\ Quiet(f) /\ f \notin killed
    /\ (proc[p].mode = "PER_CONNECTION") <=> (bindings[f][0] = "own")
    /\ \A q \in Provider : GrantingFor(q, f) => q = p

\* The code of a family is spent.
OriginsSpent == \A f \in Family : origin[f] # None => codes[origin[f]] = Spent

\* Every token of a revoked family is marked, so the family's own row may go.
DeadRows ==
  \A f \in killed, g \in Generation :
    /\ access[f][g] # None => access[f][g].revoked
    /\ refresh[f][g] # None => refresh[f][g].revoked

\* The predecessors of a stored refresh token are stored, consumed, and outlive it.
Chain ==
  \A f \in Family : \A g, h \in Generation :
    refresh[f][g] # None /\ h < g =>
      refresh[f][h] # None /\ refresh[f][h].consumed /\ refresh[f][g].expires <= refresh[f][h].expires

\* The tokens of a family have the principal its Context was provisioned for.
Principals ==
  \A f \in Family, g \in Generation :
    /\ access[f][g] # None => (access[f][g].principal = "own" <=> bindings[f][0] = "own")
    /\ refresh[f][g] # None => (refresh[f][g].principal = "own" <=> bindings[f][0] = "own")
    /\ bindings[f][0] = "own" => bindings[f][g] # "legacy"

Families ==
  /\ Fresh /\ Grants
  /\ DeadRows /\ Chain /\ Principals

Codes == CodeSingleUse /\ OriginsSpent

IInv == TypeOK /\ Codes /\ Families

-----------------------------------------------------------------------------
(* Types *)

\* A provider that is up has a mode; a request being pinned has a token.
LEMMA ProcShape ==
  ASSUME TypeOK, NEW p \in Provider
  PROVE  /\ proc[p] # Down => proc[p].mode \in Mode
         /\ proc[p].pc \in {"ready", "granting", "registry", "grant", "bind"} => proc[p] # Down
         /\ proc[p].pc = "granting" => proc[p].family \in Family
         /\ proc[p].pc \in {"registry", "grant", "bind"} => proc[p] \in Pinning
BY DEF TypeOK, Down, Ready, Granting, Pinning

\* Going back to "ready" is well typed.
LEMMA FinishType ==
  ASSUME TypeOK, NEW p \in Provider, proc[p] # Down, Finish(p)
  PROVE  proc' \in [Provider -> {Down} \cup Ready \cup Granting \cup Pinning]
<1>1. [pc |-> "ready", mode |-> proc[p].mode] \in Ready
  BY ProcShape DEF Ready
<1> QED BY <1>1 DEF Finish, TypeOK

\* The next statement of pinLegacyContext is well typed.
LEMMA EnterType ==
  ASSUME TypeOK, NEW p \in Provider, proc[p] \in Pinning,
         NEW pc \in {"registry", "grant", "bind"}, Enter(p, pc)
  PROVE  proc' \in [Provider -> {Down} \cup Ready \cup Granting \cup Pinning]
<1>1. [proc[p] EXCEPT !.pc = pc] \in Pinning
  BY DEF Pinning
<1> QED BY <1>1 DEF Enter, TypeOK

\* Starting to pin is well typed.
LEMMA PinType ==
  ASSUME TypeOK, NEW p \in Provider, NEW m \in Mode, NEW t \in Token \cup {None}, Pin(p, m, t)
  PROVE  proc' \in [Provider -> {Down} \cup Ready \cup Granting \cup Pinning]
<1>1. [pc |-> IF legacy.registry THEN "bind" ELSE "registry", mode |-> m, token |-> t] \in Pinning
  BY DEF Pinning
<1> QED BY <1>1 DEF Pin, TypeOK

\* Marking the rows of a family keeps them rows.
LEMMA RevokeType ==
  ASSUME TypeOK, NEW f \in Family, RevokeFamily(f)
  PROVE  /\ access' \in [Family -> [Generation -> AccessRow \cup {None}]]
         /\ refresh' \in [Family -> [Generation -> RefreshRow \cup {None}]]
         /\ revokedFamilies' \subseteq Family /\ killed' \subseteq Family
<1>1. Revoked(access[f]) \in [Generation -> AccessRow \cup {None}]
  <2>1. \A r \in AccessRow : [r EXCEPT !.revoked = TRUE] \in AccessRow
    BY Zenon DEF AccessRow
  <2>2. access[f] \in [Generation -> AccessRow \cup {None}]
    BY DEF TypeOK
  <2> QED BY <2>1, <2>2 DEF Revoked
<1>2. Revoked(refresh[f]) \in [Generation -> RefreshRow \cup {None}]
  <2>1. \A r \in RefreshRow : [r EXCEPT !.revoked = TRUE] \in RefreshRow
    BY Zenon DEF RefreshRow
  <2>2. refresh[f] \in [Generation -> RefreshRow \cup {None}]
    BY DEF TypeOK
  <2> QED BY <2>1, <2>2 DEF Revoked
<1> QED BY <1>1, <1>2 DEF RevokeFamily, TypeOK

\* Deleting expired rows keeps the others as they are.
LEMMA CleanupType ==
  ASSUME TypeOK, CleanupOAuthExpired
  PROVE  /\ access' \in [Family -> [Generation -> AccessRow \cup {None}]]
         /\ refresh' \in [Family -> [Generation -> RefreshRow \cup {None}]]
         /\ revokedFamilies' \subseteq Family /\ killed' \subseteq Family
<1>1. access' \in [Family -> [Generation -> AccessRow \cup {None}]]
  BY DEF CleanupOAuthExpired, Unexpired, TypeOK
<1>2. refresh' \in [Family -> [Generation -> RefreshRow \cup {None}]]
  BY DEF CleanupOAuthExpired, Unexpired, TypeOK
<1> QED BY <1>1, <1>2 DEF CleanupOAuthExpired, TypeOK

\* Dropping codes keeps the table typed.
LEMMA DropType ==
  ASSUME TypeOK, NEW cs
  PROVE  Drop(cs) \in [Code -> CodeRecord]
BY DEF TypeOK, Drop, CodeRecord

\* Every step keeps the types.
LEMMA TypeStep ==
  ASSUME TypeOK, [Next]_vars
  PROVE  TypeOK'
<1> DEFINE Procs == {Down} \cup Ready \cup Granting \cup Pinning
<1>0. 0 \in Generation /\ now \in Nat
  BY BoundsAssumption DEF Generation, TypeOK
<1>1. CASE UNCHANGED vars
  BY <1>1 DEF vars, TypeOK
<1>2. CASE Tick
  BY <1>2, BoundsAssumption DEF Tick, TypeOK, tokenVars, contextVars
<1>3. ASSUME NEW p \in Provider, NEW c \in Code, IssueCode(p, c) PROVE TypeOK'
  <2>1. [state |-> "pending", at |-> p, expires |-> now + CodeTTL] \in CodeRecord
    BY <1>0, TTLAssumption DEF CodeRecord
  <2>2. codes' \in [Code -> CodeRecord]
    <3>1. Drop(ExpiredAt(p)) \in [Code -> CodeRecord] /\ codes \in [Code -> CodeRecord]
      BY DropType DEF TypeOK
    <3> QED BY <1>3, <2>1, <3>1 DEF IssueCode, issueCode
  <2>3. /\ access' \in [Family -> [Generation -> AccessRow \cup {None}]]
        /\ refresh' \in [Family -> [Generation -> RefreshRow \cup {None}]]
        /\ revokedFamilies' \subseteq Family /\ killed' \subseteq Family
    BY <1>3, CleanupType DEF IssueCode, issueCode, tokenVars, TypeOK
  <2> QED BY <1>3, <2>2, <2>3 DEF IssueCode, issueCode, TypeOK, contextVars
<1>4. ASSUME NEW p \in Provider, NEW c \in Code, NEW matches \in BOOLEAN, NEW f \in Family,
             Exchange(p, c, matches, f)
      PROVE  TypeOK'
  <2>1. [pc |-> "granting", mode |-> proc[p].mode, family |-> f] \in Granting
    BY <1>4, ProcShape DEF Exchange, exchange, establishConnection, provision, IsReady, Granting
  <2>2. proc' \in [Provider -> Procs]
    BY <1>4, <2>1 DEF Exchange, exchange, establishConnection, provision, TypeOK
  <2>3. bindings' \in [Family -> [Generation -> {"own", "legacy", "none"}]]
    <3>1. [bindings EXCEPT ![f][0] = "own"] \in [Family -> [Generation -> {"own", "legacy", "none"}]]
      BY <1>0 DEF TypeOK
    <3>2. bindings' \in {bindings, [bindings EXCEPT ![f][0] = "own"]}
      BY <1>4 DEF Exchange, exchange, establishConnection, provision
    <3> QED BY <3>1, <3>2, Zenon DEF TypeOK
  <2>4. codes' \in [Code -> CodeRecord]
    BY <1>4 DEF Exchange, exchange, establishConnection, provision, TypeOK, CodeRecord
  <2>5. origin' \in [Family -> Code \cup {None}]
    BY <1>4, Zenon DEF Exchange, exchange, establishConnection, provision, TypeOK
  <2> QED BY <1>4, <2>2, <2>3, <2>4, <2>5 DEF Exchange, exchange, establishConnection, provision, TypeOK, tokenVars
<1>5. ASSUME NEW p \in Provider, NEW ttl \in RefreshTTLs, PersistGrant(p, ttl) PROVE TypeOK'
  <2> DEFINE principal == IF proc[p].mode = "PER_CONNECTION" THEN "own" ELSE "operator"
  <2>1. /\ NewAccess(principal, now + AccessTTL) \in AccessRow
        /\ NewRefresh(principal, now + ttl) \in RefreshRow
    BY <1>0, TTLAssumption DEF NewAccess, NewRefresh, AccessRow, RefreshRow, Principal
  <2>2. proc' \in [Provider -> Procs]
    BY <1>5, FinishType, ProcShape DEF PersistGrant
  <2>3. proc[p].family \in Family
    BY <1>5, ProcShape DEF PersistGrant
  <2>4. access' \in [Family -> [Generation -> AccessRow \cup {None}]]
    BY <1>0, <1>5, <2>1, <2>3 DEF PersistGrant, TypeOK
  <2>5. refresh' \in [Family -> [Generation -> RefreshRow \cup {None}]]
    BY <1>0, <1>5, <2>1, <2>3 DEF PersistGrant, TypeOK
  <2> QED BY <1>5, <2>2, <2>4, <2>5 DEF PersistGrant, TypeOK, contextVars
<1>6. ASSUME NEW p \in Provider, GrantFails(p) PROVE TypeOK'
  <2>1. proc' \in [Provider -> Procs]
    BY <1>6, FinishType, ProcShape DEF GrantFails
  <2> QED BY <1>6, <2>1 DEF GrantFails, TypeOK, tokenVars, contextVars
<1>7. ASSUME NEW p \in Provider, NEW f \in Family, NEW g \in Generation, NEW ttl \in RefreshTTLs,
             RotateOAuthRefresh(p, f, g, ttl)
      PROVE  TypeOK'
  <2> DEFINE old == refresh[f][g]
             fresh == NewRefresh(old.principal, Lesser(old.expires, now + ttl))
  <2>1. old \in RefreshRow /\ g + 1 \in Generation /\ g # g + 1
    BY <1>7, BoundsAssumption DEF RotateOAuthRefresh, CanRotate, TypeOK, Generation
  <2>2. NewAccess(old.principal, now + AccessTTL) \in AccessRow /\ fresh \in RefreshRow
    BY <1>0, <2>1, TTLAssumption DEF NewAccess, NewRefresh, AccessRow, RefreshRow, Lesser
  <2>3. [old EXCEPT !.consumed = TRUE] \in RefreshRow
    BY <2>1, Zenon DEF RefreshRow
  <2>4. access' \in [Family -> [Generation -> AccessRow \cup {None}]]
    BY <1>7, <2>1, <2>2 DEF RotateOAuthRefresh, TypeOK
  <2>5. refresh' = [refresh EXCEPT ![f] = [[refresh[f] EXCEPT ![g] = [old EXCEPT !.consumed = TRUE]]
                                             EXCEPT ![g + 1] = fresh]]
    BY <1>7, Zenon DEF RotateOAuthRefresh, TypeOK
  <2>6. refresh' \in [Family -> [Generation -> RefreshRow \cup {None}]]
    BY <2>1, <2>2, <2>3, <2>5, Zenon DEF TypeOK
  <2> QED BY <1>7, <2>4, <2>6, Zenon DEF RotateOAuthRefresh, TypeOK, contextVars
<1>8. ASSUME NEW p \in Provider, NEW f \in Family, NEW g \in Generation,
             ReplayRefresh(p, f, g) \/ RevokeOAuthAccess(p, f, g)
      PROVE  TypeOK'
  BY <1>8, RevokeType DEF ReplayRefresh, RevokeOAuthAccess, TypeOK, contextVars
<1>9. ASSUME NEW p \in Provider, Cleanup(p) PROVE TypeOK'
  BY <1>9, CleanupType, DropType DEF Cleanup, TypeOK, contextVars
<1>10. ASSUME NEW p \in Provider, NEW f \in Family, NEW g \in Generation, Request(p, f, g)
       PROVE  TypeOK'
  <2>1. [family |-> f, gen |-> g] \in Token /\ proc[p].mode \in Mode
    BY <1>10, ProcShape DEF Token, Request, IsReady
  <2>2. proc' \in [Provider -> Procs]
    BY <1>10, <2>1, PinType DEF Request
  <2> QED BY <1>10, <2>2 DEF Request, TypeOK, tokenVars, contextVars
<1>11. ASSUME NEW p \in Provider, PinRegistry(p) PROVE TypeOK'
  <2>1. proc[p] \in Pinning /\ proc[p] # Down /\ proc[p].mode \in Mode
    BY <1>11, ProcShape DEF PinRegistry
  <2>2. ASSUME Fail(p) PROVE proc' \in [Provider -> Procs]
    <3>1. [pc |-> "ready", mode |-> proc[p].mode] \in Ready
      BY <2>1 DEF Ready
    <3> QED BY <2>2, <3>1 DEF Fail, TypeOK
  <2>3. ASSUME Enter(p, "grant") PROVE proc' \in [Provider -> Procs]
    BY <2>1, <2>3, EnterType
  <2>4. legacy' \in [registry : BOOLEAN, grant : BOOLEAN]
    BY <1>11, Zenon DEF PinRegistry, TypeOK
  <2> QED BY <1>11, <2>2, <2>3, <2>4 DEF PinRegistry, TypeOK, tokenVars
<1>12. ASSUME NEW p \in Provider, PinGrant(p) PROVE TypeOK'
  <2>1. proc' \in [Provider -> Procs]
    BY <1>12, EnterType, ProcShape DEF PinGrant
  <2>2. legacy' \in [registry : BOOLEAN, grant : BOOLEAN]
    BY <1>12, Zenon DEF PinGrant, TypeOK
  <2> QED BY <1>12, <2>1, <2>2 DEF PinGrant, TypeOK, tokenVars
<1>13. ASSUME NEW p \in Provider, PinBind(p) PROVE TypeOK'
  <2>1. proc' \in [Provider -> Procs]
    BY <1>13, FinishType, ProcShape DEF PinBind
  <2>2. bindings' \in [Family -> [Generation -> {"own", "legacy", "none"}]]
    BY <1>13 DEF PinBind, Pinned, TypeOK
  <2> QED BY <1>13, <2>1, <2>2 DEF PinBind, TypeOK, tokenVars
<1>14. ASSUME NEW p \in Provider, NEW m \in Mode, Start(p, m) PROVE TypeOK'
  <2>1. [pc |-> "ready", mode |-> m] \in Ready
    BY DEF Ready
  <2>2. proc' \in [Provider -> Procs]
    BY <1>14, <2>1, PinType DEF Start, TypeOK
  <2> QED BY <1>14, <2>2 DEF Start, TypeOK, tokenVars, contextVars
<1>15. ASSUME NEW p \in Provider, Crash(p) PROVE TypeOK'
  BY <1>15, DropType, SMTT(30) DEF Crash, TypeOK, tokenVars, contextVars
<1> QED
  BY <1>1, <1>2, <1>3, <1>4, <1>5, <1>6, <1>7, <1>8, <1>9, <1>10, <1>11, <1>12, <1>13, <1>14, <1>15
  DEF Next, ProviderStep, ResolutionStep, ProcessStep, StartupPin, Admit, Refuse

-----------------------------------------------------------------------------
(* Codes *)

\* A code is spent once, and a family gets its code when that happens.
LEMMA CodesStep ==
  ASSUME TypeOK, Codes, [Next]_vars
  PROVE  Codes'
<1>1. ASSUME origin' = origin, \A c \in Code : codes[c] = Spent => codes'[c] = Spent
      PROVE  Codes'
  BY <1>1 DEF Codes, CodeSingleUse, OriginsSpent, TypeOK
<1>2. ASSUME NEW cs, NEW d \in Code PROVE codes[d] = Spent => Drop(cs)[d] = Spent
  BY DEF Drop
<1>3. ASSUME NEW p \in Provider, NEW c \in Code, IssueCode(p, c) PROVE Codes'
  <2>1. \A d \in Code : codes[d] = Spent => codes'[d] = Spent
    <3>1. codes[c] # Spent
      BY <1>3 DEF IssueCode, issueCode, Unissued, Spent
    <3>2. codes \in [Code -> CodeRecord] /\ Drop(ExpiredAt(p)) \in [Code -> CodeRecord]
      BY DropType DEF TypeOK
    <3> QED BY <1>2, <1>3, <3>1, <3>2 DEF IssueCode, issueCode
  <2> QED BY <1>1, <1>3, <2>1, Zenon DEF IssueCode, issueCode
<1>4. ASSUME NEW p \in Provider, NEW c \in Code, NEW matches \in BOOLEAN, NEW f \in Family,
             Exchange(p, c, matches, f)
      PROVE  Codes'
  <2>1. codes'[c] = Spent /\ \A d \in Code : codes[d] = Spent => codes'[d] = Spent
    BY <1>4 DEF Exchange, exchange, establishConnection, provision, TypeOK
  <2>2. CASE origin' = origin
    BY <1>1, <2>1, <2>2
  <2>3. CASE origin' = [origin EXCEPT ![f] = c]
    <3>1. codes[c] # Spent
      BY <1>4 DEF Exchange, exchange, establishConnection, provision, PendingAt, Spent
    <3>2. \A h \in Family : origin[h] # c
      BY <3>1, NoneAssumption DEF Codes, OriginsSpent, TypeOK
    <3>3. CodeSingleUse'
      BY <2>3, <3>2 DEF Codes, CodeSingleUse, TypeOK
    <3>4. OriginsSpent'
      BY <2>1, <2>3 DEF Codes, OriginsSpent, TypeOK
    <3> QED BY <3>3, <3>4 DEF Codes
  <2> QED BY <1>4, <2>2, <2>3 DEF Exchange, exchange, establishConnection, provision
<1>5. ASSUME NEW p \in Provider, Crash(p) \/ Cleanup(p) PROVE Codes'
  BY <1>1, <1>2, <1>5 DEF Crash, Cleanup
<1>6. ASSUME UNCHANGED <<codes, origin>> PROVE Codes'
  BY <1>1, <1>6
<1> QED
  BY <1>3, <1>4, <1>5, <1>6, ZenonT(30)
  DEF Next, ProviderStep, ResolutionStep, ProcessStep, StartupPin, Admit, Refuse, vars, Tick, PersistGrant,
      GrantFails, RotateOAuthRefresh, ReplayRefresh, RevokeOAuthAccess, Request, PinRegistry, PinGrant, PinBind, Start

-----------------------------------------------------------------------------
(* Families *)

\* No grant begins: the providers that grant after the step did so before.
NoNewGrant ==
  \A p \in Provider, f \in Family :
    GrantingFor(p, f)' => GrantingFor(p, f) /\ proc'[p].mode = proc[p].mode

\* A step that touches neither tokens nor bindings and begins no grant.
LEMMA StillStep ==
  ASSUME Families, UNCHANGED <<access, refresh, killed, bindings, origin>>, NoNewGrant
  PROVE  Families'
BY DEF Families, Fresh, Grants, Quiet, DeadRows, Chain, Principals, NoNewGrant

\* Revoking a family marks all its rows, and a fresh or granting family has none.
LEMMA KillStep ==
  ASSUME TypeOK, Families, NEW f \in Family, ~Quiet(f), RevokeFamily(f),
         UNCHANGED <<bindings, origin, proc>>
  PROVE  Families'
<1>1. \A g \in Generation : access[f][g] \in AccessRow \cup {None} /\ refresh[f][g] \in RefreshRow \cup {None}
  BY DEF TypeOK
<1>2. \A h \in Family, g \in Generation :
        /\ h # f => access'[h][g] = access[h][g] /\ refresh'[h][g] = refresh[h][g]
        /\ access'[h][g] = None <=> access[h][g] = None
        /\ refresh'[h][g] = None <=> refresh[h][g] = None
  <2>1. \A r \in AccessRow : [r EXCEPT !.revoked = TRUE] # None
    BY NoneAssumption, Zenon DEF AccessRow, Principal
  <2>2. \A r \in RefreshRow : [r EXCEPT !.revoked = TRUE] # None
    BY NoneAssumption, Zenon DEF RefreshRow, Principal
  <2> QED BY <1>1, <2>1, <2>2 DEF RevokeFamily, Revoked, TypeOK
<1>3. \A g \in Generation :
        /\ access[f][g] # None => access'[f][g].revoked /\ access'[f][g].principal = access[f][g].principal
        /\ refresh[f][g] # None =>
             /\ refresh'[f][g].revoked /\ refresh'[f][g].principal = refresh[f][g].principal
             /\ refresh'[f][g].consumed = refresh[f][g].consumed
             /\ refresh'[f][g].expires = refresh[f][g].expires
  BY <1>1 DEF RevokeFamily, Revoked, TypeOK, AccessRow, RefreshRow
<1>4. Fresh' /\ Grants'
  BY <1>2 DEF Families, Fresh, Grants, Quiet, RevokeFamily, GrantingFor
<1>5. DeadRows'
  BY <1>2, <1>3 DEF Families, DeadRows, RevokeFamily, TypeOK
<1>6. Chain'
  BY <1>2, <1>3 DEF Families, Chain
<1>7. Principals'
  BY <1>2, <1>3 DEF Families, Principals
<1> QED BY <1>4, <1>5, <1>6, <1>7 DEF Families

\* Cleanup deletes the tail of a chain, never its middle.
LEMMA CleanStep ==
  ASSUME TypeOK, Families, CleanupOAuthExpired, UNCHANGED <<bindings, origin, proc>>
  PROVE  Families'
<1>1. \A f \in Family, g \in Generation :
        /\ access'[f][g] # None => access'[f][g] = access[f][g]
        /\ refresh'[f][g] # None => refresh'[f][g] = refresh[f][g]
        /\ refresh'[f][g] # None <=> refresh[f][g] # None /\ ~(refresh[f][g].expires < now)
  BY DEF CleanupOAuthExpired, Unexpired
<1>2. Fresh' /\ Grants'
  BY <1>1 DEF Families, Fresh, Grants, Quiet, CleanupOAuthExpired, GrantingFor
<1>3. DeadRows'
  BY <1>1 DEF Families, DeadRows, CleanupOAuthExpired, TypeOK
<1>4. Chain'
  <2>1. \A f \in Family, g \in Generation : refresh[f][g] # None => refresh[f][g].expires \in Nat
    BY DEF TypeOK, RefreshRow
  <2>2. now \in Nat
    BY BoundsAssumption DEF TypeOK
  <2> QED BY <1>1, <2>1, <2>2 DEF Families, Chain
<1>5. Principals'
  BY <1>1 DEF Families, Principals
<1> QED BY <1>2, <1>3, <1>4, <1>5 DEF Families

\* Rotation consumes the last token of a chain and appends its successor.
LEMMA RotateStep ==
  ASSUME TypeOK, Families, NEW p \in Provider, NEW f \in Family, NEW g \in Generation,
         NEW ttl \in RefreshTTLs, RotateOAuthRefresh(p, f, g, ttl)
  PROVE  Families'
<1> DEFINE old == refresh[f][g]
           exp == Lesser(old.expires, now + ttl)
<1>1. /\ old \in RefreshRow /\ old # None /\ ~old.revoked
      /\ g + 1 \in Generation /\ g \in Nat
      /\ refresh[f][g + 1] = None
  BY BoundsAssumption DEF RotateOAuthRefresh, CanRotate, TypeOK, Generation
<1>2. exp <= old.expires /\ exp \in Nat
  BY <1>1, BoundsAssumption, TTLAssumption DEF Lesser, RefreshRow, TypeOK
<1>3. f \notin killed /\ origin[f] # None /\ \A q \in Provider : ~GrantingFor(q, f)
  BY <1>1 DEF Families, DeadRows, Fresh, Grants, Quiet
<1>4. /\ refresh'[f][g] = [old EXCEPT !.consumed = TRUE]
      /\ refresh'[f][g + 1] = NewRefresh(old.principal, exp)
      /\ \A k \in Generation : k # g /\ k # g + 1 => refresh'[f][k] = refresh[f][k]
      /\ \A h \in Family, k \in Generation : h # f => refresh'[h][k] = refresh[h][k]
  <2>1. refresh' = [refresh EXCEPT ![f] = [[refresh[f] EXCEPT ![g] = [old EXCEPT !.consumed = TRUE]]
                                             EXCEPT ![g + 1] = NewRefresh(old.principal, exp)]]
    BY Zenon DEF RotateOAuthRefresh, TypeOK
  <2> QED BY <1>1, <2>1, Zenon DEF TypeOK
<1>5. /\ access'[f][g + 1] = NewAccess(old.principal, now + AccessTTL)
      /\ \A h \in Family, k \in Generation : h # f \/ k # g + 1 => access'[h][k] = access[h][k]
  BY <1>1 DEF RotateOAuthRefresh, TypeOK
<1>6. /\ refresh'[f][g].consumed /\ refresh'[f][g].expires = old.expires
      /\ refresh'[f][g].principal = old.principal
      /\ refresh'[f][g + 1].expires = exp /\ refresh'[f][g + 1].principal = old.principal
      /\ access'[f][g + 1].principal = old.principal
  BY <1>1, <1>4, <1>5 DEF RefreshRow, NewRefresh, NewAccess
<1>7. refresh'[f][g] # None
  <2>1. [old EXCEPT !.consumed = TRUE] \in RefreshRow
    BY <1>1, Zenon DEF RefreshRow
  <2> QED BY <1>4, <2>1, NoneAssumption, Zenon DEF RefreshRow, Principal
<1>8. UNCHANGED <<bindings, origin, proc, killed>>
  BY DEF RotateOAuthRefresh, contextVars
<1>9. Fresh' /\ Grants'
  BY <1>3, <1>4, <1>5, <1>8 DEF Families, Fresh, Grants, Quiet, GrantingFor
<1>10. DeadRows'
  <2> SUFFICES ASSUME NEW h \in killed', NEW k \in Generation
               PROVE  /\ access'[h][k] # None => access'[h][k].revoked
                      /\ refresh'[h][k] # None => refresh'[h][k].revoked
    BY DEF DeadRows
  <2>1. h # f /\ h \in killed /\ h \in Family
    BY <1>3, <1>8 DEF TypeOK
  <2> QED BY <1>4, <1>5, <2>1 DEF Families, DeadRows
<1>11. Chain'
  <2> SUFFICES ASSUME NEW h \in Family, NEW k \in Generation, NEW j \in Generation,
                      refresh'[h][k] # None, j < k
               PROVE  /\ refresh'[h][j] # None /\ refresh'[h][j].consumed
                      /\ refresh'[h][k].expires <= refresh'[h][j].expires
    BY DEF Chain
  <2>1. CASE h # f
    BY <1>4, <2>1 DEF Families, Chain
  <2>2. CASE h = f /\ k = g + 1
    <3>1. CASE j = g
      BY <1>1, <1>2, <1>4, <1>6, <1>7, <2>2, <3>1, Zenon
    <3>2. CASE j # g
      <4>1. j < g /\ j # g + 1 /\ j \in Nat
        BY <1>1, <2>2, <3>2 DEF Generation
      <4>2. refresh[f][j] # None /\ refresh[f][j].consumed /\ old.expires <= refresh[f][j].expires
        BY <1>1, <4>1 DEF Families, Chain
      <4>3. refresh[f][j].expires \in Nat /\ old.expires \in Nat
        BY <1>1, <4>2 DEF TypeOK, RefreshRow
      <4> QED BY <1>2, <1>4, <1>6, <2>2, <3>2, <4>1, <4>2, <4>3
    <3> QED BY <3>1, <3>2
  <2>3. CASE h = f /\ k # g + 1
    <3>1. refresh[f][k] # None
      BY <1>1, <1>4, <2>3
    <3>2. refresh[f][j] # None /\ refresh[f][j].consumed /\ refresh[f][k].expires <= refresh[f][j].expires
      BY <3>1 DEF Families, Chain
    <3>3. j # g + 1
      BY <1>1, <3>2
    <3>4. refresh'[f][k].expires = refresh[f][k].expires
      BY <1>4, <1>6, <2>3, Zenon
    <3>5. refresh'[f][j] # None /\ refresh'[f][j].consumed /\ refresh'[f][j].expires = refresh[f][j].expires
      BY <1>4, <1>6, <1>7, <3>2, <3>3, Zenon
    <3> QED BY <2>3, <3>2, <3>4, <3>5
  <2> QED BY <2>1, <2>2, <2>3
<1>12. Principals'
  <2>1. old.principal = "own" <=> bindings[f][0] = "own"
    BY <1>1 DEF Families, Principals
  <2> SUFFICES ASSUME NEW h \in Family, NEW k \in Generation
               PROVE  /\ access'[h][k] # None => (access'[h][k].principal = "own" <=> bindings[h][0] = "own")
                      /\ refresh'[h][k] # None => (refresh'[h][k].principal = "own" <=> bindings[h][0] = "own")
                      /\ bindings[h][0] = "own" => bindings[h][k] # "legacy"
    BY <1>8 DEF Principals
  <2>2. CASE h = f /\ k = g + 1
    BY <1>6, <2>1, <2>2 DEF Families, Principals
  <2>3. CASE h = f /\ k = g
    <3>1. k # g + 1
      BY <1>1, <2>3
    <3> QED BY <1>5, <1>6, <2>1, <2>3, <3>1 DEF Families, Principals
  <2>4. CASE h # f \/ (k # g /\ k # g + 1)
    BY <1>4, <1>5, <2>4 DEF Families, Principals
  <2> QED BY <2>2, <2>3, <2>4
<1> QED BY <1>9, <1>10, <1>11, <1>12 DEF Families

\* A grant begins for a fresh family, whose Context is stored under enforcement.
LEMMA ExchangeStep ==
  ASSUME TypeOK, Families, NEW p \in Provider, NEW c \in Code, NEW matches \in BOOLEAN,
         NEW f \in Family, Exchange(p, c, matches, f)
  PROVE  Families'
<1>0. 0 \in Generation /\ c # None
  BY BoundsAssumption, NoneAssumption DEF Generation
<1>1. CASE UNCHANGED <<proc, bindings, origin>>
  <2>1. NoNewGrant
    BY <1>1 DEF NoNewGrant, GrantingFor
  <2> QED BY <1>1, <2>1, StillStep DEF Exchange, exchange, establishConnection, provision, tokenVars
<1>2. CASE /\ origin[f] = None
           /\ proc' = [proc EXCEPT ![p] = [pc |-> "granting", mode |-> @.mode, family |-> f]]
           /\ bindings' = IF proc[p].mode = "PER_CONNECTION"
                            THEN [bindings EXCEPT ![f][0] = "own"] ELSE bindings
           /\ origin' = [origin EXCEPT ![f] = c]
  <2>1. /\ Quiet(f) /\ f \notin killed
        /\ \A g \in Generation : bindings[f][g] = "none"
        /\ \A q \in Provider : ~GrantingFor(q, f)
    BY <1>2 DEF Families, Fresh
  <2>2. UNCHANGED <<access, refresh, killed>>
    BY DEF Exchange, exchange, establishConnection, provision, tokenVars
  <2>3. /\ \A h \in Family, g \in Generation : h # f => bindings'[h][g] = bindings[h][g]
        /\ \A g \in Generation : bindings'[f][g] # "legacy"
        /\ (proc[p].mode = "PER_CONNECTION") <=> (bindings'[f][0] = "own")
    <3>1. CASE proc[p].mode = "PER_CONNECTION"
      <4>1. bindings' = [bindings EXCEPT ![f][0] = "own"]
        BY <1>2, <3>1
      <4> QED BY <1>0, <2>1, <3>1, <4>1 DEF TypeOK
    <3>2. CASE proc[p].mode # "PER_CONNECTION"
      BY <1>0, <1>2, <2>1, <3>2
    <3> QED BY <3>1, <3>2
  <2>4. \A q \in Provider, h \in Family :
          /\ GrantingFor(q, h)' <=> IF q = p THEN h = f ELSE GrantingFor(q, h)
          /\ proc'[q].mode = proc[q].mode
    BY <1>2 DEF GrantingFor, TypeOK
  <2>5. Fresh'
    BY <1>0, <1>2, <2>2, <2>3, <2>4 DEF Families, Fresh, Quiet, TypeOK
  <2>6. Grants'
    <3> SUFFICES ASSUME NEW q \in Provider, NEW h \in Family, GrantingFor(q, h)'
                 PROVE  /\ Quiet(h)' /\ h \notin killed'
                        /\ (proc'[q].mode = "PER_CONNECTION") <=> (bindings'[h][0] = "own")
                        /\ \A r \in Provider : GrantingFor(r, h)' => r = q
      BY DEF Grants
    <3>1. CASE q = p
      BY <2>1, <2>2, <2>3, <2>4, <3>1 DEF Quiet
    <3>2. CASE q # p
      <4>1. GrantingFor(q, h) /\ h # f
        BY <2>1, <2>4, <3>2
      <4> QED BY <1>0, <2>2, <2>3, <2>4, <3>2, <4>1 DEF Families, Grants, Quiet
    <3> QED BY <3>1, <3>2
  <2>7. DeadRows' /\ Chain'
    BY <2>2 DEF Families, DeadRows, Chain
  <2>8. Principals'
    BY <1>0, <2>1, <2>2, <2>3 DEF Families, Principals, Quiet
  <2> QED BY <2>5, <2>6, <2>7, <2>8 DEF Families
<1> QED BY <1>1, <1>2 DEF Exchange, exchange, establishConnection, provision

\* The grant's tokens appear in a family that had none.
LEMMA PersistStep ==
  ASSUME TypeOK, Families, NEW p \in Provider, NEW ttl \in RefreshTTLs, PersistGrant(p, ttl)
  PROVE  Families'
<1> DEFINE f == proc[p].family
           principal == IF proc[p].mode = "PER_CONNECTION" THEN "own" ELSE "operator"
<1>0. 0 \in Generation /\ f \in Family /\ proc[p] # Down
  BY BoundsAssumption, ProcShape DEF Generation, PersistGrant
<1>1. GrantingFor(p, f)
  BY DEF PersistGrant, GrantingFor
<1>2. /\ Quiet(f) /\ f \notin killed
      /\ (proc[p].mode = "PER_CONNECTION") <=> (bindings[f][0] = "own")
      /\ \A q \in Provider : GrantingFor(q, f) => q = p
      /\ origin[f] # None
  BY <1>0, <1>1 DEF Families, Grants, Fresh
<1>3. /\ access'[f][0] = NewAccess(principal, now + AccessTTL)
      /\ refresh'[f][0] = NewRefresh(principal, now + ttl)
      /\ \A h \in Family, k \in Generation :
           h # f \/ k # 0 => access'[h][k] = access[h][k] /\ refresh'[h][k] = refresh[h][k]
  BY <1>0 DEF PersistGrant, TypeOK
<1>4. UNCHANGED <<bindings, origin, killed>>
  BY DEF PersistGrant, contextVars
<1>5. \A q \in Provider, h \in Family :
        GrantingFor(q, h)' => q # p /\ h # f /\ GrantingFor(q, h) /\ proc'[q].mode = proc[q].mode
  BY <1>2 DEF PersistGrant, Finish, GrantingFor, TypeOK
<1>6. /\ access'[f][0].principal = principal /\ refresh'[f][0].principal = principal
      /\ principal = "own" <=> bindings[f][0] = "own"
  <2>1. access'[f][0].principal = principal /\ refresh'[f][0].principal = principal
    BY <1>3 DEF NewAccess, NewRefresh
  <2>2. principal = "own" <=> bindings[f][0] = "own"
    BY <1>2
  <2> QED BY <2>1, <2>2
<1>7. \A h \in Family, k \in Generation :
        h # f \/ k # 0 => access'[h][k] = access[h][k] /\ refresh'[h][k] = refresh[h][k]
  BY <1>3
<1>8. /\ \A k \in Generation : refresh[f][k] = None
      /\ f \notin killed /\ f \in Family /\ origin[f] # None
  BY <1>0, <1>2 DEF Quiet
<1> HIDE DEF f, principal
<1>9. Fresh' /\ Grants'
  <2>1. \A h \in Family : h # f /\ Quiet(h) => Quiet(h)'
    BY <1>7 DEF Quiet
  <2>2. Fresh'
    <3> SUFFICES ASSUME NEW h \in Family, origin[h] = None
                 PROVE  /\ Quiet(h)' /\ h \notin killed
                        /\ \A g \in Generation : bindings[h][g] = "none"
                        /\ \A q \in Provider : ~GrantingFor(q, h)'
      BY <1>4 DEF Fresh
    <3>1. /\ Quiet(h) /\ h \notin killed
          /\ \A g \in Generation : bindings[h][g] = "none"
          /\ \A q \in Provider : ~GrantingFor(q, h)
      BY DEF Families, Fresh
    <3>2. h # f
      BY <1>8
    <3> QED BY <1>5, <2>1, <3>1, <3>2, Zenon
  <2>3. Grants'
    BY <1>4, <1>5, <2>1 DEF Families, Grants
  <2> QED BY <2>2, <2>3
<1>10. DeadRows'
  <2> SUFFICES ASSUME NEW h \in killed, NEW k \in Generation
               PROVE  /\ access'[h][k] # None => access'[h][k].revoked
                      /\ refresh'[h][k] # None => refresh'[h][k].revoked
    BY <1>4 DEF DeadRows
  <2>1. h # f /\ h \in Family
    BY <1>8 DEF TypeOK
  <2> QED BY <1>7, <2>1 DEF Families, DeadRows
<1>11. Chain'
  <2> SUFFICES ASSUME NEW h \in Family, NEW k \in Generation, NEW j \in Generation,
                      refresh'[h][k] # None, j < k
               PROVE  /\ refresh'[h][j] # None /\ refresh'[h][j].consumed
                      /\ refresh'[h][k].expires <= refresh'[h][j].expires
    BY DEF Chain
  <2>1. k # 0
    BY BoundsAssumption DEF Generation
  <2>2. h # f
    BY <1>7, <1>8, <2>1
  <2> QED BY <1>7, <2>2 DEF Families, Chain
<1>12. Principals'
  <2> SUFFICES ASSUME NEW h \in Family, NEW k \in Generation
               PROVE  /\ access'[h][k] # None => (access'[h][k].principal = "own" <=> bindings[h][0] = "own")
                      /\ refresh'[h][k] # None => (refresh'[h][k].principal = "own" <=> bindings[h][0] = "own")
                      /\ bindings[h][0] = "own" => bindings[h][k] # "legacy"
    BY <1>4 DEF Principals
  <2>1. CASE h = f /\ k = 0
    BY <1>6, <2>1 DEF Families, Principals
  <2>2. CASE h # f \/ k # 0
    BY <1>7, <2>2 DEF Families, Principals
  <2> QED BY <2>1, <2>2
<1> QED BY <1>9, <1>10, <1>11, <1>12 DEF Families

\* Pinning binds the operator's tokens, and an own family has none of those.
LEMMA PinBindStep ==
  ASSUME TypeOK, Families, NEW p \in Provider, PinBind(p)
  PROVE  Families'
<1>0. 0 \in Generation
  BY BoundsAssumption DEF Generation
<1>1. UNCHANGED <<access, refresh, killed, origin>>
  BY DEF PinBind, tokenVars
<1>2. NoNewGrant
  BY DEF NoNewGrant, GrantingFor, PinBind, Finish, TypeOK
<1>3. \A f \in Family, g \in Generation :
        /\ bindings'[f][g] = bindings[f][g] \/ (bindings'[f][g] = "legacy" /\ bindings[f][g] = "none")
        /\ bindings'[f][g] # bindings[f][g] => access[f][g] # None /\ access[f][g].principal # "own"
  BY DEF PinBind, Pinned, Unbound
<1>4. \A f \in Family : bindings'[f][0] = "own" <=> bindings[f][0] = "own"
  BY <1>0, <1>3
<1>5. Fresh' /\ Grants'
  <2>1. \A f \in Family : Quiet(f)' <=> Quiet(f)
    BY <1>1 DEF Quiet
  <2>2. \A f \in Family, g \in Generation :
          Quiet(f) /\ bindings[f][g] = "none" => bindings'[f][g] = "none"
    BY <1>3 DEF Quiet
  <2>3. Fresh'
    BY <1>1, <1>2, <2>1, <2>2 DEF Families, Fresh, NoNewGrant
  <2>4. Grants'
    BY <1>1, <1>2, <1>4, <2>1 DEF Families, Grants, NoNewGrant
  <2> QED BY <2>3, <2>4
<1>6. DeadRows' /\ Chain'
  BY <1>1 DEF Families, DeadRows, Chain
<1>7. Principals'
  BY <1>1, <1>3, <1>4, SMTT(30) DEF Families, Principals
<1> QED BY <1>5, <1>6, <1>7 DEF Families

\* Every step keeps what is known about the families.
LEMMA FamiliesStep ==
  ASSUME TypeOK, Families, [Next]_vars
  PROVE  Families'
<1>1. ASSUME UNCHANGED <<access, refresh, killed, bindings, origin>>, NoNewGrant PROVE Families'
  BY <1>1, StillStep
<1>2. ASSUME UNCHANGED proc PROVE NoNewGrant
  BY <1>2 DEF NoNewGrant, GrantingFor
<1>3. ASSUME NEW p \in Provider, NEW v, v.pc # "granting", proc' = [proc EXCEPT ![p] = v] PROVE NoNewGrant
  BY <1>3 DEF NoNewGrant, GrantingFor, TypeOK
<1>4. CASE UNCHANGED vars \/ Tick
  BY <1>1, <1>2, <1>4 DEF vars, Tick, tokenVars, contextVars
<1>5. ASSUME NEW p \in Provider, NEW c \in Code, IssueCode(p, c) PROVE Families'
  BY <1>1, <1>2, <1>5, CleanStep DEF IssueCode, issueCode, tokenVars, contextVars
<1>6. ASSUME NEW p \in Provider, NEW f \in Family, NEW g \in Generation,
             ReplayRefresh(p, f, g) \/ RevokeOAuthAccess(p, f, g)
      PROVE  Families'
  <2>1. ~Quiet(f)
    BY <1>6 DEF ReplayRefresh, RevokeOAuthAccess, Quiet
  <2> QED BY <1>6, <2>1, KillStep DEF ReplayRefresh, RevokeOAuthAccess, contextVars
<1>7. ASSUME NEW p \in Provider, Cleanup(p) PROVE Families'
  BY <1>7, CleanStep DEF Cleanup, contextVars
<1>8. ASSUME NEW p \in Provider, GrantFails(p) PROVE Families'
  <2>1. NoNewGrant
    BY <1>8 DEF NoNewGrant, GrantingFor, GrantFails, Finish, TypeOK
  <2> QED BY <1>1, <1>8, <2>1 DEF GrantFails, tokenVars, contextVars
<1>9. ASSUME NEW p \in Provider, NEW m, NEW t, Pin(p, m, t) PROVE NoNewGrant
  BY <1>9, SMTT(30) DEF NoNewGrant, GrantingFor, Pin, TypeOK
<1>10. ASSUME NEW p \in Provider, NEW f \in Family, NEW g \in Generation, Request(p, f, g) PROVE Families'
  BY <1>1, <1>9, <1>10, Zenon DEF Request, tokenVars, contextVars
<1>11. ASSUME NEW p \in Provider, PinRegistry(p) \/ PinGrant(p) PROVE Families'
  <2>1. proc[p] \in Pinning
    BY <1>11, ProcShape DEF PinRegistry, PinGrant
  <2>2. ASSUME NEW pc, pc # "granting", Enter(p, pc) PROVE NoNewGrant
    <3>1. [proc[p] EXCEPT !.pc = pc].pc = pc
      BY <2>1 DEF Pinning
    <3>2. proc' = [proc EXCEPT ![p] = [proc[p] EXCEPT !.pc = pc]]
      BY <2>2 DEF Enter
    <3> QED BY <1>3, <2>2, <3>1, <3>2, Zenon
  <2>3. ASSUME Fail(p) PROVE NoNewGrant
    <3>1. CASE proc[p].token = None
      <4>1. proc' = [proc EXCEPT ![p] = Down] /\ Down.pc # "granting"
        BY <2>3, <3>1 DEF Fail, Down
      <4> QED BY <1>3, <4>1, Zenon
    <3>2. CASE proc[p].token # None
      <4>1. proc' = [proc EXCEPT ![p] = [pc |-> "ready", mode |-> proc[p].mode]]
        BY <2>3, <3>2 DEF Fail
      <4> QED BY <1>3, <4>1, Zenon
    <3> QED BY <3>1, <3>2
  <2>4. NoNewGrant
    BY <1>11, <2>2, <2>3 DEF PinRegistry, PinGrant
  <2> QED BY <1>1, <1>11, <2>4 DEF PinRegistry, PinGrant, tokenVars
<1>12. ASSUME NEW p \in Provider, NEW m \in Mode, Start(p, m) PROVE Families'
  <2>1. CASE m = "OFF"
    <3>1. proc' = [proc EXCEPT ![p] = [pc |-> "ready", mode |-> m]]
      BY <1>12, <2>1 DEF Start
    <3> QED BY <1>3, <3>1, <1>1, <1>12, Zenon DEF Start, tokenVars, contextVars
  <2>2. CASE m # "OFF"
    BY <1>1, <1>9, <1>12, <2>2 DEF Start, tokenVars, contextVars
  <2> QED BY <2>1, <2>2
<1>13. ASSUME NEW p \in Provider, Crash(p) PROVE Families'
  <2>1. NoNewGrant
    BY <1>13 DEF NoNewGrant, GrantingFor, Crash, Down, TypeOK
  <2> QED BY <1>1, <1>13, <2>1 DEF Crash, tokenVars, contextVars
<1> QED
  BY <1>4, <1>5, <1>6, <1>7, <1>8, <1>10, <1>11, <1>12, <1>13, ExchangeStep, PersistStep, RotateStep, PinBindStep, Zenon
  DEF Next, ProviderStep, ResolutionStep, ProcessStep, StartupPin, Admit, Refuse

-----------------------------------------------------------------------------
(* Theorems *)

\* IInv is an invariant: what is known about types, codes and families, together.
THEOREM Invariance == Spec => []IInv
<1>1. Init => IInv
  <2> SUFFICES ASSUME Init PROVE IInv
    OBVIOUS
  <2>1. TypeOK
    BY BoundsAssumption DEF Init, TypeOK, CodeRecord
  <2>2. Codes /\ Families
    BY DEF Init, Codes, CodeSingleUse, OriginsSpent, Families, Fresh, Quiet, GrantingFor, Down, Grants, DeadRows,
           Chain, Principals
  <2> QED BY <2>1, <2>2 DEF IInv
<1>2. IInv /\ [Next]_vars => IInv'
  BY TypeStep, CodesStep, FamiliesStep DEF IInv
<1> QED BY <1>1, <1>2, PTL DEF Spec

\* Codes, token rows, bindings and every provider keep their types.
THEOREM TypeCorrect == Spec => []TypeOK
<1>1. IInv => TypeOK
  BY DEF IInv
<1> QED BY <1>1, Invariance, PTL

\* A code is exchanged for at most one token family.
THEOREM CodeSingleUseTheorem == Spec => []CodeSingleUse
<1>1. IInv => CodeSingleUse
  BY DEF IInv, Codes
<1> QED BY <1>1, Invariance, PTL

\* A revoked family stays dead, whatever cleanup forgets.
THEOREM KilledFamilyStaysDeadTheorem == Spec => []KilledFamilyStaysDead
<1>1. IInv => KilledFamilyStaysDead
  BY DEF IInv, Families, DeadRows, KilledFamilyStaysDead, Valid, CanRotate
<1> QED BY <1>1, Invariance, PTL

\* At most one refresh token of a family can rotate.
THEOREM OneLiveRefreshTheorem == Spec => []OneLiveRefresh
<1>1. IInv => OneLiveRefresh
  BY BoundsAssumption DEF IInv, Families, Chain, OneLiveRefresh, CanRotate, Generation
<1> QED BY <1>1, Invariance, PTL

\* The consumed predecessors of a live refresh token are still stored.
THEOREM ReplayStaysDetectableTheorem == Spec => []ReplayStaysDetectable
<1>1. IInv => ReplayStaysDetectable
  BY DEF IInv, Families, Chain, ReplayStaysDetectable, CanRotate
<1> QED BY <1>1, Invariance, PTL

\* No token granted under enforcement ever joins the legacy Context.
THEOREM NewConnectionNeverLegacyTheorem == Spec => []NewConnectionNeverLegacy
<1>1. IInv => NewConnectionNeverLegacy
  BY DEF IInv, Families, Principals, NewConnectionNeverLegacy
<1> QED BY <1>1, Invariance, PTL

-----------------------------------------------------------------------------
(* The tool gateway. *)


Before == {"start", "waiting", "executor", "gateway", "authorized", "verified", "running"}
After == {"ran", "logged", "answered", "done"}

\* Nothing has come of a call before its handler has run.
Pending == gate \in Before => result = "none" /\ thrown = "none" /\ effect = FALSE /\ step = "none"

\* What the operation policy has excluded, wherever the directory is by now.
Classified ==
  /\ policy \in {"allowed", "approval_required"}
  /\ req.elevation = "true" => Unrestricted /\ policy = "approval_required"
  /\ req.tool = "remove_workspace_root" => policy = "approval_required"
  /\ req.tool = "execute_command" /\ evaluateCommandPermission(req.command) # "allow" =>
       policy = "approval_required"

\* What the gateway has established by the time a call has got so far.
Passed ==
  /\ gate \in {"authorized", "verified", "running"} =>
       /\ ~Unentitled /\ Classified
       /\ Unrestricted \/ (req.tool \in NeedsRoot => Root)
  /\ gate \in {"verified", "running"} =>
       \/ approval = "claimed" /\ Fingerprintable
       \/ approval = "none" /\ req.tool \notin ApprovalAlways /\ policy = "allowed"

\* An approval is claimed on the way to the handler and by nobody else.
Claims ==
  approval = "claimed" =>
    gate \in {"verified", "running"} \cup After /\ result \notin {"blocked", "approval_required"}

\* The answer and the error agree.
Outcome ==
  /\ thrown \in Errors \cup {"ok", "none"}
  /\ thrown = "ok" <=> result = "succeeded"
  /\ thrown \in Errors => result = "failed"
  /\ gate \in {"ran", "logged"} => thrown # "none"

\* An effect is a thing of the past when the records are written.
Worked == effect \in BOOLEAN /\ (effect => gate \in After) /\ EffectEntitled

\* The loop's verdict on a call.
Settled ==
  /\ gate # "done" => step = "none"
  /\ OnlyTransientRetried
  /\ gate = "done" /\ thrown = "ok" => step \in {"completed", "answered"}

\* A lost record marks the success.
Marked == faults \in Nat /\ (thrown = "ok" /\ faults > 0 => degraded) /\ (gate \in Before => faults = 0)

GatewayInv == Pending /\ Passed /\ Claims /\ Outcome /\ Worked /\ Settled /\ Marked
-----------------------------------------------------------------------------
(* The catalogue. *)

\* An elevated file operation needs a workspace for its fingerprint.
LEMMA ElevatedNeedsRoot == UNRESTRICTED_FILE_OPERATIONS \cap PoolTools = {}
BY DEF UNRESTRICTED_FILE_OPERATIONS, FileReads, PoolTools

\* The two tools whose approval depends on the policy are no control tools.
LEMMA PolicyTools ==
  /\ "execute_command" \notin CONTROL_TOOL_NAMES /\ "remove_workspace_root" \notin CONTROL_TOOL_NAMES
  /\ "remove_workspace_root" \in APPROVAL_TOOLS /\ "remove_workspace_root" # "execute_command"
BY DEF CONTROL_TOOL_NAMES, TaskControl, RecordReads, RecordWrites, TaskReads, TaskRuns, APPROVAL_TOOLS

\* The service behind these tools asks the policy decision point.
LEMMA GuardedTool == "execute_command" \in TOOL_NAMES \ (InfoTools \cup {"exec", "set_workspace", "task_snapshot"})
BY DEF TOOL_NAMES, InfoTools

\* evaluate never allows these.
LEMMA EvaluateGates ==
  /\ evaluate \in {"allow", "approval_required", "blocked"}
  /\ req.tool = "remove_workspace_root" => evaluate # "allow"
  /\ req.tool = "execute_command" /\ evaluateCommandPermission(req.command) # "allow" => evaluate # "allow"
  /\ req.tool = "execute_command" /\ Outside => evaluate # "allow"
  /\ req.tool = "execute_command" /\ evaluateCommandPermission(req.command) = "blocked" /\ ~Outside =>
       evaluate = "blocked"
<1>1. evaluateCommandPermission(req.command) \in {"allow", "approval_required", "blocked"}
  BY DEF evaluateCommandPermission
<1> QED BY <1>1, PolicyTools DEF evaluate

\* What the operation policy has excluded, at the time it is asked.
LEMMA ClassifyGates ==
  ASSUME classify # "blocked", policy' = classify, UNCHANGED req
  PROVE  Classified'
<1> DEFINE c == classify
<1>1. ~hasInvalidUnrestrictedArgument /\ ~(req.elevation = "true" /\ ~Unrestricted)
  BY DEF classify
<1>2. CASE Unrestricted
  <2>1. classify = "approval_required"
    BY <1>1, <1>2 DEF classify
  <2> QED BY <1>2, <2>1 DEF Classified, Unrestricted, IsTask, requestsUnrestrictedEffect
<1>3. CASE ~Unrestricted
  <2>1. req.elevation # "true"
    BY <1>1, <1>3
  <2>2. classify = IF req.tool \in CONTROL_TOOL_NAMES \/ evaluate = "allow" THEN "allowed" ELSE evaluate
    BY <1>3, Zenon DEF classify
  <2>3. classify \in {"allowed", "approval_required"}
    BY <2>2, EvaluateGates
  <2>4. /\ req.tool = "remove_workspace_root" => classify = "approval_required"
        /\ req.tool = "execute_command" /\ evaluateCommandPermission(req.command) # "allow" =>
             classify = "approval_required"
    BY <2>2, EvaluateGates, PolicyTools
  <2> QED BY <2>1, <2>3, <2>4 DEF Classified
<1> QED BY <1>2, <1>3

-----------------------------------------------------------------------------
(* The steps. *)

\* The facts about a call are facts about its request, the level and the policy.
LEMMA Stable ==
  ASSUME UNCHANGED req
  PROVE  /\ Unrestricted' <=> Unrestricted
         /\ Root' <=> Root
         /\ Fingerprintable' <=> Fingerprintable
         /\ level' = level => (Unentitled' <=> Unentitled)
         /\ policy' = policy => (Classified' <=> Classified)
         /\ where' = where => (Outside' <=> Outside) /\ (NeedsClaim' <=> NeedsClaim)
         /\ IsTask' <=> IsTask
<1>1. (Unrestricted' <=> Unrestricted) /\ (Root' <=> Root) /\ (IsTask' <=> IsTask)
  BY DEF Unrestricted, requestsUnrestrictedEffect, Root, IsTask
<1>2. (Fingerprintable' <=> Fingerprintable)
  BY <1>1 DEF Fingerprintable
<1>3. level' = level => (Unentitled' <=> Unentitled)
  BY <1>1 DEF Unentitled, Permitted
<1>4. policy' = policy => (Classified' <=> Classified)
  BY <1>1 DEF Classified
<1>5. where' = where => (Outside' <=> Outside) /\ (NeedsClaim' <=> NeedsClaim)
  BY <1>1 DEF Outside, NeedsClaim
<1> QED BY <1>1, <1>2, <1>3, <1>4, <1>5

\* A step of a call whose handler has not run, which only moves it on before the
\* handler, or answers it without one.
LEMMA EarlyKeeps ==
  ASSUME GatewayInv, gate \in Before, gate' \in Before \cup {"answered", "done"},
         UNCHANGED <<req, thrown, effect, degraded, faults>>,
         gate' \in Before => result' = result /\ step' = step,
         result' # "succeeded", gate' # "done" => step' = step, step' # "retry",
         Passed', Claims'
  PROVE  GatewayInv'
<1> USE DEF GatewayInv
<1>0. result = "none" /\ thrown = "none" /\ effect = FALSE /\ step = "none"
  BY DEF Pending
<1>1. Pending'
  BY <1>0 DEF Pending, Before
<1>2. Outcome'
  BY <1>0 DEF Outcome, Before, Errors, Refusals
<1>3. Worked'
  BY <1>0 DEF Worked, EffectEntitled
<1>4. Settled'
  BY <1>0 DEF Settled, OnlyTransientRetried
<1>5. Marked'
  BY <1>0 DEF Marked, Before
<1> QED BY <1>1, <1>2, <1>3, <1>4, <1>5

\* The loop governs a step, resumes it, or finds that it cannot run.
LEMMA LoopKeeps == ASSUME GatewayInv, govern \/ resume \/ cannotRun \/ localExecutor PROVE GatewayInv'
<1> USE DEF GatewayInv
<1>0. gate \in {"start", "waiting", "executor"} /\ result = "none" /\ step = "none"
  BY Zenon DEF govern, resume, cannotRun, localExecutor, Pending, Before
<1>1. approval # "claimed"
  BY <1>0 DEF Claims, After
<1>2. /\ UNCHANGED <<req, thrown, effect, degraded, faults>>
      /\ gate' \in {"waiting", "done", "executor", "answered", "gateway"} /\ approval' # "claimed"
      /\ gate' # "done" => step' = step
      /\ gate' \in {"waiting", "executor", "gateway"} => result' = result
      /\ result' \in {"none", "failed"} /\ step' \in {"none", "blocked"}
  <2>1. CASE govern
    <3>1. \/ gate' = "waiting" /\ UNCHANGED step /\ approval' \in {"pending", "unbound"}
          \/ gate' = "done" /\ step' = "blocked" /\ UNCHANGED approval
          \/ gate' = "executor" /\ UNCHANGED <<step, approval>>
      <4>1. stepDecision \in {"approval_required", "blocked", "allow"}
        BY EvaluateGates DEF stepDecision, checkStepGovernance
      <4> QED BY <2>1, <4>1, Zenon DEF govern
    <3>2. UNCHANGED <<req, thrown, effect, degraded, faults, result>>
      BY <2>1 DEF govern
    <3> QED BY <1>0, <1>1, <3>1, <3>2
  <2>2. CASE resume
    BY <1>0, <1>1, <2>2 DEF resume
  <2>3. CASE cannotRun
    BY <1>0, <1>1, <2>3 DEF cannotRun
  <2>4. CASE localExecutor
    BY <1>0, <1>1, <2>4 DEF localExecutor
  <2> QED BY <2>1, <2>2, <2>3, <2>4
<1>3. Passed' /\ Claims'
  BY <1>2 DEF Passed, Claims
<1> QED BY <1>0, <1>2, <1>3, EarlyKeeps DEF Before

\* The gateway's first decision and the operation policy.
LEMMA AuthorizeKeeps == ASSUME GatewayInv, authorize PROVE GatewayInv'
<1> USE DEF GatewayInv
<1>0. gate = "gateway" /\ result = "none" /\ step = "none"
  BY DEF authorize, Pending, Before
<1>1. approval' # "claimed" /\ UNCHANGED <<req, level, thrown, effect, degraded, faults, step>>
  BY <1>0 DEF authorize, Claims, After
<1>2. \/ gate' = "answered" /\ result' = "blocked"
      \/ gate' = "authorized" /\ UNCHANGED result /\ decide("none", FALSE) # "blocked" /\ classify # "blocked"
  BY Zenon DEF authorize, Deny
<1>3. ASSUME gate' = "authorized" PROVE Passed'
  <2>1. decide("none", FALSE) # "blocked" /\ classify # "blocked" /\ policy' = classify
    BY <1>2, <1>3, Zenon DEF authorize
  <2>2. ~Unentitled /\ (Unrestricted \/ (req.tool \in NeedsRoot => Root))
    BY <2>1 DEF decide
  <2>3. Classified'
    BY <1>1, <2>1, ClassifyGates
  <2> QED BY <1>1, <1>3, <2>2, <2>3, Stable DEF Passed
<1>4. Passed' /\ Claims'
  BY <1>1, <1>2, <1>3, Zenon DEF Passed, Claims
<1> QED BY <1>0, <1>1, <1>2, <1>4, EarlyKeeps, Zenon DEF Before

\* The approval is claimed, or the call needs none, or it is refused.
LEMMA ApprovalKeeps == ASSUME GatewayInv, verifyApproval \/ needNoApproval PROVE GatewayInv'
<1> USE DEF GatewayInv
<1>0. gate = "authorized" /\ result = "none" /\ step = "none" /\ approval # "claimed"
  BY DEF verifyApproval, needNoApproval, Pending, Before
<1>1. UNCHANGED <<req, level, policy, thrown, effect, degraded, faults, step>>
  BY DEF verifyApproval, needNoApproval
<1>2. \/ gate' = "answered" /\ result' \in {"blocked", "approval_required"} /\ UNCHANGED approval
      \/ gate' = "verified" /\ UNCHANGED result /\ approval' = "claimed" /\ Fingerprintable
      \/ /\ gate' = "verified" /\ UNCHANGED result /\ approval' = "none"
         /\ req.tool \notin ApprovalAlways /\ policy # "approval_required"
  BY DEF verifyApproval, needNoApproval, Deny, verify
<1>3. ~Unentitled /\ Classified /\ (Unrestricted \/ (req.tool \in NeedsRoot => Root))
  BY <1>0 DEF Passed
<1>4. policy \in {"allowed", "approval_required"}
  BY <1>3 DEF Classified
<1>5. Passed'
  BY <1>1, <1>2, <1>3, <1>4, Stable DEF Passed
<1>6. Claims'
  BY <1>0, <1>2 DEF Claims
<1> QED BY <1>0, <1>1, <1>2, <1>5, <1>6, EarlyKeeps DEF Before

\* A claimed approval meets no refusal any more.
LEMMA FinalAllows ==
  ASSUME GatewayInv, gate = "verified", approval = "claimed"
  PROVE  decide(policy, approval = "claimed") = "allowed"
<1> USE DEF GatewayInv
<1>1. ~Unentitled /\ Fingerprintable /\ (Unrestricted \/ (req.tool \in NeedsRoot => Root))
  BY DEF Passed
<1>2. Unrestricted => Root
  BY <1>1, ElevatedNeedsRoot DEF Fingerprintable, Unrestricted, requestsUnrestrictedEffect
<1> QED BY <1>1, <1>2 DEF decide

\* The second decision.
LEMMA FinalKeeps == ASSUME GatewayInv, finalDecision PROVE GatewayInv'
<1> USE DEF GatewayInv
<1>0. gate = "verified" /\ result = "none" /\ step = "none"
  BY DEF finalDecision, Pending, Before
<1>1. UNCHANGED <<req, level, policy, approval, thrown, effect, degraded, faults, step>>
  BY DEF finalDecision
<1>2. decide(policy, approval = "claimed") \in {"allowed", "blocked", "approval_required"}
  BY DEF decide
<1>3. \/ gate' = "running" /\ UNCHANGED result /\ decide(policy, approval = "claimed") = "allowed"
      \/ gate' = "answered" /\ result' \in {"blocked", "approval_required"}
         /\ decide(policy, approval = "claimed") # "allowed"
  BY <1>2 DEF finalDecision, Deny
<1>4. Passed'
  BY <1>0, <1>1, <1>3, Stable DEF Passed
<1>5. Claims'
  BY <1>0, <1>1, <1>3, FinalAllows DEF Claims
<1> QED BY <1>0, <1>1, <1>3, <1>4, <1>5, EarlyKeeps DEF Before

\* A handler that has an effect passed the gate of its service.
LEMMA HandlerEntitled ==
  ASSUME GatewayInv, gate = "running", ~ServiceRefuses
  PROVE  /\ ~Unentitled
         /\ req.tool \in NeedsRoot => Root
         /\ NeedsClaim => approval = "claimed"
         /\ req.tool = "execute_command" /\ evaluateCommandPermission(req.command) = "blocked" => Outside
<1> USE DEF GatewayInv
<1>1. ~Unentitled /\ Classified /\ (req.tool \in NeedsRoot => Root)
  BY DEF Passed, ServiceRefuses
<1>2. req.tool = "execute_command" => assertAllowed
  BY GuardedTool DEF ServiceRefuses
<1>3. ASSUME NeedsClaim, approval # "claimed" PROVE FALSE
  <2>1. req.tool \notin ApprovalAlways /\ policy = "allowed"
    BY <1>3 DEF Passed
  <2>2. /\ req.elevation # "true" /\ req.tool # "remove_workspace_root"
        /\ req.tool = "execute_command" => evaluateCommandPermission(req.command) = "allow"
    BY <1>1, <2>1 DEF Classified
  <2>3. req.tool = "execute_command" /\ where = "outside"
    BY <1>3, <2>1, <2>2 DEF NeedsClaim
  <2>4. Outside
    BY <2>3 DEF Outside
  <2>5. evaluate # "allow" /\ ~isDirectApprovalBypassEnabled
    BY <2>3, <2>4, EvaluateGates DEF isDirectApprovalBypassEnabled
  <2> QED BY <1>2, <1>3, <2>3, <2>5 DEF assertAllowed
<1>4. ASSUME req.tool = "execute_command", evaluateCommandPermission(req.command) = "blocked", ~Outside
      PROVE  FALSE
  <2>1. evaluate = "blocked"
    BY <1>4, EvaluateGates
  <2> QED BY <1>2, <1>4, <2>1 DEF assertAllowed
<1> QED BY <1>1, <1>3, <1>4

\* The handler refuses, fails, or works.
LEMMA HandlerKeeps == ASSUME GatewayInv, runHandler PROVE GatewayInv'
<1> USE DEF GatewayInv
<1>0. gate = "running" /\ gate' = "ran" /\ result = "none" /\ step = "none" /\ effect = FALSE /\ faults = 0
  BY DEF runHandler, Pending, Marked, Before
<1>1. UNCHANGED <<req, level, where, policy, approval, degraded, faults, step>>
  BY DEF runHandler
<1>2. /\ \/ thrown' \in Errors /\ result' = "failed"
         \/ thrown' = "ok" /\ result' = "succeeded"
      /\ effect' \in BOOLEAN /\ (effect' => ~ServiceRefuses)
  <2>1. CASE ServiceRefuses
    BY <1>0, <2>1, Zenon DEF runHandler, Errors
  <2>2. CASE ~ServiceRefuses
    <3>1. \/ thrown' = "ok" /\ effect' = TRUE /\ result' = "succeeded"
          \/ thrown' \in Errors \ Refusals /\ result' = "failed" /\ effect' \in BOOLEAN
      BY <2>2, Zenon DEF runHandler
    <3> QED BY <2>2, <3>1, Zenon
  <2> QED BY <2>1, <2>2
<1>3. Pending' /\ Passed'
  BY <1>0 DEF Pending, Passed, Before
<1>4. Claims'
  BY <1>0, <1>2 DEF Claims, After
<1>5. Outcome'
  BY <1>0, <1>2 DEF Outcome, Errors, Refusals
<1>6. EffectEntitled'
  BY <1>0, <1>1, <1>2, HandlerEntitled, Stable DEF EffectEntitled
<1>7. Worked'
  BY <1>0, <1>2, <1>6 DEF Worked, After
<1>8. Settled'
  BY <1>0, <1>1 DEF Settled, OnlyTransientRetried
<1>9. Marked'
  BY <1>0, <1>1 DEF Marked, Before
<1> QED BY <1>3, <1>4, <1>5, <1>7, <1>8, <1>9

\* The records are written, or marked as lost.
LEMMA RecordKeeps == ASSUME GatewayInv, recordSecurityEvent \/ recordAudit PROVE GatewayInv'
<1> USE DEF GatewayInv
<1>0. gate \in {"ran", "logged"} /\ gate' \in {"logged", "answered"} /\ step = "none"
      /\ (gate' = "logged" => gate = "ran")
  BY DEF recordSecurityEvent, recordAudit, Settled
<1>1. UNCHANGED <<req, level, where, policy, approval, thrown, effect, result, step>>
  BY DEF recordSecurityEvent, recordAudit
<1>2. \/ UNCHANGED <<degraded, faults>>
      \/ faults' = faults + 1 /\ (result = "succeeded" => degraded' = TRUE)
  BY Zenon DEF recordSecurityEvent, recordAudit
<1>3. Pending' /\ Passed'
  BY <1>0 DEF Pending, Passed, Before
<1>4. Claims'
  BY <1>0, <1>1 DEF Claims, After
<1>5. Outcome'
  BY <1>0, <1>1 DEF Outcome
<1>6. EffectEntitled'
  BY <1>1, Stable DEF Worked, EffectEntitled
<1>7. Worked'
  BY <1>0, <1>1, <1>6 DEF Worked, After
<1>8. Settled'
  BY <1>0, <1>1 DEF Settled, OnlyTransientRetried
<1>9. Marked'
  BY <1>0, <1>1, <1>2 DEF Marked, Before, Outcome
<1> QED BY <1>3, <1>4, <1>5, <1>7, <1>8, <1>9

\* The error that reaches the loop is the handler's, through two translations.
LEMMA MessageTells ==
  ASSUME Outcome, result # "succeeded"
  PROVE  /\ thrown \in {"coded_timeout", "timed_out"} => classifyError(Message) = "TIMEOUT"
         /\ isTransientError(Message) => thrown \in {"coded_timeout", "timed_out", "network"}
<1>1. CASE thrown \in Errors
  <2>1. Message = classifyHandlerFailure(thrown)
    BY <1>1 DEF Outcome, Message
  <2>2. thrown \in {"coded_timeout", "timed_out"} => classifyHandlerFailure(thrown) = "timeout"
    BY DEF classifyHandlerFailure
  <2>3. thrown \notin {"coded_timeout", "timed_out", "network"} =>
          classifyHandlerFailure(thrown) \notin {"timeout", "network"}
    BY DEF classifyHandlerFailure
  <2> QED BY <2>1, <2>2, <2>3, Zenon DEF classifyError, isTransientError
<1>2. CASE thrown \notin Errors
  <2>1. Message \in {"Approval required", "invalid", "refused"}
    BY <1>2 DEF Message
  <2>2. thrown \notin {"coded_timeout", "timed_out"}
    BY <1>2 DEF Errors
  <2> QED BY <2>1, <2>2, Zenon DEF classifyError, isTransientError
<1> QED BY <1>1, <1>2

\* The loop records its verdict.
LEMMA SettleKeeps == ASSUME GatewayInv, settle PROVE GatewayInv'
<1> USE DEF GatewayInv
<1>0. gate = "answered" /\ gate' = "done" /\ step = "none"
  BY DEF settle, Settled
<1>1. UNCHANGED <<req, level, where, policy, approval, thrown, effect, result, degraded, faults>>
  BY DEF settle
<1>2. /\ result = "succeeded" => step' \in {"completed", "answered"}
      /\ result # "succeeded" /\ IsTask /\ classifyError(Message) = "TIMEOUT" /\ Mutating(req.tool) =>
           step' = "outcome_unknown"
      /\ step' = "retry" => result # "succeeded" /\ isTransientError(Message)
  BY DEF settle
<1>3. Pending' /\ Passed'
  BY <1>0 DEF Pending, Passed, Before
<1>4. Claims'
  BY <1>0, <1>1 DEF Claims, After
<1>5. Outcome'
  BY <1>0, <1>1 DEF Outcome
<1>6. EffectEntitled'
  BY <1>1, Stable DEF Worked, EffectEntitled
<1>7. Worked'
  BY <1>0, <1>1, <1>6 DEF Worked, After
<1>8. thrown \in {"coded_timeout", "timed_out"} => result # "succeeded"
  BY DEF Outcome
<1>9. OnlyTransientRetried'
  BY <1>0, <1>1, <1>2, <1>8, MessageTells, Stable DEF OnlyTransientRetried, Mutating
<1>10. Settled'
  BY <1>0, <1>1, <1>2, <1>9 DEF Settled, Outcome
<1>11. Marked'
  BY <1>0, <1>1 DEF Marked, Before
<1> QED BY <1>3, <1>4, <1>5, <1>7, <1>10, <1>11

\* What others do between the gates.
LEMMA OthersKeep ==
  ASSUME GatewayInv, LevelChanges \/ RootRevoked \/ DirectoryMoves \/ ApprovalExpires
  PROVE  GatewayInv'
<1> USE DEF GatewayInv
<1>1. /\ UNCHANGED <<req, gate, policy, thrown, effect, result, degraded, step, faults>>
      /\ level' # level => gate = "waiting"
      /\ where' # where => gate \notin After
      /\ \/ approval' = approval
         \/ approval \in {"pending", "consumed"} /\ approval' = "expired"
  BY DEF LevelChanges, RootRevoked, DirectoryMoves, ApprovalExpires, After
<1>2. Pending' /\ Outcome' /\ Marked'
  BY <1>1 DEF Pending, Outcome, Marked
<1>3. Settled'
  BY <1>1, Stable DEF Settled, OnlyTransientRetried, Mutating
<1>4. Claims'
  BY <1>1 DEF Claims
<1>5. Passed'
  <2>1. gate \in {"authorized", "verified", "running"} => level' = level
    BY <1>1
  <2>2. gate \in {"verified", "running"} => approval' = approval
    BY <1>1 DEF Passed
  <2> QED BY <1>1, <2>1, <2>2, Stable DEF Passed
<1>6. Worked'
  <2>1. effect => level' = level /\ where' = where
    BY <1>1 DEF Worked, After
  <2>2. effect /\ NeedsClaim => approval = "claimed"
    BY DEF Worked, EffectEntitled
  <2>3. EffectEntitled'
    BY <1>1, <2>1, <2>2, Stable DEF Worked, EffectEntitled
  <2> QED BY <1>1, <2>3 DEF Worked
<1> QED BY <1>2, <1>3, <1>4, <1>5, <1>6
-----------------------------------------------------------------------------
(* The theorems. *)

\* A call that has just come in.
LEMMA InitInv == GatewayInit => GatewayInv
<1> SUFFICES ASSUME GatewayInit PROVE GatewayInv
  OBVIOUS
<1>1. gate \in {"start", "gateway"} /\ result = "none" /\ thrown = "none" /\ effect = FALSE /\ step = "none"
      /\ approval = "none" /\ faults = 0
  BY DEF GatewayInit
<1>2. Pending /\ Passed /\ Claims
  BY <1>1 DEF Pending, Passed, Claims
<1>3. Outcome /\ Worked
  BY <1>1, Zenon DEF Outcome, Worked, Errors, Refusals, EffectEntitled
<1>4. Settled /\ Marked
  BY <1>1 DEF Settled, OnlyTransientRetried, Marked
<1> QED BY <1>2, <1>3, <1>4 DEF GatewayInv

\* Every step keeps the invariant.
LEMMA NextInv == GatewayInv /\ [GatewayNext]_gatewayVars => GatewayInv'
<1> SUFFICES ASSUME GatewayInv, [GatewayNext]_gatewayVars PROVE GatewayInv'
  OBVIOUS
<1>1. CASE GatewayNext
  BY <1>1, LoopKeeps, AuthorizeKeeps, ApprovalKeeps, FinalKeeps, HandlerKeeps, RecordKeeps, SettleKeeps,
     OthersKeep DEF GatewayNext
<1>2. CASE UNCHANGED gatewayVars
  <2>0. UNCHANGED <<req, level, where, gate, approval, policy, thrown, effect, result, degraded, step, faults>>
    BY <1>2 DEF gatewayVars
  <2>1. Pending' /\ Outcome' /\ Marked' /\ Claims'
    BY <2>0 DEF GatewayInv, Pending, Outcome, Marked, Claims
  <2>2. Settled'
    BY <2>0, Stable DEF GatewayInv, Settled, OnlyTransientRetried, Mutating
  <2>3. Passed'
    BY <2>0, Stable DEF GatewayInv, Passed
  <2>4. EffectEntitled'
    BY <2>0, Stable DEF GatewayInv, Worked, EffectEntitled
  <2> QED BY <2>0, <2>1, <2>2, <2>3, <2>4 DEF GatewayInv, Worked
<1> QED BY <1>1, <1>2

\* The invariant, over whole behaviours.
THEOREM GatewayInvariance == GatewaySpec => []GatewayInv
BY InitInv, NextInv, PTL DEF GatewaySpec

\* A tool works only for a caller entitled to it, with the approval it needs, for every
\* call of every tool.
THEOREM EffectEntitledTheorem == GatewaySpec => []EffectEntitled
<1>1. GatewayInv => EffectEntitled
  BY DEF GatewayInv, Worked
<1> QED BY <1>1, GatewayInvariance, PTL

\* A claimed approval is never followed by a refusal of the gateway.
THEOREM ClaimNotWastedTheorem == GatewaySpec => []ClaimNotWasted
<1>1. GatewayInv => ClaimNotWasted
  BY DEF GatewayInv, Claims, ClaimNotWasted
<1> QED BY <1>1, GatewayInvariance, PTL

\* Only a transient error of the tool is retried, and a mutation that timed out is
\* unknown, through both translations of the error.
THEOREM OnlyTransientRetriedTheorem == GatewaySpec => []OnlyTransientRetried
<1>1. GatewayInv => OnlyTransientRetried
  BY DEF GatewayInv, Settled
<1> QED BY <1>1, GatewayInvariance, PTL

\* A success whose audit record is lost stays a success and is marked.
THEOREM DoneIsReportedTheorem == GatewaySpec => []DoneIsReported
<1>1. GatewayInv => DoneIsReported
  BY DEF GatewayInv, Settled, Marked, Outcome, DoneIsReported
<1> QED BY <1>1, GatewayInvariance, PTL

-----------------------------------------------------------------------------
(* Governance and the gateway agree while nothing moves. *)

\* A step that governance let through still is what governance saw.
Foresight ==
  foreseen = "allow" =>
    /\ gate \notin {"start", "waiting"}
    /\ ~moved =>
         /\ result # "approval_required"
         /\ gate \in {"executor", "gateway", "authorized", "verified"} => evaluate = "allow" /\ ~Unrestricted
         /\ gate \in {"authorized", "verified"} => policy = "allowed"

\* The policy decision point answers the same while nothing changes.
LEMMA EvaluateStable ==
  ASSUME UNCHANGED <<req, level, where>> PROVE evaluate' = evaluate
<1>1. (Outside' <=> Outside) /\ (Permitted(req.tool)' <=> Permitted(req.tool))
  BY Stable DEF Permitted
<1> QED BY <1>1 DEF evaluate

\* What passes governance passes the policy decision point.
LEMMA GovernedEvaluates == stepDecision = "allow" => evaluate = "allow" /\ ~Unrestricted
BY DEF stepDecision, checkStepGovernance, Unrestricted

\* A tool the policy allows is none of those that always need an approval.
LEMMA AllowedNeedsNone == evaluate = "allow" => req.tool \notin ApprovalAlways
<1>1. "execute_command" \notin ApprovalAlways
  BY DEF ApprovalAlways, GitWrites, PackageTools
<1> QED BY <1>1 DEF evaluate, APPROVAL_TOOLS

\* Every step keeps the foresight.
LEMMA ForesightStep == GatewayInv /\ Foresight /\ [GatewayNext]_gatewayVars => Foresight'
<1> SUFFICES ASSUME GatewayInv, Foresight, [GatewayNext]_gatewayVars PROVE Foresight'
  OBVIOUS
<1>1. CASE govern
  <2>1. foreseen' = stepDecision /\ UNCHANGED <<req, level, where, result>> /\ gate = "start"
    BY <1>1 DEF govern
  <2>2. stepDecision = "allow" => gate' = "executor"
    BY <1>1 DEF govern
  <2>3. result = "none"
    BY <2>1 DEF GatewayInv, Pending, Before
  <2> QED BY <2>1, <2>2, <2>3, GovernedEvaluates, EvaluateStable, Stable DEF Foresight
<1>2. CASE resume \/ LevelChanges
  BY <1>2 DEF resume, LevelChanges, Foresight
<1>3. CASE cannotRun
  <2>1. gate' = "done" /\ UNCHANGED <<foreseen, moved, result>>
    BY <1>3 DEF cannotRun
  <2> QED BY <2>1 DEF Foresight
<1>4. CASE localExecutor
  <2>1. /\ gate = "executor" /\ UNCHANGED <<req, level, where, foreseen, moved>>
        /\ (gate' = "answered" /\ result' = "failed") \/ (gate' = "gateway" /\ result' = result)
    BY <1>4 DEF localExecutor
  <2> QED BY <2>1, EvaluateStable, Stable DEF Foresight
<1>5. CASE authorize
  <2>1. /\ gate = "gateway" /\ UNCHANGED <<req, level, where, foreseen, moved>> /\ policy' = classify
        /\ \/ gate' = "answered" /\ result' = "blocked"
           \/ gate' = "authorized" /\ result' = result /\ classify # "blocked"
    BY <1>5, Zenon DEF authorize, Deny
  <2>2. classify # "blocked" /\ evaluate = "allow" /\ ~Unrestricted => classify = "allowed"
    BY DEF classify
  <2> QED BY <2>1, <2>2, EvaluateStable, Stable DEF Foresight
<1>6. CASE verifyApproval
  <2>1. /\ gate = "authorized" /\ UNCHANGED <<req, level, where, foreseen, moved, policy>>
        /\ \/ gate' = "answered" /\ result' = "blocked"
           \/ gate' = "verified" /\ result' = result
    BY <1>6 DEF verifyApproval, Deny
  <2> QED BY <2>1, EvaluateStable, Stable DEF Foresight
<1>7. CASE needNoApproval
  <2>1. /\ gate = "authorized" /\ UNCHANGED <<req, level, where, foreseen, moved, policy>>
        /\ \/ gate' = "answered" /\ (req.tool \in ApprovalAlways \/ policy = "approval_required")
           \/ gate' = "verified" /\ result' = result
    BY <1>7 DEF needNoApproval, Deny
  <2> QED BY <2>1, AllowedNeedsNone, EvaluateStable, Stable DEF Foresight
<1>8. CASE finalDecision
  <2>1. /\ gate = "verified" /\ UNCHANGED <<foreseen, moved>>
        /\ \/ gate' = "answered" /\ result' = decide(policy, approval = "claimed")
           \/ gate' = "running" /\ result' = result
    BY <1>8 DEF finalDecision, Deny
  <2>2. evaluate = "allow" /\ ~Unrestricted /\ policy = "allowed" =>
          decide(policy, approval = "claimed") # "approval_required"
    BY AllowedNeedsNone DEF decide
  <2> QED BY <2>1, <2>2 DEF Foresight
<1>9. CASE runHandler
  <2>1. gate' = "ran" /\ UNCHANGED <<foreseen, moved>> /\ result' \in {"failed", "succeeded"}
    BY <1>9, Zenon DEF runHandler
  <2> QED BY <2>1 DEF Foresight
<1>10. CASE recordSecurityEvent \/ recordAudit \/ settle
  <2>1. gate' \in {"logged", "answered", "done"} /\ UNCHANGED <<foreseen, moved, result>>
    BY <1>10 DEF recordSecurityEvent, recordAudit, settle
  <2> QED BY <2>1 DEF Foresight
<1>11. CASE RootRevoked \/ ApprovalExpires \/ UNCHANGED gatewayVars
  <2>1. UNCHANGED <<req, level, where, gate, foreseen, moved, policy, result>>
    BY <1>11 DEF RootRevoked, ApprovalExpires, gatewayVars
  <2> QED BY <2>1, EvaluateStable, Stable DEF Foresight
<1>12. CASE DirectoryMoves
  BY <1>12 DEF DirectoryMoves, Foresight
<1> QED BY <1>1, <1>2, <1>3, <1>4, <1>5, <1>6, <1>7, <1>8, <1>9, <1>10, <1>11, <1>12 DEF GatewayNext

\* A step that governance let through without an approval is not sent back for one by
\* the gateway while nothing moved, for every tool and argument.
THEOREM GovernanceForeseesTheorem == GatewaySpec => []GovernanceForesees
<1>1. GatewayInit => Foresight
  BY DEF GatewayInit, Foresight
<1>2. Foresight => GovernanceForesees
  BY DEF Foresight, GovernanceForesees
<1> QED BY <1>1, <1>2, ForesightStep, GatewayInvariance, PTL DEF GatewaySpec

=============================================================================
