------------------------ MODULE FileMutationsProofs ------------------------
(***************************************************************************)
(* The invariants of FileMutations hold for any number of calls, backups,  *)
(* contents and keys.  The inductive invariant says, of every call in      *)
(* flight, which row it owns and what that row says at each of its places, *)
(* and that no other call can write that row.                              *)
(***************************************************************************)
EXTENDS FileMutations, TLAPS

\* What a call's place says of its kind, its row and the row it restores.
Coherent(c) ==
    /\ c.pc \in {"idle", "probe", "match", "observe", "snapshot"} => c.own = None
    /\ c.pc \in {"observe", "recheck", "verify"} => c.kind = "restore"
    /\ c.pc = "body" => c.kind = "create"
    /\ c.pc = "record" => c.own # None
    /\ c.pc \in {"effect", "body", "store"} /\ c.kind # "restore" => c.own # None
    /\ c.key # None => c.kind \in {"write", "delete"} /\ c.new \in Request
    /\ c.kind = "restore" => /\ c.match = None /\ c.target # None
                             /\ backups[c.target] # None
                             /\ backups[c.target].post # None
    /\ c.own # None =>
           /\ backups[c.own] # None
           /\ c.pc # "store" => backups[c.own].post = None
           /\ c.pc \in {"verify", "record", "store"} => backups[c.own].did = c.new
           /\ c.pc = "store" => backups[c.own].post = c.new

\* What a call knows of the file while nobody else has changed it.
Seen(c) ==
    /\ c.steady /\ c.pc \in {"snapshot", "recheck", "effect"} /\ c.match # None
           => file = c.match
    /\ c.steady /\ c.pc \in {"recheck", "effect"} /\ c.own # None
           => file = backups[c.own].prev
    /\ c.fresh /\ c.pc = "effect" =>
           IF c.kind = "restore" THEN file = backups[c.target].post
           ELSE file = backups[c.own].prev

\* A create whose change is still the latest one holds the file at the path.
Holds(p) == call[p].pc = "body" /\ last = call[p].own => handle = p

OwnRow == \A p, q \in Call : p # q /\ call[p].own # None => call[q].own # call[p].own

Latest == last # None => backups[last] # None /\ file = backups[last].did

Calls == \A p \in Call : Coherent(call[p]) /\ Seen(call[p]) /\ Holds(p)

IInv == TypeOK /\ Calls /\ OwnRow /\ Latest /\ PostIsObserved /\ KeptAnswerIsTrue

\* The initial states satisfy the invariant: no rows, no calls.
LEMMA Initially == Init => IInv
  BY DistinctStates DEF Init, IInv, TypeOK, Calls, Coherent, Seen, Holds, OwnRow, Latest,
     PostIsObserved, KeptAnswerIsTrue, Idle, CallState, Kind, Place, FileState, Present,
     Backup, Answer, Request

\* The record of an idle call is well formed and claims nothing.
LEMMA IdleCall == Idle \in CallState /\ Coherent(Idle) /\ Seen(Idle)
  BY DistinctStates DEF Idle, CallState, Kind, Place, FileState, Coherent, Seen

\* Steps that touch only the calls: each call keeps its record or takes one that is
\* coherent with the file and the rows as they are.
LEMMA QuietStep ==
    ASSUME IInv, NEW p \in Call, NEW c \in CallState,
           call' = [call EXCEPT ![p] = c],
           c.own = None \/ c.own = call[p].own,
           Coherent(c), Seen(c), c.pc # "body",
           UNCHANGED <<file, backups, idem, last>>,
           handle' = handle \/ (handle = p /\ handle' = None),
           started' \in Nat
    PROVE  IInv'
<1>1. TypeOK' BY DEF IInv, TypeOK
<1>2. Calls'
  <2> SUFFICES ASSUME NEW q \in Call
               PROVE  (Coherent(call[q]) /\ Seen(call[q]) /\ Holds(q))'
    BY DEF Calls
  <2>1. CASE q = p
    BY <2>1 DEF IInv, TypeOK, Coherent, Seen, Holds
  <2>2. CASE q # p
    <3>1. call'[q] = call[q] BY <2>2 DEF IInv, TypeOK
    <3>2. Coherent(call[q]) /\ Seen(call[q]) /\ Holds(q) BY DEF IInv, Calls
    <3>3. handle = q => handle' = q BY <2>2, DistinctStates
    <3> QED BY <3>1, <3>2, <3>3 DEF Coherent, Seen, Holds
  <2> QED BY <2>1, <2>2
<1>3. OwnRow' BY DEF IInv, TypeOK, OwnRow
<1>4. Latest' /\ PostIsObserved' /\ KeptAnswerIsTrue'
  BY DEF IInv, Latest, PostIsObserved, KeptAnswerIsTrue
<1> QED BY <1>1, <1>2, <1>3, <1>4 DEF IInv

\* A call that ends leaves the invariant alone.
LEMMA LeaveStep ==
    ASSUME IInv, NEW p \in Call, Leave(p),
           UNCHANGED <<file, backups, idem, last, started>>,
           handle' = handle \/ (handle = p /\ handle' = None)
    PROVE  IInv'
<1> DEFINE c == Idle
<1>1. c \in CallState /\ Coherent(c) /\ Seen(c) BY IdleCall
<1>2. c.own = None /\ c.pc # "body" BY DEF Idle
<1>3. call' = [call EXCEPT ![p] = c] BY DEF Leave
<1>4. started' \in Nat BY DEF IInv, TypeOK
<1> HIDE DEF c
<1> QED BY <1>1, <1>2, <1>3, <1>4, QuietStep, Zenon

\* A call that begins has looked at nothing yet; a restore begins only from a row with
\* an observed outcome.
LEMMA StartStep ==
    ASSUME IInv, NEW p \in Call, Start(p)
    PROVE  IInv'
<1>1. ASSUME NEW kind \in Kind, NEW pc \in {"probe", "match", "observe"}, NEW new \in FileState,
             NEW match \in Content \cup {None}, NEW key \in Key \cup {None},
             NEW target \in Id \cup {None}, Begin(p, kind, pc, new, match, key, target),
             UNCHANGED <<file, backups, idem, handle, last>>,
             key # None => kind \in {"write", "delete"} /\ new \in Request,
             pc = "observe" => kind = "restore",
             kind = "restore" => /\ match = None /\ target # None /\ backups[target] # None
                                 /\ backups[target].post # None
      PROVE  IInv'
  <2> DEFINE c == [kind |-> kind, pc |-> pc, new |-> new, match |-> match, key |-> key,
                   own |-> None, target |-> target, steady |-> TRUE, fresh |-> TRUE]
  <2>1. c \in CallState BY DEF CallState, Place
  <2>2. Coherent(c) /\ Seen(c) BY <1>1 DEF Coherent, Seen
  <2>3. c.own = None /\ c.pc # "body" OBVIOUS
  <2>4. call' = [call EXCEPT ![p] = c] /\ started' \in Nat
    BY <1>1 DEF Begin, IInv, TypeOK
  <2> HIDE DEF c
  <2> QED BY <2>1, <2>2, <2>3, <2>4, <1>1, QuietStep, Zenon
<1>2. ASSUME NEW new \in Content, NEW match \in Content \cup {None}, NEW key \in Key \cup {None},
             WriteWorkspaceFile(p, new, match, key)
      PROVE  IInv'
  BY <1>1, <1>2 DEF WriteWorkspaceFile, Kind, FileState, Present, Request
<1>3. ASSUME NEW new \in Content, CreateWorkspaceFile(p, new) PROVE IInv'
  BY <1>1, <1>3 DEF CreateWorkspaceFile, Kind, FileState, Present
<1>4. ASSUME NEW match \in Content, NEW new \in Content, ModifyWorkspaceFile(p, match, new)
      PROVE  IInv'
  BY <1>1, <1>4 DEF ModifyWorkspaceFile, Kind, FileState, Present
<1>5. ASSUME NEW key \in Key \cup {None}, DeleteWorkspaceFile(p, key) PROVE IInv'
  BY <1>1, <1>5 DEF DeleteWorkspaceFile, Kind, FileState, Request
<1>6. ASSUME NEW i \in Id, RestoreWorkspaceFile(p, i) PROVE IInv'
  <2>1. backups[i] \in Backup BY <1>6 DEF RestoreWorkspaceFile, IInv, TypeOK
  <2>2. backups[i].prev \in FileState BY <2>1 DEF Backup
  <2>3. i # None BY DistinctStates
  <2> QED BY <1>1, <1>6, <2>2, <2>3 DEF RestoreWorkspaceFile, Kind
<1> QED BY <1>2, <1>3, <1>4, <1>5, <1>6 DEF Start

\* A look that only moves the call on.
LEMMA GotoStep ==
    ASSUME IInv, NEW p \in Call, NEW pc \in Place \ {"body"}, Goto(p, pc),
           UNCHANGED <<file, backups, idem, handle, last, started>>,
           Coherent([call[p] EXCEPT !.pc = pc, !.fresh = TRUE]),
           Seen([call[p] EXCEPT !.pc = pc, !.fresh = TRUE])
    PROVE  IInv'
<1> DEFINE c == [call[p] EXCEPT !.pc = pc, !.fresh = TRUE]
<1>1. call[p] \in CallState BY DEF IInv, TypeOK
<1>2. c \in CallState BY <1>1, Zenon DEF CallState
<1>3. c.own = call[p].own /\ c.pc # "body" BY <1>1 DEF CallState
<1>4. call' = [call EXCEPT ![p] = c] BY Zenon DEF Goto
<1>5. started' \in Nat BY DEF IInv, TypeOK
<1>6. Coherent(c) /\ Seen(c) OBVIOUS
<1> HIDE DEF c
<1> QED BY <1>2, <1>3, <1>4, <1>5, <1>6, QuietStep, Zenon

\* The looks: fs.access on a present file, the precondition, the two looks of a restore.
LEMMA LookStep ==
    ASSUME IInv, NEW p \in Call, UNCHANGED started,
           ProbePresent(p) \/ Match(p) \/ Observe(p) \/ Recheck(p) \/ Verify(p)
    PROVE  IInv'
<1> DEFINE c(pc) == [call[p] EXCEPT !.pc = pc, !.fresh = TRUE]
<1>1. call[p] \in CallState /\ Coherent(call[p]) /\ Seen(call[p])
  BY DEF IInv, TypeOK, Calls
<1>2. CASE ProbePresent(p)
  <2>1. CASE IsKind(p, {"create"}) BY <1>2, <2>1, LeaveStep DEF ProbePresent
  <2>2. CASE ~IsKind(p, {"create"}) /\ call[p].match = None
    <3>1. Coherent(c("snapshot")) /\ Seen(c("snapshot"))
      BY <1>1, <1>2, <2>2, SMTT(30) DEF ProbePresent, At, CallState, Coherent, Seen
    <3> QED BY <1>2, <2>2, <3>1, GotoStep, Zenon DEF ProbePresent, Place
  <2>3. CASE ~IsKind(p, {"create"}) /\ call[p].match # None
    <3>1. Coherent(c("match")) /\ Seen(c("match"))
      BY <1>1, <1>2, <2>3 DEF ProbePresent, At, CallState, Coherent, Seen
    <3> QED BY <1>2, <2>3, <3>1, GotoStep, Zenon DEF ProbePresent, Place
  <2> QED BY <2>1, <2>2, <2>3
<1>3. CASE Match(p)
  <2>1. CASE file # call[p].match BY <1>3, <2>1, LeaveStep, SMTT(30) DEF Match
  <2>2. CASE file = call[p].match
    <3>1. Coherent(c("snapshot")) /\ Seen(c("snapshot"))
      BY <1>1, <1>3, <2>2 DEF Match, At, CallState, Coherent, Seen
    <3> QED BY <1>3, <2>2, <3>1, GotoStep, Zenon DEF Match, Place
  <2> QED BY <2>1, <2>2
<1>4. CASE Observe(p)
  <2> DEFINE b == backups[call[p].target]
  <2>1. CASE file = b.prev \/ file # b.post BY <1>4, <2>1, LeaveStep, SMTT(30) DEF Observe
  <2>2. CASE ~(file = b.prev \/ file # b.post)
    <3>1. /\ Coherent(c("snapshot")) /\ Seen(c("snapshot"))
          /\ Coherent(c("recheck")) /\ Seen(c("recheck"))
      BY <1>1, <1>4, <2>2 DEF Observe, At, CallState, Coherent, Seen
    <3> QED BY <1>4, <2>2, <3>1, GotoStep, Zenon DEF Observe, Place
  <2> QED BY <2>1, <2>2
<1>5. CASE Recheck(p)
  <2>1. CASE file # backups[call[p].target].post BY <1>5, <2>1, LeaveStep, SMTT(30) DEF Recheck
  <2>2. CASE file = backups[call[p].target].post
    <3>1. Coherent(c("effect")) /\ Seen(c("effect"))
      BY <1>1, <1>5, <2>2 DEF Recheck, At, CallState, Coherent, Seen
    <3> QED BY <1>5, <2>2, <3>1, GotoStep, Zenon DEF Recheck, Place
  <2> QED BY <2>1, <2>2
<1>6. CASE Verify(p)
  <2>1. CASE file # call[p].new BY <1>6, <2>1, LeaveStep, SMTT(30) DEF Verify
  <2>2. CASE file = call[p].new
    <3>1. call[p].own = None => Coherent(c("store")) /\ Seen(c("store"))
      BY <1>1, <1>6 DEF Verify, At, CallState, Coherent, Seen
    <3>2. call[p].own # None => Coherent(c("record")) /\ Seen(c("record"))
      BY <1>1, <1>6 DEF Verify, At, CallState, Coherent, Seen
    <3> QED BY <1>6, <2>2, <3>1, <3>2, GotoStep, Zenon DEF Verify, Place
  <2> QED BY <2>1, <2>2
<1> QED BY <1>2, <1>3, <1>4, <1>5, <1>6

\* A new row is nobody's: no call in flight, kept answer or latest change names it.
LEMMA PersistStep ==
    ASSUME IInv, NEW p \in Call, NEW pc \in {"recheck", "effect"}, Persist(p, pc),
           (At(p, "probe") /\ call[p].match = None) \/ At(p, "snapshot"),
           pc = "recheck" <=> call[p].kind = "restore",
           UNCHANGED <<file, idem, handle, last, started>>
    PROVE  IInv'
<1> PICK i \in Id :
        /\ backups[i] = None
        /\ backups' = [backups EXCEPT ![i] = [prev |-> file, post |-> None, did |-> None]]
        /\ call' = [call EXCEPT ![p].pc = pc, ![p].own = i, ![p].fresh = TRUE]
  BY Zenon DEF Persist
<1>1. call[p] \in CallState /\ Coherent(call[p]) /\ Seen(call[p])
  BY DEF IInv, TypeOK, Calls
<1>3. PICK c \in CallState :
          /\ call' = [call EXCEPT ![p] = c] /\ c.pc = pc /\ c.own = i /\ c.fresh = TRUE
          /\ c.kind = call[p].kind /\ c.match = call[p].match /\ c.key = call[p].key
          /\ c.new = call[p].new /\ c.target = call[p].target /\ c.steady = call[p].steady
  <2> DEFINE d == [call[p] EXCEPT !.pc = pc, !.own = i, !.fresh = TRUE]
  <2>1. /\ d \in CallState /\ d.pc = pc /\ d.own = i /\ d.fresh = TRUE
        /\ d.kind = call[p].kind /\ d.match = call[p].match /\ d.key = call[p].key
        /\ d.new = call[p].new /\ d.target = call[p].target /\ d.steady = call[p].steady
    BY <1>1, Zenon DEF CallState, Place
  <2>2. call' = [call EXCEPT ![p] = d] BY Zenon
  <2> HIDE DEF d
  <2> QED BY <2>1, <2>2, Zenon
<1>6. PICK r \in Backup :
          /\ backups' = [backups EXCEPT ![i] = r]
          /\ r.prev = file /\ r.post = None /\ r.did = None
  <2> DEFINE n == [prev |-> file, post |-> None, did |-> None]
  <2>1. n \in Backup /\ n.prev = file /\ n.post = None /\ n.did = None
    BY DEF IInv, TypeOK, Backup
  <2>2. backups' = [backups EXCEPT ![i] = n] OBVIOUS
  <2> HIDE DEF n
  <2> QED BY <2>1, <2>2, Zenon
<1>4. r # None BY NoneIsNoRow
<1>7. TypeOK'
  <2>1. backups' \in [Id -> Backup \cup {None}] BY <1>6 DEF IInv, TypeOK
  <2>2. call' \in [Call -> CallState] BY <1>3, Zenon DEF IInv, TypeOK
  <2> QED BY <2>1, <2>2 DEF IInv, TypeOK
<1>8. i # None BY DistinctStates
<1>9. \A j \in Id : j # i => backups'[j] = backups[j] BY <1>6 DEF IInv, TypeOK
<1>10. backups'[i] = r BY <1>6 DEF IInv, TypeOK
<1>11. Calls'
  <2> SUFFICES ASSUME NEW q \in Call
               PROVE  (Coherent(call[q]) /\ Seen(call[q]) /\ Holds(q))'
    BY Zenon DEF Calls
  <2>1. CASE q = p
    <3>1. call'[p] = c BY <1>3, Zenon DEF IInv, TypeOK
    <3>2. Coherent(c)'
      <4>1. c.kind = "restore" => c.target # i /\ c.target \in Id
        BY <1>1, <1>3 DEF Coherent, CallState
      <4> QED BY <1>1, <1>3, <1>6, <1>8, <1>9, <1>10, <1>4, <4>1 DEF Coherent, At
    <3>3. Seen(c)'
      BY <1>1, <1>3, <1>6, <1>10 DEF Seen, At
    <3> QED BY <2>1, <3>1, <3>2, <3>3, <1>3 DEF Holds
  <2>2. CASE q # p
    <3>1. call'[q] = call[q] BY <2>2, <1>3 DEF IInv, TypeOK
    <3>2. call[q] \in CallState /\ Coherent(call[q]) /\ Seen(call[q]) /\ Holds(q)
      BY DEF IInv, TypeOK, Calls
    <3>3. call[q].own # None => call[q].own # i /\ call[q].own \in Id
      BY <3>2 DEF Coherent, CallState
    <3>4. call[q].kind = "restore" => call[q].target # i /\ call[q].target \in Id
      BY <3>2 DEF Coherent, CallState
    <3>5. Coherent(call[q])' BY <3>1, <3>2, <3>3, <3>4, <1>9, ZenonT(30) DEF Coherent
    <3>6. call[q].pc = "effect" => call[q].kind = "restore" \/ call[q].own # None
      BY <3>2 DEF Coherent
    <3>7. Seen(call[q])'
      <4>1. PICK d \in CallState : d = call[q] BY <3>2
      <4>2. /\ d.own # None => backups'[d.own] = backups[d.own]
            /\ d.kind = "restore" => backups'[d.target] = backups[d.target]
        BY <3>3, <3>4, <4>1, <1>9
      <4>3. Seen(d) /\ (d.pc = "effect" => d.kind = "restore" \/ d.own # None)
        BY <3>2, <3>6, <4>1
      <4>4. Seen(d)' BY <4>2, <4>3 DEF Seen
      <4> QED BY <3>1, <4>1, <4>4
    <3> QED BY <3>1, <3>2, <3>5, <3>7 DEF Holds
  <2> QED BY <2>1, <2>2
<1>12. OwnRow'
  <2>1. \A q \in Call : call[q].own # i BY <1>8 DEF IInv, Calls, Coherent
  <2> QED BY <1>3, <2>1 DEF IInv, TypeOK, OwnRow
<1>13. Latest'
  <2>1. last # None => last # i /\ last \in Id BY DEF IInv, TypeOK, Latest
  <2> QED BY <1>9, <2>1 DEF IInv, Latest
<1>14. PostIsObserved' BY <1>6, <1>9, <1>10 DEF IInv, PostIsObserved
<1>15. KeptAnswerIsTrue'
  BY <1>9 DEF IInv, KeptAnswerIsTrue
<1> QED BY <1>7, <1>11, <1>12, <1>13, <1>14, <1>15 DEF IInv

\* What Changed and Disturb do, call by call and row by row.
LEMMA Effects ==
    ASSUME IInv, NEW p \in Call, NEW pc \in Place, NEW new \in FileState,
           Changed(p, new), Disturb(p, pc)
    PROVE  /\ call' \in [Call -> CallState]
           /\ backups' \in [Id -> Backup \cup {None}]
           /\ \A q \in Call :
                 /\ call'[q].kind = call[q].kind /\ call'[q].new = call[q].new
                 /\ call'[q].key = call[q].key /\ call'[q].own = call[q].own
                 /\ call'[q].target = call[q].target
                 /\ call'[q].pc = (IF q = p THEN pc ELSE call[q].pc)
                 /\ q = p => call'[q].match = None
                 /\ q # p => call'[q].match = call[q].match
                 /\ q = p \/ call[q].pc # "idle" => ~call'[q].steady /\ ~call'[q].fresh
           /\ \A j \in Id : j # call[p].own => backups'[j] = backups[j]
           /\ call[p].own # None =>
                 /\ backups'[call[p].own] # None
                 /\ backups'[call[p].own].prev = backups[call[p].own].prev
                 /\ backups'[call[p].own].post = backups[call[p].own].post
                 /\ backups'[call[p].own].did = new
<1>1. \A q \in Call : call[q] \in CallState BY DEF IInv, TypeOK
<1>2. ASSUME NEW q \in Call
      PROVE  /\ call'[q] \in CallState
             /\ call'[q].kind = call[q].kind /\ call'[q].new = call[q].new
             /\ call'[q].key = call[q].key /\ call'[q].own = call[q].own
             /\ call'[q].target = call[q].target
             /\ call'[q].pc = (IF q = p THEN pc ELSE call[q].pc)
             /\ q = p => call'[q].match = None
             /\ q # p => call'[q].match = call[q].match
             /\ q = p \/ call[q].pc # "idle" => ~call'[q].steady /\ ~call'[q].fresh
  <2>1. CASE q = p
    <3>1. call'[q] = [call[p] EXCEPT !.pc = pc, !.match = None, !.steady = FALSE, !.fresh = FALSE]
      BY <2>1, Zenon DEF Disturb
    <3> QED BY <1>1, <2>1, <3>1, Zenon DEF CallState
  <2>2. CASE q # p /\ call[q].pc = "idle"
    <3>1. call'[q] = call[q] BY <2>2, Zenon DEF Disturb, At
    <3> QED BY <1>1, <2>2, <3>1
  <2>3. CASE q # p /\ call[q].pc # "idle"
    <3>1. call'[q] = [call[q] EXCEPT !.steady = FALSE, !.fresh = FALSE]
      BY <2>3, Zenon DEF Disturb, At
    <3> QED BY <1>1, <2>3, <3>1, Zenon DEF CallState
  <2> QED BY <2>1, <2>2, <2>3
<1>3. call' \in [Call -> CallState]
  <2>1. call' = [q \in Call |-> call'[q]] BY Zenon DEF Disturb
  <2> QED BY <1>2, <2>1
<1>4. CASE call[p].own = None
  <2>1. backups' = backups BY <1>4 DEF Changed
  <2> QED BY <1>2, <1>3, <1>4, <2>1 DEF IInv, TypeOK
<1>5. CASE call[p].own # None
  <2>1. backups' = [backups EXCEPT ![call[p].own].did = new] BY <1>5 DEF Changed
  <2>2. call[p].own \in Id /\ backups[call[p].own] \in Backup
    BY <1>1, <1>5 DEF IInv, TypeOK, Calls, Coherent, CallState
  <2>3. backups'[call[p].own] = [backups[call[p].own] EXCEPT !.did = new]
    BY <2>1, <2>2 DEF IInv, TypeOK
  <2>4. /\ backups'[call[p].own] \in Backup
        /\ backups'[call[p].own].prev = backups[call[p].own].prev
        /\ backups'[call[p].own].post = backups[call[p].own].post
        /\ backups'[call[p].own].did = new
    BY <2>2, <2>3 DEF Backup
  <2>5. \A j \in Id : j # call[p].own => backups'[j] = backups[j]
    BY <2>1 DEF IInv, TypeOK
  <2>6. backups' \in [Id -> Backup \cup {None}]
    BY <2>1, <2>2, <2>4, <2>5 DEF IInv, TypeOK
  <2>7. backups'[call[p].own] # None
    BY <2>4, NoneIsNoRow
  <2> QED BY <1>2, <1>3, <2>4, <2>5, <2>6, <2>7
<1> QED BY <1>4, <1>5

\* A change to the file: the looks of all calls are stale, the change is attributed to a
\* row that is still open, so no kept answer and no recorded outcome speaks of it yet.
LEMMA EffectStep ==
    ASSUME IInv, NEW p \in Call, NEW pc \in {"body", "verify", "record"},
           NEW new \in FileState, Changed(p, new), Disturb(p, pc),
           At(p, "effect") \/ At(p, "body"),
           pc = "body" => call[p].kind = "create" /\ handle' = p,
           pc # "body" => new = call[p].new,
           pc = "verify" <=> call[p].kind = "restore",
           handle' \in {None, p}, UNCHANGED <<idem, started>>
    PROVE  IInv'
<1>1. /\ call' \in [Call -> CallState]
      /\ backups' \in [Id -> Backup \cup {None}]
      /\ \A q \in Call :
            /\ call'[q].kind = call[q].kind /\ call'[q].new = call[q].new
            /\ call'[q].key = call[q].key /\ call'[q].own = call[q].own
            /\ call'[q].target = call[q].target
            /\ call'[q].pc = (IF q = p THEN pc ELSE call[q].pc)
            /\ q = p => call'[q].match = None
            /\ q # p => call'[q].match = call[q].match
            /\ q = p \/ call[q].pc # "idle" => ~call'[q].steady /\ ~call'[q].fresh
      /\ \A j \in Id : j # call[p].own => backups'[j] = backups[j]
      /\ call[p].own # None =>
            /\ backups'[call[p].own] # None
            /\ backups'[call[p].own].prev = backups[call[p].own].prev
            /\ backups'[call[p].own].post = backups[call[p].own].post
            /\ backups'[call[p].own].did = new
  BY Effects DEF Place
<1>2. call[p] \in CallState /\ Coherent(call[p]) BY DEF IInv, TypeOK, Calls
<1>3. call[p].own # None => call[p].own \in Id /\ backups[call[p].own].post = None
  BY <1>2 DEF Coherent, CallState, At
<1>4. \A j \in Id : backups[j] # None => backups'[j] # None /\ backups'[j].post = backups[j].post
  BY <1>1, <1>3, DistinctStates
<1>5. file' = new /\ last' = call[p].own BY DEF Changed
<1>6. TypeOK' BY <1>1, <1>2, <1>5 DEF IInv, TypeOK, CallState
<1>7. ASSUME NEW q \in Call PROVE Coherent(call[q])'
  <2>1. call[q] \in CallState /\ Coherent(call[q]) BY DEF IInv, TypeOK, Calls
  <2>2. call[q].kind = "restore" => /\ call[q].target \in Id
                                    /\ backups[call[q].target] # None
                                    /\ backups[call[q].target].post # None
    BY <2>1 DEF Coherent, CallState
  <2>3. CASE q = p
    BY <1>1, <1>2, <1>3, <1>4, <2>2, <2>3 DEF Coherent, At
  <2>4. CASE q # p
    <3>1. call[q].own # None => call[q].own \in Id /\ backups'[call[q].own] = backups[call[q].own]
      <4>1. call[q].own # None => call[q].own # call[p].own BY <2>4 DEF IInv, OwnRow
      <4>2. call[q].own # None => call[q].own \in Id BY <2>1 DEF CallState
      <4> QED BY <4>1, <4>2, <1>1
    <3> QED BY <1>1, <1>4, <2>1, <2>2, <2>4, <3>1 DEF Coherent
  <2> QED BY <2>3, <2>4
<1>8. ASSUME NEW q \in Call PROVE Seen(call[q])'
  <2>1. CASE q = p \/ call[q].pc # "idle" BY <1>1, <2>1 DEF Seen
  <2>2. CASE q # p /\ call[q].pc = "idle" BY <1>1, <2>2 DEF Seen
  <2> QED BY <2>1, <2>2
<1>9. ASSUME NEW q \in Call PROVE Holds(q)'
  <2>1. CASE q = p BY <1>1, <2>1 DEF Holds
  <2>2. CASE q # p
    <3>1. call[q].pc = "body" => call[q].own # None BY DEF IInv, Calls, Coherent
    <3>2. call[q].own # None => call[q].own # call[p].own BY <2>2 DEF IInv, OwnRow
    <3> QED BY <1>1, <1>5, <2>2, <3>1, <3>2 DEF Holds
  <2> QED BY <2>1, <2>2
<1>10. OwnRow' BY <1>1 DEF IInv, OwnRow
<1>11. Latest' BY <1>1, <1>5 DEF Latest
<1>12. PostIsObserved' BY <1>1, <1>3, DistinctStates DEF IInv, PostIsObserved
<1>13. KeptAnswerIsTrue'
  <2>1. ASSUME NEW k \in Key, NEW r \in Request, idem[<<k, r>>] \in Id
        PROVE  idem[<<k, r>>] # call[p].own
    <3>1. backups[idem[<<k, r>>]].post = r /\ r # None
      BY <2>1, DistinctStates DEF IInv, KeptAnswerIsTrue, Request
    <3> QED BY <1>3, <2>1, <3>1, DistinctStates
  <2> QED BY <1>1, <2>1 DEF IInv, KeptAnswerIsTrue
<1>14. Calls' BY <1>7, <1>8, <1>9, SMTT(30) DEF Calls
<1> QED BY <1>6, <1>10, <1>11, <1>12, <1>13, <1>14, Zenon DEF IInv

\* A step that rewrites only the caller's own, still open row, and moves the call on.
LEMMA OwnRowStep ==
    ASSUME IInv, NEW p \in Call, NEW r \in Backup, NEW pc \in {"record", "store"},
           call[p].own # None, At(p, "body") \/ At(p, "record"),
           backups' = [backups EXCEPT ![call[p].own] = r],
           call' = [call EXCEPT ![p].pc = pc, ![p].fresh = TRUE],
           r.did = call[p].new, r.post = IF pc = "store" THEN call[p].new ELSE None,
           last = call[p].own => r.did = backups[call[p].own].did,
           UNCHANGED <<file, idem, handle, last, started>>
    PROVE  IInv'
<1>1. call[p] \in CallState /\ Coherent(call[p]) BY DEF IInv, TypeOK, Calls
<1>2. PICK c \in CallState :
          /\ call' = [call EXCEPT ![p] = c] /\ c.pc = pc /\ c.own = call[p].own
          /\ c.kind = call[p].kind /\ c.match = call[p].match /\ c.key = call[p].key
          /\ c.new = call[p].new /\ c.target = call[p].target
  <2> DEFINE d == [call[p] EXCEPT !.pc = pc, !.fresh = TRUE]
  <2>1. /\ d \in CallState /\ d.pc = pc /\ d.own = call[p].own
        /\ d.kind = call[p].kind /\ d.match = call[p].match /\ d.key = call[p].key
        /\ d.new = call[p].new /\ d.target = call[p].target
    BY <1>1, Zenon DEF CallState, Place
  <2>2. call' = [call EXCEPT ![p] = d] BY Zenon
  <2> HIDE DEF d
  <2> QED BY <2>1, <2>2, Zenon
<1>3. PICK i \in Id : i = call[p].own BY <1>1 DEF CallState
<1>4. backups[i] # None /\ backups[i].post = None /\ i # None
  BY <1>1, <1>3, DistinctStates DEF Coherent, At
<1>5. /\ backups'[i] = r /\ r # None
      /\ \A j \in Id : j # i => backups'[j] = backups[j]
  BY <1>3, NoneIsNoRow DEF IInv, TypeOK
<1>6. call'[p] = c /\ \A q \in Call : q # p => call'[q] = call[q]
  BY <1>2, Zenon DEF IInv, TypeOK
<1>7. TypeOK'
  <2>1. backups' \in [Id -> Backup \cup {None}] BY <1>3 DEF IInv, TypeOK
  <2>2. call' \in [Call -> CallState] BY <1>2, Zenon DEF IInv, TypeOK
  <2> QED BY <2>1, <2>2 DEF IInv, TypeOK
<1>8. ASSUME NEW q \in Call PROVE (Coherent(call[q]) /\ Seen(call[q]) /\ Holds(q))'
  <2>1. CASE q = p
    <3>1. c.kind = "restore" => c.target \in Id /\ c.target # i
      BY <1>1, <1>2, <1>4 DEF Coherent, CallState
    <3>2. Coherent(c)'
      BY <1>1, <1>2, <1>3, <1>4, <1>5, <3>1 DEF Coherent, At
    <3>3. Seen(c)' BY <1>2 DEF Seen
    <3> QED BY <1>2, <1>6, <2>1, <3>2, <3>3 DEF Holds
  <2>2. CASE q # p
    <3>1. PICK d \in CallState : d = call[q] BY DEF IInv, TypeOK
    <3>2. Coherent(d) /\ Seen(d) /\ Holds(q) BY <3>1 DEF IInv, Calls
    <3>3. d.own # None => d.own \in Id /\ d.own # i
      BY <1>3, <1>4, <2>2, <3>1 DEF IInv, OwnRow, CallState
    <3>4. d.kind = "restore" => d.target \in Id /\ d.target # i
      BY <1>4, <3>2 DEF Coherent, CallState
    <3>5. /\ d.own # None => backups'[d.own] = backups[d.own]
          /\ d.kind = "restore" => backups'[d.target] = backups[d.target]
      BY <1>5, <3>3, <3>4
    <3>6. d.pc = "effect" => d.kind = "restore" \/ d.own # None BY <3>2 DEF Coherent
    <3>7. Coherent(d)' BY <3>2, <3>5 DEF Coherent
    <3>8. Seen(d)' BY <3>2, <3>5, <3>6 DEF Seen
    <3> QED BY <1>6, <2>2, <3>1, <3>2, <3>7, <3>8, Zenon DEF Holds
  <2> QED BY <2>1, <2>2
<1>9. OwnRow'
  <2>1. \A q \in Call : call'[q].own = call[q].own BY <1>2, <1>6, Zenon
  <2> QED BY <2>1, ZenonT(30) DEF IInv, OwnRow
<1>10. Latest' BY <1>3, <1>5 DEF IInv, TypeOK, Latest
<1>11. PostIsObserved' BY <1>5 DEF IInv, PostIsObserved
<1>12. KeptAnswerIsTrue'
  <2>1. ASSUME NEW k \in Key, NEW a \in Request, idem[<<k, a>>] \in Id
        PROVE  idem[<<k, a>>] # i
    <3>1. backups[idem[<<k, a>>]].post = a /\ a # None
      BY <2>1, DistinctStates DEF IInv, KeptAnswerIsTrue, Request
    <3> QED BY <1>4, <3>1
  <2> QED BY <1>5, <2>1 DEF IInv, KeptAnswerIsTrue
<1> QED BY <1>7, <1>8, <1>9, <1>10, <1>11, <1>12, Zenon DEF IInv, Calls

\* A call that ends keeping a true answer for its key.
LEMMA AnswerStep ==
    ASSUME IInv, NEW p \in Call, NEW a \in Answer, KeepAnswer(p, a), Leave(p),
           a \in Id => At(p, "store") /\ a = call[p].own,
           UNCHANGED <<file, backups, handle, last, started>>
    PROVE  IInv'
<1>1. call[p] \in CallState /\ Coherent(call[p]) BY DEF IInv, TypeOK, Calls
<1>2. CASE idem' = idem BY <1>2, LeaveStep
<1>3. CASE idem' # idem
  <2> DEFINE k == call[p].key
             r == call[p].new
  <2>1. k \in Key /\ r \in Request /\ idem' = [idem EXCEPT ![<<k, r>>] = a]
    BY <1>1, <1>3 DEF KeepAnswer, Coherent, CallState
  <2>2. a \in Id => backups[a] # None /\ backups[a].did = r /\ backups[a].post = r
    BY <1>1, DistinctStates DEF Coherent, At
  <2>3. KeptAnswerIsTrue' /\ idem' \in [Key \X Request -> Answer]
    BY <2>1, <2>2 DEF IInv, TypeOK, KeptAnswerIsTrue
  <2>4. call' = [call EXCEPT ![p] = Idle] BY DEF Leave
  <2>5. TypeOK' BY <2>3, <2>4, IdleCall DEF IInv, TypeOK
  <2>6. ASSUME NEW q \in Call PROVE (Coherent(call[q]) /\ Seen(call[q]) /\ Holds(q))'
    <3>1. PICK d \in CallState : d = call'[q] /\ (d = Idle \/ d = call[q])
      BY <2>4, IdleCall DEF IInv, TypeOK
    <3>2. Coherent(d) /\ Seen(d) BY <3>1, IdleCall DEF IInv, Calls
    <3>3. Coherent(d)' /\ Seen(d)' BY <3>2 DEF Coherent, Seen
    <3>4. d.pc = "body" => d = call[q] BY <3>1 DEF Idle
    <3> QED BY <3>1, <3>3, <3>4 DEF Holds, IInv, Calls
  <2>7. OwnRow' BY <2>4 DEF IInv, TypeOK, OwnRow, Idle
  <2>8. Latest' /\ PostIsObserved' BY DEF IInv, Latest, PostIsObserved
  <2> QED BY <2>3, <2>5, <2>6, <2>7, <2>8 DEF IInv, Calls
<1> QED BY <1>2, <1>3

\* Every step of the service preserves the invariant.
LEMMA Inductive == IInv /\ [Next]_vars => IInv'
<1> SUFFICES ASSUME IInv, [Next]_vars PROVE IInv'
  BY SMTT(30)
<1>1. CASE UNCHANGED vars
  BY <1>1 DEF vars, IInv, TypeOK, Calls, Coherent, Seen, Holds, OwnRow, Latest,
     PostIsObserved, KeptAnswerIsTrue
<1>2. ASSUME NEW p \in Call, Start(p) PROVE IInv' BY <1>2, StartStep
<1>3. ASSUME NEW p \in Call, Step(p), UNCHANGED started PROVE IInv'
  <2>1. call[p] \in CallState /\ Coherent(call[p]) BY DEF IInv, TypeOK, Calls
  <2>2. CASE ProbePresent(p) \/ Match(p) \/ Observe(p) \/ Recheck(p) \/ Verify(p)
    BY <1>3, <2>2, LookStep
  <2>3. CASE ProbeAbsent(p)
    <3>1. CASE Leave(p) /\ UNCHANGED <<backups, idem>>
      BY <1>3, <2>3, <3>1, LeaveStep DEF ProbeAbsent
    <3>2. CASE IsKind(p, {"write", "create"}) /\ call[p].match = None /\ Persist(p, "effect")
               /\ UNCHANGED idem
      <4>1. call[p].kind # "restore" BY <3>2 DEF IsKind
      <4> QED BY <1>3, <2>3, <3>2, <4>1, PersistStep DEF ProbeAbsent
    <3>3. CASE KeepAnswer(p, Absent) /\ Leave(p) /\ UNCHANGED backups
      <4>1. Absent \in Answer BY DEF Answer
      <4>2. UNCHANGED <<file, backups, handle, last, started>>
        BY <1>3, <2>3, <3>3 DEF ProbeAbsent
      <4>3. Absent \notin Id BY DistinctStates
      <4> QED BY <3>3, <4>1, <4>2, <4>3, AnswerStep
    <3> QED BY <2>3, <3>1, <3>2, <3>3 DEF ProbeAbsent
  <2>4. CASE BackupFile(p)
    <3>1. CASE file = Absent BY <1>3, <2>4, <3>1, LeaveStep DEF BackupFile
    <3>2. CASE file # Absent /\ call[p].kind = "restore"
      BY <1>3, <2>4, <3>2, PersistStep DEF BackupFile, IsKind
    <3>3. CASE file # Absent /\ call[p].kind # "restore"
      BY <1>3, <2>4, <3>3, PersistStep DEF BackupFile, IsKind
    <3> QED BY <3>1, <3>2, <3>3
  <2>5. CASE Apply(p)
    <3>1. CASE call[p].new = Absent /\ file = Absent BY <1>3, <2>5, <3>1, LeaveStep DEF Apply
    <3>2. CASE ~(call[p].new = Absent /\ file = Absent)
      <4>1. call[p].new \in FileState BY <2>1 DEF CallState
      <4>2. CASE call[p].kind = "restore"
        BY <1>3, <2>5, <3>2, <4>1, <4>2, EffectStep DEF Apply, IsKind
      <4>3. CASE call[p].kind # "restore"
        BY <1>3, <2>5, <3>2, <4>1, <4>3, EffectStep DEF Apply, IsKind
      <4> QED BY <4>2, <4>3
    <3> QED BY <3>1, <3>2
  <2>6. CASE OpenExclusive(p)
    <3>1. CASE file # Absent BY <1>3, <2>6, <3>1, LeaveStep DEF OpenExclusive
    <3>2. CASE file = Absent
      <4>1. call[p].kind = "create" BY <2>6 DEF OpenExclusive, IsKind
      <4> QED BY <1>3, <2>6, <3>2, <4>1, EffectStep DEF OpenExclusive, FileState, Present
    <3> QED BY <3>1, <3>2
  <2>7. CASE WriteBody(p)
    <3>1. call[p].new \in FileState /\ call[p].kind = "create"
      BY <2>1, <2>7 DEF CallState, Coherent, WriteBody, At
    <3>2. CASE handle = p BY <1>3, <2>7, <3>1, <3>2, EffectStep DEF WriteBody
    <3>3. CASE handle # p
      <4>1. call[p].own # None /\ call[p].own \in Id /\ backups[call[p].own] \in Backup
            /\ backups[call[p].own].post = None
        BY <2>1, <2>7, <3>1 DEF WriteBody, At, Coherent, CallState, IInv, TypeOK
      <4>2. last # call[p].own BY <2>7, <3>3 DEF WriteBody, At, IInv, Calls, Holds
      <4>3. PICK r \in Backup : /\ backups' = [backups EXCEPT ![call[p].own] = r]
                                /\ r.did = call[p].new /\ r.post = None
        <5> DEFINE n == [backups[call[p].own] EXCEPT !.did = call[p].new]
        <5>1. n \in Backup /\ n.did = call[p].new /\ n.post = None BY <3>1, <4>1 DEF Backup
        <5>2. backups' = [backups EXCEPT ![call[p].own] = n] BY <2>7, <3>3 DEF WriteBody
        <5> HIDE DEF n
        <5> QED BY <5>1, <5>2, Zenon
      <4>4. call' = [call EXCEPT ![p].pc = "record", ![p].fresh = TRUE]
        BY <2>7, <3>3 DEF WriteBody, Goto
      <4> QED BY <1>3, <2>7, <3>3, <4>1, <4>2, <4>3, <4>4, OwnRowStep, Zenon DEF WriteBody
    <3> QED BY <3>2, <3>3
  <2>8. CASE RecordFileBackupPostcondition(p)
    <3>1. call[p].own # None /\ call[p].own \in Id /\ backups[call[p].own] \in Backup
          /\ backups[call[p].own].did = call[p].new /\ call[p].new \in FileState
      BY <2>1, <2>8 DEF RecordFileBackupPostcondition, At, Coherent, CallState, IInv, TypeOK
    <3>2. PICK r \in Backup : /\ backups' = [backups EXCEPT ![call[p].own] = r]
                              /\ r.did = call[p].new /\ r.post = call[p].new
      <4> DEFINE n == [backups[call[p].own] EXCEPT !.post = call[p].new]
      <4>1. n \in Backup /\ n.did = call[p].new /\ n.post = call[p].new BY <3>1 DEF Backup
      <4>2. backups' = [backups EXCEPT ![call[p].own] = n]
        BY <2>8 DEF RecordFileBackupPostcondition
      <4> HIDE DEF n
      <4> QED BY <4>1, <4>2, Zenon
    <3>3. call' = [call EXCEPT ![p].pc = "store", ![p].fresh = TRUE]
      BY <2>8 DEF RecordFileBackupPostcondition, Goto
    <3> QED BY <1>3, <2>8, <3>1, <3>2, <3>3, OwnRowStep, Zenon DEF RecordFileBackupPostcondition
  <2>9. CASE Finish(p)
    <3>1. call[p].own \in Answer BY <2>1 DEF CallState, Answer
    <3> QED BY <1>3, <2>9, <3>1, AnswerStep DEF Finish
  <2>10. CASE Interrupt(p) BY <1>3, <2>10, LeaveStep DEF Interrupt
  <2> QED BY <1>3, <2>2, <2>3, <2>4, <2>5, <2>6, <2>7, <2>8, <2>9, <2>10 DEF Step
<1> QED BY <1>1, <1>2, <1>3 DEF Next

\* The invariant holds of every behaviour of the file service.
THEOREM Invariance == Spec => []IInv
  BY Initially, Inductive, PTL DEF Spec

\* The tables, the calls in flight and the file keep their types.
THEOREM TypeCorrect == Spec => []TypeOK
<1>1. IInv => TypeOK BY DEF IInv
<1> QED BY <1>1, Invariance, PTL

\* Every effect is preceded by a durable row that only its own call writes.
THEOREM BackupBeforeEffectTheorem == Spec => []BackupBeforeEffect
<1>1. IInv => BackupBeforeEffect
  <2> SUFFICES ASSUME IInv, NEW p \in Call
               PROVE  LET c == call[p] IN
                      /\ c.pc \in {"effect", "body", "record"} =>
                             c.own # None \/ (c.kind = "restore" /\ c.pc = "effect")
                      /\ c.own # None =>
                             /\ backups[c.own] # None
                             /\ c.pc # "store" => backups[c.own].post = None
                             /\ \A q \in Call \ {p} : call[q].own # c.own
    BY Zenon DEF BackupBeforeEffect
  <2> QED BY DEF IInv, Calls, Coherent, OwnRow
<1> QED BY <1>1, Invariance, PTL

\* A call that acts on a file nobody touched since it looked displaces what it backed up,
\* what its precondition names, or what the mutation it undoes left.
THEOREM EffectDisplacesWhatItSawTheorem == Spec => []EffectDisplacesWhatItSaw
<1>1. IInv => EffectDisplacesWhatItSaw
  BY DEF IInv, Calls, Coherent, Seen, EffectDisplacesWhatItSaw, At, IsKind
<1> QED BY <1>1, Invariance, PTL

\* A recorded outcome is an effect that happened.
THEOREM PostIsObservedTheorem == Spec => []PostIsObserved
<1>1. IInv => PostIsObserved BY DEF IInv
<1> QED BY <1>1, Invariance, PTL

\* The newest recorded change can be undone by compare-and-restore.
THEOREM LatestReceiptRestorableTheorem == Spec => []LatestReceiptRestorable
<1>1. IInv => LatestReceiptRestorable
  BY DistinctStates DEF IInv, TypeOK, Latest, PostIsObserved, LatestReceiptRestorable
<1> QED BY <1>1, Invariance, PTL

\* An answer kept for an idempotency key is true.
THEOREM KeptAnswerIsTrueTheorem == Spec => []KeptAnswerIsTrue
<1>1. IInv => KeptAnswerIsTrue BY DEF IInv
<1> QED BY <1>1, Invariance, PTL
=============================================================================
