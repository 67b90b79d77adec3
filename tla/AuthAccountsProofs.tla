------------------------- MODULE AuthAccountsProofs -------------------------
(* Proofs about AuthAccounts, for every value of its constants. *)
EXTENDS AuthAccounts, FiniteSetTheorems, TLAPS

----------------------------------------------------------------------------
(* Parts of the type invariant. *)

Tables ==
    /\ created \subseteq Users
    /\ row \in [Users -> Row]
    /\ passkeys \in [Users -> SUBSET Keys]
    /\ totp \in [Users -> Credential \cup {None}]
    /\ sessions \in [Users -> SUBSET SessionIds]
    /\ grant \in [Users -> Ids \cup {None}]
    /\ pending \in [Users -> SUBSET Ids]
    /\ now \in Steps
    /\ founders \subseteq Users
    /\ uses \in [Users -> [Steps -> Nat]]

Locals ==
    /\ pc \in [Handlers -> {"idle", "read", "count", "credential", "commit"}]
    /\ op \in [Handlers -> AllOps \cup {None}]
    /\ target \in [Handlers -> Users \cup {None}]
    /\ sess \in [Handlers -> SessionIds \cup {None}]
    /\ seen \in [Handlers -> Row \cup {None}]
    /\ input \in [Handlers -> Input \cup {None}]
    /\ held \in [Handlers -> Ids \cup Keys \cup {None}]
    /\ code \in [Handlers -> Code \cup {None}]
    /\ overtaken \subseteq Handlers

\* What a request has by now.
HasRead(h) ==
    pc[h] # "idle" =>
        /\ op[h] \in AllOps /\ target[h] \in Users
        /\ op[h] \in SessionOps => sess[h] \in SessionIds
        /\ pc[h] = "count" => op[h] \in Updates \cup {"noPassword"}
        /\ pc[h] = "credential" => op[h] \in {"setup", "confirm", "totp"}
        /\ pc[h] # "read" /\ op[h] \in Guarded \cup {"login"} => seen[h] \in Row
        /\ pc[h] # "read" /\ op[h] \in Updates => input[h] \in Input
        /\ pc[h] = "commit" /\ op[h] \in {"confirm", "totp"} => code[h] \in Code

\* The type invariant is its three parts, before and after a step.
LEMMA TypeParts ==
    /\ TypeOK <=> Tables /\ Locals /\ \A h \in Handlers : HasRead(h)
    /\ TypeOK' <=> Tables' /\ Locals' /\ \A h \in Handlers : HasRead(h)'
  BY DEF TypeOK, Tables, Locals, HasRead

\* Rows stay rows, and a column that is written has what was written.
LEMMA RoleWritten ==
  ASSUME NEW r \in Row, NEW a \in Roles
  PROVE  /\ [r EXCEPT !.role = a] \in Row /\ [r EXCEPT !.role = a].role = a
         /\ [r EXCEPT !.role = a].disabled = r.disabled
         /\ [r EXCEPT !.role = a].password = r.password
         /\ [r EXCEPT !.role = a].required = r.required
  BY DEF Row

LEMMA DisabledWritten ==
  ASSUME NEW r \in Row, NEW b \in BOOLEAN
  PROVE  /\ [r EXCEPT !.disabled = b] \in Row /\ [r EXCEPT !.disabled = b].disabled = b
         /\ [r EXCEPT !.disabled = b].role = r.role
         /\ [r EXCEPT !.disabled = b].password = r.password
         /\ [r EXCEPT !.disabled = b].required = r.required
  BY DEF Row

LEMMA RequiredWritten ==
  ASSUME NEW r \in Row, NEW b \in BOOLEAN
  PROVE  /\ [r EXCEPT !.required = b] \in Row /\ [r EXCEPT !.required = b].required = b
         /\ [r EXCEPT !.required = b].role = r.role
         /\ [r EXCEPT !.required = b].disabled = r.disabled
         /\ [r EXCEPT !.required = b].password = r.password
  BY DEF Row

LEMMA PasswordWritten ==
  ASSUME NEW r \in Row, NEW b \in BOOLEAN
  PROVE  /\ [r EXCEPT !.password = b] \in Row /\ [r EXCEPT !.password = b].password = b
         /\ [r EXCEPT !.password = b].role = r.role
         /\ [r EXCEPT !.password = b].disabled = r.disabled
         /\ [r EXCEPT !.password = b].required = r.required
  BY DEF Row

LEMMA RolePasswordWritten ==
  ASSUME NEW r \in Row, NEW a \in Roles, NEW b \in BOOLEAN
  PROVE  /\ [r EXCEPT !.role = a, !.password = b] \in Row
         /\ [r EXCEPT !.role = a, !.password = b].role = a
         /\ [r EXCEPT !.role = a, !.password = b].password = b
         /\ [r EXCEPT !.role = a, !.password = b].disabled = r.disabled
         /\ [r EXCEPT !.role = a, !.password = b].required = r.required
<1> DEFINE moved == [r EXCEPT !.role = a]
<1>1. moved \in Row /\ moved.role = a /\ moved.disabled = r.disabled
      /\ moved.required = r.required
  BY RoleWritten
<1>2. [r EXCEPT !.role = a, !.password = b] = [moved EXCEPT !.password = b]
  OBVIOUS
<1> HIDE DEF moved
<1>3. /\ [moved EXCEPT !.password = b] \in Row /\ [moved EXCEPT !.password = b].password = b
      /\ [moved EXCEPT !.password = b].role = moved.role
      /\ [moved EXCEPT !.password = b].disabled = moved.disabled
      /\ [moved EXCEPT !.password = b].required = moved.required
  BY <1>1, PasswordWritten
<1> QED
  BY <1>1, <1>2, <1>3

\* What an update makes of a row.
LEMMA RowApplied ==
  ASSUME NEW r \in Row, NEW i \in Input
  PROVE  /\ Applied(r, i) \in Row
         /\ Applied(r, i).disabled = r.disabled /\ Applied(r, i).required = r.required
         /\ Applied(r, i).role = IF i.role = None THEN r.role ELSE i.role
         /\ Applied(r, i).password = IF i.password = "keep" THEN r.password
                                     ELSE i.password = "set"
<1>1. PICK a \in Roles : a = IF i.role = None THEN r.role ELSE i.role
  BY DEF Row, Input
<1>2. PICK b \in BOOLEAN : b = IF i.password = "keep" THEN r.password ELSE i.password = "set"
  BY DEF Row
<1>3. Applied(r, i) = [r EXCEPT !.role = a, !.password = b]
  BY <1>1, <1>2 DEF Applied
<1> DEFINE moved == [r EXCEPT !.role = a]
<1>4. /\ moved \in Row /\ moved.role = a /\ moved.disabled = r.disabled
      /\ moved.password = r.password /\ moved.required = r.required
  BY DEF Row
<1>5. Applied(r, i) = [moved EXCEPT !.password = b]
  BY <1>3
<1> HIDE DEF moved
<1>6. /\ Applied(r, i) \in Row
      /\ Applied(r, i).disabled = moved.disabled /\ Applied(r, i).required = moved.required
      /\ Applied(r, i).role = moved.role /\ Applied(r, i).password = b
  BY <1>4, <1>5 DEF Row
<1> QED
  BY <1>1, <1>2, <1>4, <1>6, Zenon

\* A number that is left is one of the numbers, and is not taken.
LEMMA UnusedIsLeft ==
  ASSUME NEW ids, NEW taken, Left(ids, taken)
  PROVE  Unused(ids, taken) \in ids /\ Unused(ids, taken) \notin taken
<1>1. \E i \in ids : i \notin taken
  BY DEF Left
<1> QED
  BY <1>1 DEF Unused

----------------------------------------------------------------------------
(* Type correctness: the requests. *)

\* A request that ends leaves the others as they are.
LEMMA LeaveFrame ==
  ASSUME Locals, NEW h \in Handlers, Leave(h)
  PROVE  /\ pc'[h] = "idle" /\ seen'[h] = None
         /\ \A g \in Handlers \ {h} :
                /\ pc'[g] = pc[g] /\ op'[g] = op[g] /\ target'[g] = target[g]
                /\ sess'[g] = sess[g] /\ seen'[g] = seen[g] /\ input'[g] = input[g]
                /\ held'[g] = held[g] /\ code'[g] = code[g]
  BY DEF Locals, Leave

\* The types of what requests hold survive the end of one.
LEMMA LeaveTypes ==
  ASSUME Locals, \A g \in Handlers : HasRead(g), NEW h \in Handlers, Leave(h),
         overtaken' \subseteq Handlers
  PROVE  Locals' /\ \A g \in Handlers : HasRead(g)'
<1>1. /\ pc' \in [Handlers -> {"idle", "read", "count", "credential", "commit"}]
      /\ op' \in [Handlers -> AllOps \cup {None}]
      /\ target' \in [Handlers -> Users \cup {None}]
      /\ sess' \in [Handlers -> SessionIds \cup {None}]
  BY DEF Locals, Leave
<1>2. /\ seen' \in [Handlers -> Row \cup {None}]
      /\ input' \in [Handlers -> Input \cup {None}]
      /\ held' \in [Handlers -> Ids \cup Keys \cup {None}]
      /\ code' \in [Handlers -> Code \cup {None}]
  BY DEF Locals, Leave
<1>3. ASSUME NEW g \in Handlers PROVE HasRead(g)'
  <2>1. CASE g = h
    BY <2>1, LeaveFrame DEF HasRead
  <2>2. CASE g # h
    BY <2>2, LeaveFrame DEF HasRead
  <2> QED
    BY <2>1, <2>2
<1> QED
  BY <1>1, <1>2, <1>3 DEF Locals

\* Of a request whose transaction commits.
LEMMA CommitFacts ==
  ASSUME Locals, \A g \in Handlers : HasRead(g), NEW h \in Handlers, NEW o, Commits(h, o)
  PROVE  /\ op[h] = o /\ target[h] \in Users
         /\ o \in Guarded \cup {"login"} => seen[h] \in Row
         /\ o \in Updates => input[h] \in Input
         /\ o \in {"confirm", "totp"} => code[h] \in Code
         /\ o \in SessionOps => sess[h] \in SessionIds
         /\ Leave(h) /\ now' = now
  BY DEF Commits, HasRead

\* An authenticated request begins.
LEMMA AuthenticateTypes ==
  ASSUME TypeOK, NEW h \in Handlers, Authenticate(h)
  PROVE  TypeOK'
<1> USE TypeParts
<1>1. Tables'
  BY DEF Tables, Authenticate, tableVars, historyVars
<1>2. PICK u \in created, t \in Users, o \in Ops \cap (AdminOps \cup SelfOps) :
        /\ pc' = [pc EXCEPT ![h] = FirstStep(o)]
        /\ op' = [op EXCEPT ![h] = o]
        /\ target' = [target EXCEPT ![h] = t]
        /\ \E s \in sessions[u] :
              sess' = [sess EXCEPT ![h] = IF o \in SessionOps THEN s ELSE None]
  BY DEF Authenticate
<1>3. PICK s \in sessions[u] :
        sess' = [sess EXCEPT ![h] = IF o \in SessionOps THEN s ELSE None]
  BY <1>2
<1>4. s \in SessionIds /\ o \in AllOps
  BY DEF Tables, AllOps
<1>5. FirstStep(o) \in {"read", "commit"}
      /\ (FirstStep(o) # "read" =>
            o \notin Guarded \cup {"login"} \cup Updates \cup {"confirm", "totp"})
  BY DEF FirstStep, Guarded, Updates
<1>6. Locals'
  BY <1>2, <1>3, <1>4, <1>5 DEF Locals, Authenticate
<1>7. ASSUME NEW g \in Handlers PROVE HasRead(g)'
  <2>1. CASE g = h
    <3>1. /\ pc'[h] = FirstStep(o) /\ op'[h] = o /\ target'[h] = t
          /\ sess'[h] = IF o \in SessionOps THEN s ELSE None
      BY <1>2, <1>3 DEF Locals
    <3> QED
      BY <3>1, <2>1, <1>4, <1>5 DEF HasRead
  <2>2. CASE g # h
    BY <2>2, <1>2, <1>3 DEF HasRead, Locals, Authenticate
  <2> QED
    BY <2>1, <2>2
<1> QED
  BY <1>1, <1>6, <1>7

\* A request without a session begins.
LEMMA PublicTypes ==
  ASSUME TypeOK, NEW h \in Handlers,
         BeginBootstrap(h) \/ BeginEnrollment(h) \/ BeginLogin(h) \/ BeginTOTP(h)
  PROVE  TypeOK'
<1> USE TypeParts
<1> DEFINE Begun(o, u, first) ==
       /\ BeginPublic(h, o, u, first) /\ o \in PublicOps /\ u \in Users
       /\ first \in {"read", "commit"}
       /\ (first # "read" => o \notin Guarded \cup Updates \cup {"confirm", "totp"})
       /\ seen' \in [Handlers -> Row \cup {None}]
       /\ \A g \in Handlers \ {h} : seen'[g] = seen[g]
       /\ (o = "login" => seen'[h] \in Row)
       /\ held' \in [Handlers -> Ids \cup Keys \cup {None}]
<1>1. \E o, u, first : Begun(o, u, first)
  <2>1. CASE BeginBootstrap(h)
    BY <2>1 DEF BeginBootstrap, PublicOps, Guarded, Updates, Locals
  <2>2. CASE BeginEnrollment(h)
    BY <2>2 DEF BeginEnrollment, PublicOps, Tables, Locals
  <2>3. CASE BeginLogin(h)
    <3>0. PICK u \in created : \E k \in passkeys[u] \cup {None} :
            /\ BeginPublic(h, "login", u, "commit")
            /\ seen' = [seen EXCEPT ![h] = row[u]]
            /\ held' = [held EXCEPT ![h] = k]
      BY <2>3 DEF BeginLogin
    <3>1. PICK k \in passkeys[u] \cup {None} :
            /\ BeginPublic(h, "login", u, "commit")
            /\ seen' = [seen EXCEPT ![h] = row[u]]
            /\ held' = [held EXCEPT ![h] = k]
      BY <3>0
    <3>2. u \in Users /\ row[u] \in Row /\ k \in Ids \cup Keys \cup {None}
      BY DEF Tables
    <3>3. /\ seen' \in [Handlers -> Row \cup {None}] /\ seen'[h] \in Row
          /\ \A g \in Handlers \ {h} : seen'[g] = seen[g]
          /\ held' \in [Handlers -> Ids \cup Keys \cup {None}]
      BY <3>1, <3>2 DEF Locals
    <3> QED
      BY <3>1, <3>2, <3>3 DEF PublicOps, Guarded, Updates
  <2>4. CASE BeginTOTP(h)
    BY <2>4 DEF BeginTOTP, PublicOps, Tables, Locals
  <2> QED
    BY <2>1, <2>2, <2>3, <2>4
<1>2. PICK o, u, first : Begun(o, u, first)
  BY <1>1
<1>3. Tables'
  BY <1>2 DEF Tables, BeginPublic, tableVars, historyVars
<1>4. Locals'
  BY <1>2 DEF Locals, BeginPublic, AllOps
<1>5. ASSUME NEW g \in Handlers PROVE HasRead(g)'
  <2>1. CASE g = h
    <3>1. pc'[h] = first /\ op'[h] = o /\ target'[h] = u
      BY <1>2 DEF BeginPublic, Locals
    <3>2. o \notin SessionOps /\ o \notin Updates \cup Guarded \cup {"confirm"}
      BY <1>2 DEF PublicOps, SessionOps, Guarded, Updates
    <3> QED
      BY <1>2, <2>1, <3>1, <3>2 DEF HasRead, AllOps
  <2>2. CASE g # h
    BY <2>2, <1>2 DEF HasRead, Locals, BeginPublic
  <2> QED
    BY <2>1, <2>2
<1> QED
  BY <1>3, <1>4, <1>5

\* What a request reads has its type.
LEMMA ReadTypes ==
  ASSUME TypeOK, NEW h \in Handlers, Read(h)
  PROVE  TypeOK'
<1> USE TypeParts
<1>1. Tables'
  BY DEF Tables, Read, ReadUser, CountPasskeys, ReadForSetup, VerifyCode, tableVars, historyVars
<1>2. CASE ReadUser(h)
  <2>1. target[h] \in Users /\ op[h] \in AllOps
    BY <1>2 DEF ReadUser, HasRead
  <2>2. row[target[h]] \in Row
    BY <2>1 DEF Tables
  <2>3. PICK i \in IF op[h] \in Updates THEN Inputs(op[h], row[target[h]].role) ELSE {None} :
          /\ input' = [input EXCEPT ![h] = i]
          /\ pc' = [pc EXCEPT ![h] = NextStep(op[h], i)]
    BY <1>2 DEF ReadUser
  <2>4. i \in Input \cup {None} /\ (op[h] \in Updates => i \in Input)
    BY <2>3 DEF Inputs
  <2>5. NextStep(op[h], i) \in {"count", "credential", "commit"}
    BY DEF NextStep
  <2>6. Locals'
    BY <1>2, <2>2, <2>3, <2>4, <2>5 DEF Locals, ReadUser
  <2>7. ASSUME NEW g \in Handlers PROVE HasRead(g)'
    <3>1. CASE g = h
      <4>1. /\ pc'[h] = NextStep(op[h], i) /\ op'[h] = op[h] /\ target'[h] = target[h]
            /\ seen'[h] = row[target[h]] /\ input'[h] = i /\ sess'[h] = sess[h]
        BY <1>2, <2>3 DEF Locals, ReadUser
      <4>2. /\ NextStep(op[h], i) = "count" => op[h] \in Updates \cup {"noPassword"}
            /\ NextStep(op[h], i) = "credential" => op[h] \in {"setup", "confirm", "totp"}
            /\ NextStep(op[h], i) = "commit" => op[h] \notin {"confirm", "totp"}
        BY DEF NextStep
      <4>3. op[h] \in SessionOps => sess[h] \in SessionIds
        BY <1>2 DEF HasRead, ReadUser
      <4> QED
        BY <3>1, <4>1, <4>2, <4>3, <2>1, <2>2, <2>4, <2>5 DEF HasRead
    <3>2. CASE g # h
      BY <3>2, <1>2, <2>3 DEF HasRead, Locals, ReadUser
    <3> QED
      BY <3>1, <3>2
  <2> QED
    BY <1>1, <2>6, <2>7
<1>3. CASE CountPasskeys(h) \/ ReadForSetup(h)
  <2>1. /\ pc[h] \in {"count", "credential"} /\ pc' = [pc EXCEPT ![h] = "commit"]
        /\ pc[h] = "credential" => op[h] = "setup"
        /\ UNCHANGED localVars
    BY <1>3 DEF CountPasskeys, ReadForSetup
  <2>2. Locals'
    BY <2>1 DEF Locals, localVars
  <2>3. ASSUME NEW g \in Handlers PROVE HasRead(g)'
    BY <2>1 DEF HasRead, Locals, localVars, Updates
  <2> QED
    BY <1>1, <2>2, <2>3
<1>4. CASE VerifyCode(h)
  <2>1. target[h] \in Users
    BY <1>4 DEF VerifyCode, HasRead
  <2>2. totp[target[h]].secret \in Ids
    BY <1>4, <2>1 DEF VerifyCode, Tables, Credential
  <2>3. PICK t \in Steps : code' = [code EXCEPT ![h] = [secret |-> totp[target[h]].secret, step |-> t]]
    BY <1>4 DEF VerifyCode
  <2>4. [secret |-> totp[target[h]].secret, step |-> t] \in Code
    BY <2>2 DEF Code
  <2>5. Locals'
    BY <1>4, <2>3, <2>4 DEF Locals, VerifyCode
  <2>6. ASSUME NEW g \in Handlers PROVE HasRead(g)'
    BY <1>4, <2>3, <2>4 DEF HasRead, Locals, VerifyCode, Updates
  <2> QED
    BY <1>1, <2>5, <2>6
<1> QED
  BY <1>2, <1>3, <1>4 DEF Read

----------------------------------------------------------------------------
(* Type correctness: the transactions. *)

\* A new session has a number that the user has not, and that no other request holds.
LEMMA SessionEntered ==
  ASSUME Tables, NEW h, NEW u \in Users, NEW kept \in SUBSET SessionIds, EnterSession(h, u, kept)
  PROVE  /\ sessions' \in [Users -> SUBSET SessionIds]
         /\ \A v \in Users \ {u} : sessions'[v] = sessions[v]
         /\ \E s \in SessionIds :
               /\ sessions'[u] = kept \cup {s}
               /\ \A g \in Handlers \ {h} : target[g] = u => sess[g] # s
<1> DEFINE taken == kept \cup {sess[g] : g \in {f \in Handlers \ {h} : target[f] = u}}
<1>1. Left(SessionIds, taken)
      /\ sessions' = [sessions EXCEPT ![u] = kept \cup {Unused(SessionIds, taken)}]
  BY DEF EnterSession
<1>2. PICK s : s = Unused(SessionIds, taken)
  OBVIOUS
<1>3. s \in SessionIds /\ s \notin taken
  BY <1>1, <1>2, UnusedIsLeft
<1>4. sessions' = [sessions EXCEPT ![u] = kept \cup {s}]
  BY <1>1, <1>2
<1>5. \A g \in Handlers \ {h} : target[g] = u => sess[g] # s
  BY <1>3
<1> QED
  BY <1>3, <1>4, <1>5 DEF Tables

\* A row is written.
LEMMA RowKeepsTypes ==
  ASSUME Tables, Locals, NEW h \in Handlers, NEW u \in Users, NEW r \in Row, WriteRow(h, u, r)
  PROVE  /\ row' \in [Users -> Row] /\ overtaken' \subseteq Handlers
         /\ row'[u] = r /\ \A v \in Users \ {u} : row'[v] = row[v]
  BY DEF Tables, Locals, WriteRow

\* A new grant is not the one that another request holds.
LEMMA GrantMade ==
  ASSUME Tables, NEW h, NEW u \in Users, NewGrant(h, u)
  PROVE  /\ grant' \in [Users -> Ids \cup {None}]
         /\ \A v \in Users \ {u} : grant'[v] = grant[v]
         /\ \A g \in Handlers \ {h} : op[g] = "enroll" => held[g] # grant'[u]
<1>1. PICK i : i = Unused(Ids, HeldBy(h, "enroll"))
  OBVIOUS
<1>2. i \in Ids /\ i \notin HeldBy(h, "enroll") /\ grant' = [grant EXCEPT ![u] = i]
  BY <1>1, UnusedIsLeft DEF NewGrant
<1>3. \A g \in Handlers \ {h} : op[g] = "enroll" => held[g] # i
  BY <1>2 DEF HeldBy
<1> QED
  BY <1>2, <1>3 DEF Tables

\* A passkey is added.
LEMMA PasskeyAdded ==
  ASSUME Tables, NEW h, NEW u \in Users, AddPasskey(h, u)
  PROVE  /\ passkeys' \in [Users -> SUBSET Keys]
         /\ \A v \in Users : passkeys[v] \subseteq passkeys'[v]
         /\ \A v \in Users \ {u} : passkeys'[v] = passkeys[v]
<1> DEFINE taken == passkeys[u] \cup HeldBy(h, "login")
<1>1. PICK k : k = Unused(Keys, taken)
  OBVIOUS
<1>2. k \in Keys /\ passkeys' = [passkeys EXCEPT ![u] = @ \cup {k}]
  BY <1>1, UnusedIsLeft DEF AddPasskey
<1> QED
  BY <1>2 DEF Tables

\* A request that fails, and steps of nobody's request.
LEMMA QuietTypes ==
  ASSUME TypeOK, \/ \E h \in Handlers : Fail(h)
                 \/ \E u \in created : ExpireSession(u)
                 \/ Tick
                 \/ UNCHANGED vars
  PROVE  TypeOK'
<1> USE TypeParts
<1>1. CASE \E h \in Handlers : Fail(h)
  <2>1. PICK h \in Handlers : Fail(h)
    BY <1>1
  <2>2. Tables'
    BY <2>1 DEF Tables, Fail, tableVars, historyVars
  <2>3. overtaken' \subseteq Handlers
    BY <2>1 DEF Locals, Fail
  <2> QED
    BY <2>1, <2>2, <2>3, LeaveTypes DEF Fail
<1>2. CASE \E u \in created : ExpireSession(u)
  <2>1. Tables'
    BY <1>2 DEF Tables, ExpireSession, historyVars
  <2>2. Locals' /\ \A h \in Handlers : HasRead(h)'
    BY <1>2 DEF Locals, HasRead, ExpireSession, localVars
  <2> QED
    BY <2>1, <2>2
<1>3. CASE Tick
  <2>1. now' \in Steps
    BY <1>3, BoundsAssumption DEF Tick, Tables, Steps
  <2>2. Tables'
    BY <1>3, <2>1 DEF Tables, Tick, tableVars, historyVars
  <2>3. Locals' /\ \A h \in Handlers : HasRead(h)'
    BY <1>3 DEF Locals, HasRead, Tick, localVars
  <2> QED
    BY <2>2, <2>3
<1>4. CASE UNCHANGED vars
  BY <1>4 DEF Tables, Locals, HasRead, vars, tableVars, localVars, historyVars
<1> QED
  BY <1>1, <1>2, <1>3, <1>4

\* The transactions of users keep the types.
LEMMA UserTypes ==
  ASSUME TypeOK, NEW h \in Handlers, CommitUser(h)
  PROVE  TypeOK'
<1> USE TypeParts
<1> DEFINE u == target[h]
<1>1. CASE CommitBootstrap(h)
  <2>1. u \in Users /\ Leave(h) /\ now' = now
    BY <1>1, CommitFacts DEF CommitBootstrap
  <2>2. PICK b \in BOOLEAN : NewRow(h, u, "admin", b)
    BY <1>1 DEF CommitBootstrap
  <2>3. [row[u] EXCEPT !.role = "admin", !.password = b] \in Row
    <3>1. row[u] \in Row
      BY <2>1 DEF Tables
    <3> QED
      BY <3>1, RolePasswordWritten DEF Roles
  <2>4. row' \in [Users -> Row] /\ overtaken' \subseteq Handlers
    BY <2>1, <2>2, <2>3, RowKeepsTypes DEF NewRow
  <2>5. passkeys' \in [Users -> SUBSET Keys]
    BY <1>1, <2>1, PasskeyAdded DEF CommitBootstrap, Tables
  <2>6. sessions' \in [Users -> SUBSET SessionIds]
    BY <1>1, <2>1, SessionEntered DEF CommitBootstrap, AddSession, Tables
  <2>7. Tables'
    BY <1>1, <2>1, <2>2, <2>4, <2>5, <2>6 DEF Tables, CommitBootstrap, NewRow
  <2> QED
    BY <2>1, <2>4, <2>7, LeaveTypes
<1>2. CASE CommitCreate(h)
  <2>1. u \in Users /\ Leave(h) /\ now' = now
    BY <1>2, CommitFacts DEF CommitCreate
  <2>2. PICK a \in Roles, b \in BOOLEAN : NewRow(h, u, a, b)
    BY <1>2, BoundsAssumption DEF CommitCreate
  <2>3. [row[u] EXCEPT !.role = a, !.password = b] \in Row
    <3>1. row[u] \in Row
      BY <2>1 DEF Tables
    <3> QED
      BY <3>1, RolePasswordWritten
  <2>4. row' \in [Users -> Row] /\ overtaken' \subseteq Handlers
    BY <2>1, <2>2, <2>3, RowKeepsTypes DEF NewRow
  <2>5. grant' \in [Users -> Ids \cup {None}]
    BY <1>2, <2>1, GrantMade DEF CommitCreate
  <2>6. Tables'
    BY <1>2, <2>1, <2>2, <2>4, <2>5 DEF Tables, CommitCreate, NewRow, historyVars
  <2> QED
    BY <2>1, <2>4, <2>6, LeaveTypes
<1>3. CASE CommitUpdate(h)
  <2>1. u \in Users /\ Leave(h) /\ now' = now /\ input[h] \in Input
    BY <1>3, CommitFacts DEF CommitUpdate
  <2>2. Applied(row[u], input[h]) \in Row
    BY <2>1, RowApplied DEF Tables
  <2>3. row' \in [Users -> Row] /\ overtaken' \subseteq Handlers
    BY <1>3, <2>1, <2>2, RowKeepsTypes DEF CommitUpdate
  <2>4. /\ sessions' \in [Users -> SUBSET SessionIds]
        /\ pending' \in [Users -> SUBSET Ids]
    BY <1>3 DEF Tables, CommitUpdate
  <2>5. Tables'
    BY <1>3, <2>1, <2>3, <2>4 DEF Tables, CommitUpdate, historyVars
  <2> QED
    BY <2>1, <2>3, <2>5, LeaveTypes
<1>4. CASE CommitDisable(h) \/ CommitEnable(h)
  <2>1. u \in Users /\ Leave(h) /\ now' = now
    BY <1>4, CommitFacts DEF CommitDisable, CommitEnable
  <2>2. PICK b \in BOOLEAN : WriteRow(h, u, [row[u] EXCEPT !.disabled = b])
    BY <1>4 DEF CommitDisable, CommitEnable
  <2>3. [row[u] EXCEPT !.disabled = b] \in Row
    <3>1. row[u] \in Row
      BY <2>1 DEF Tables
    <3> QED
      BY <3>1, DisabledWritten
  <2>4. row' \in [Users -> Row] /\ overtaken' \subseteq Handlers
    BY <2>1, <2>2, <2>3, RowKeepsTypes
  <2>5. /\ sessions' \in [Users -> SUBSET SessionIds]
        /\ pending' \in [Users -> SUBSET Ids] /\ grant' \in [Users -> Ids \cup {None}]
    BY <1>4 DEF Tables, CommitDisable, CommitEnable, tokenVars
  <2>6. Tables'
    BY <1>4, <2>1, <2>4, <2>5 DEF Tables, CommitDisable, CommitEnable, historyVars
  <2> QED
    BY <2>1, <2>4, <2>6, LeaveTypes
<1>5. CASE CommitIssue(h)
  <2>1. u \in Users /\ Leave(h) /\ now' = now
    BY <1>5, CommitFacts DEF CommitIssue
  <2>2. grant' \in [Users -> Ids \cup {None}]
    BY <1>5, <2>1, GrantMade DEF CommitIssue
  <2>3. Tables' /\ overtaken' \subseteq Handlers
    BY <1>5, <2>1, <2>2 DEF Tables, Locals, CommitIssue, KeepRow, historyVars
  <2> QED
    BY <2>1, <2>3, LeaveTypes
<1> QED
  BY <1>1, <1>2, <1>3, <1>4, <1>5 DEF CommitUser

\* The sessions and pending challenges that OnlyNewSession leaves.
LEMMA OnlyNewSessionTypes ==
  ASSUME Tables, NEW h, NEW u \in Users, OnlyNewSession(h, u)
  PROVE  /\ sessions' \in [Users -> SUBSET SessionIds]
         /\ pending' \in [Users -> SUBSET Ids] /\ pending'[u] = {}
         /\ \A v \in Users \ {u} : pending'[v] = pending[v]
<1>1. {} \in SUBSET SessionIds /\ EnterSession(h, u, {})
  BY DEF OnlyNewSession
<1>2. sessions' \in [Users -> SUBSET SessionIds]
  BY <1>1, SessionEntered
<1> QED
  BY <1>2 DEF OnlyNewSession, Tables

\* The transactions of passkeys and passwords keep the types.
LEMMA MethodTypes ==
  ASSUME TypeOK, NEW h \in Handlers, CommitMethod(h)
  PROVE  TypeOK'
<1> USE TypeParts
<1> DEFINE u == target[h]
<1>1. CASE CommitEnroll(h)
  <2>1. u \in Users /\ Leave(h) /\ now' = now
    BY <1>1, CommitFacts DEF CommitEnroll
  <2>2. passkeys' \in [Users -> SUBSET Keys]
    BY <1>1, <2>1, PasskeyAdded DEF CommitEnroll
  <2>3. sessions' \in [Users -> SUBSET SessionIds]
    <3>1. sessions[u] \in SUBSET SessionIds
      BY <2>1 DEF Tables
    <3>2. EnterSession(h, u, sessions[u])
      BY <1>1 DEF CommitEnroll, AddSession
    <3> QED
      BY <2>1, <3>1, <3>2, SessionEntered
  <2>4. Tables' /\ overtaken' \subseteq Handlers
    BY <1>1, <2>1, <2>2, <2>3 DEF Tables, Locals, CommitEnroll, KeepRow, historyVars
  <2> QED
    BY <2>1, <2>4, LeaveTypes
<1>2. CASE CommitPasskey(h)
  <2>1. u \in Users /\ Leave(h) /\ now' = now
    BY <1>2, CommitFacts DEF CommitPasskey
  <2>2. passkeys' \in [Users -> SUBSET Keys]
    BY <1>2, <2>1, PasskeyAdded DEF CommitPasskey
  <2>3. sessions[u] \ {sess[h]} \in SUBSET SessionIds
    BY <2>1 DEF Tables
  <2>4. sessions' \in [Users -> SUBSET SessionIds]
    BY <1>2, <2>1, <2>3, SessionEntered DEF CommitPasskey
  <2>5. Tables' /\ overtaken' \subseteq Handlers
    BY <1>2, <2>1, <2>2, <2>4 DEF Tables, Locals, CommitPasskey, KeepRow, historyVars
  <2> QED
    BY <2>1, <2>5, LeaveTypes
<1>3. CASE CommitNoPasskey(h)
  <2>1. u \in Users /\ Leave(h) /\ now' = now /\ row[u] \in Row
    BY <1>3, CommitFacts DEF CommitNoPasskey, Tables
  <2>2. row' \in [Users -> Row] /\ overtaken' \subseteq Handlers
    BY <1>3, <2>1, RowKeepsTypes DEF CommitNoPasskey
  <2>3. passkeys' \in [Users -> SUBSET Keys]
    <3>1. PICK k \in passkeys[u] : passkeys' = [passkeys EXCEPT ![u] = @ \ {k}]
      BY <1>3 DEF CommitNoPasskey
    <3> QED
      BY <2>1, <3>1 DEF Tables
  <2>4. sessions' \in [Users -> SUBSET SessionIds] /\ pending' \in [Users -> SUBSET Ids]
    BY <1>3, <2>1, OnlyNewSessionTypes DEF CommitNoPasskey
  <2>5. Tables'
    BY <1>3, <2>1, <2>2, <2>3, <2>4 DEF Tables, CommitNoPasskey, historyVars
  <2> QED
    BY <2>1, <2>2, <2>5, LeaveTypes
<1>4. CASE CommitPassword(h)
  <2>1. u \in Users /\ Leave(h) /\ now' = now
    BY <1>4, CommitFacts DEF CommitPassword
  <2>2. PICK b \in BOOLEAN : WriteRow(h, u, [row[u] EXCEPT !.password = b])
    BY <1>4 DEF CommitPassword
  <2>3. [row[u] EXCEPT !.password = b] \in Row
    <3>1. row[u] \in Row
      BY <2>1 DEF Tables
    <3> QED
      BY <3>1, PasswordWritten
  <2>4. row' \in [Users -> Row] /\ overtaken' \subseteq Handlers
    BY <2>1, <2>2, <2>3, RowKeepsTypes
  <2>5. sessions' \in [Users -> SUBSET SessionIds] /\ pending' \in [Users -> SUBSET Ids]
    BY <1>4, <2>1, OnlyNewSessionTypes DEF CommitPassword
  <2>6. Tables'
    BY <1>4, <2>1, <2>4, <2>5 DEF Tables, CommitPassword, historyVars
  <2> QED
    BY <2>1, <2>4, <2>6, LeaveTypes
<1> QED
  BY <1>1, <1>2, <1>3, <1>4 DEF CommitMethod

\* A credential that is written stays one.
LEMMA CredentialWritten ==
  ASSUME NEW c \in Credential, NEW n \in Nat
  PROVE  /\ [c EXCEPT !.last = n] \in Credential
         /\ [c EXCEPT !.last = n].last = n /\ [c EXCEPT !.last = n].secret = c.secret
         /\ [c EXCEPT !.last = n].confirmed = c.confirmed
  BY DEF Credential

LEMMA CredentialConfirmed ==
  ASSUME NEW c \in Credential, NEW n \in Nat
  PROVE  /\ [c EXCEPT !.confirmed = TRUE, !.last = n] \in Credential
         /\ [c EXCEPT !.confirmed = TRUE, !.last = n].last = n
         /\ [c EXCEPT !.confirmed = TRUE, !.last = n].secret = c.secret
         /\ [c EXCEPT !.confirmed = TRUE, !.last = n].confirmed = TRUE
<1> DEFINE moved == [c EXCEPT !.confirmed = TRUE]
<1>1. moved \in Credential /\ moved.confirmed = TRUE /\ moved.secret = c.secret
  BY DEF Credential
<1>2. [c EXCEPT !.confirmed = TRUE, !.last = n] = [moved EXCEPT !.last = n]
  OBVIOUS
<1> HIDE DEF moved
<1>3. /\ [moved EXCEPT !.last = n] \in Credential
      /\ [moved EXCEPT !.last = n].last = n
      /\ [moved EXCEPT !.last = n].secret = moved.secret
      /\ [moved EXCEPT !.last = n].confirmed = moved.confirmed
  BY <1>1, CredentialWritten
<1> QED
  BY <1>1, <1>2, <1>3

\* A login and a confirmation leave the secret, confirmed, and note the step.
LEMMA AcceptedCredential ==
  ASSUME Tables, NEW u \in Users, NEW c \in Code, totp[u] # None, NEW d,
         \/ totp[u].confirmed = TRUE /\ d = [totp[u] EXCEPT !.last = c.step]
         \/ d = [totp[u] EXCEPT !.confirmed = TRUE, !.last = c.step],
         totp' = [totp EXCEPT ![u] = d]
  PROVE  /\ totp' \in [Users -> Credential \cup {None}]
         /\ totp'[u] = d /\ d \in Credential /\ d.last = c.step /\ d.secret = totp[u].secret
         /\ d.confirmed
         /\ \A v \in Users \ {u} : totp'[v] = totp[v]
<1>1. PICK k \in Credential : k = totp[u]
  BY DEF Tables
<1>2. PICK n \in Nat : n = c.step
  BY BoundsAssumption DEF Code, Steps
<1>3. /\ [k EXCEPT !.last = n] \in Credential
      /\ [k EXCEPT !.last = n].last = n /\ [k EXCEPT !.last = n].secret = k.secret
      /\ [k EXCEPT !.last = n].confirmed = k.confirmed
  BY CredentialWritten
<1>4. /\ [k EXCEPT !.confirmed = TRUE, !.last = n] \in Credential
      /\ [k EXCEPT !.confirmed = TRUE, !.last = n].last = n
      /\ [k EXCEPT !.confirmed = TRUE, !.last = n].secret = k.secret
      /\ [k EXCEPT !.confirmed = TRUE, !.last = n].confirmed
  BY CredentialConfirmed
<1>5. d \in Credential /\ d.last = c.step /\ d.secret = totp[u].secret /\ d.confirmed
  <2>1. CASE totp[u].confirmed = TRUE /\ d = [totp[u] EXCEPT !.last = c.step]
    <3>1. k.confirmed = TRUE /\ d = [k EXCEPT !.last = n]
      BY <2>1, <1>1, <1>2
    <3> QED
      BY <3>1, <1>1, <1>2, <1>3, Zenon
  <2>2. CASE d = [totp[u] EXCEPT !.confirmed = TRUE, !.last = c.step]
    <3>1. d = [k EXCEPT !.confirmed = TRUE, !.last = n]
      BY <2>2, <1>1, <1>2
    <3> QED
      BY <3>1, <1>1, <1>2, <1>4, Zenon
  <2> QED
    BY <2>1, <2>2
<1>6. /\ totp' \in [Users -> Credential \cup {None}] /\ totp'[u] = d
      /\ \A v \in Users \ {u} : totp'[v] = totp[v]
  BY <1>5 DEF Tables
<1> QED
  BY <1>5, <1>6

\* An accepted code is counted with its step only.
LEMMA AcceptTypes ==
  ASSUME Tables, NEW u \in Users, NEW c \in Code, Accept(u, c)
  PROVE  uses' \in [Users -> [Steps -> Nat]] /\ founders' = founders
<1>1. c.step \in Steps
  BY DEF Code
<1> QED
  BY <1>1 DEF Accept, Tables

\* The transactions of sessions and of the second factor keep the types.
LEMMA SessionTypes ==
  ASSUME TypeOK, NEW h \in Handlers, CommitSession(h)
  PROVE  TypeOK'
<1> USE TypeParts
<1> DEFINE u == target[h]
<1>1. CASE CommitLogin(h)
  <2>1. u \in Users /\ Leave(h) /\ now' = now
    BY <1>1, CommitFacts DEF CommitLogin
  <2>2. sessions' \in [Users -> SUBSET SessionIds] /\ pending' \in [Users -> SUBSET Ids]
    <3>1. CASE seen[h].required
      <4> DEFINE taken == pending[u] \cup HeldBy(h, "totp")
      <4>1. PICK c : c = Unused(Ids, taken)
        OBVIOUS
      <4>2. Left(Ids, taken) /\ pending' = [pending EXCEPT ![u] = @ \cup {c}]
            /\ UNCHANGED sessions
        BY <1>1, <3>1, <4>1 DEF CommitLogin
      <4>3. c \in Ids
        BY <4>1, <4>2, UnusedIsLeft
      <4> QED
        BY <2>1, <4>2, <4>3 DEF Tables
    <3>2. CASE ~seen[h].required
      BY <1>1, <2>1, <3>2, SessionEntered DEF CommitLogin, AddSession, Tables
    <3> QED
      BY <3>1, <3>2
  <2>3. Tables' /\ overtaken' \subseteq Handlers
    BY <1>1, <2>1, <2>2 DEF Tables, Locals, CommitLogin, KeepRow, historyVars
  <2> QED
    BY <2>1, <2>3, LeaveTypes
<1>2. CASE CommitTOTP(h)
  <2>1. u \in Users /\ Leave(h) /\ now' = now /\ code[h] \in Code
    BY <1>2, CommitFacts DEF CommitTOTP
  <2>2. totp' \in [Users -> Credential \cup {None}]
    <3>1. totp[u] # None /\ totp[u].confirmed
          /\ totp' = [totp EXCEPT ![u] = [totp[u] EXCEPT !.last = code[h].step]]
      BY <1>2 DEF CommitTOTP
    <3>2. totp[u].confirmed = TRUE
      BY <2>1, <3>1 DEF Tables, Credential
    <3> QED
      BY <2>1, <3>1, <3>2, AcceptedCredential
  <2>3. uses' \in [Users -> [Steps -> Nat]] /\ founders' = founders
    BY <1>2, <2>1, AcceptTypes DEF CommitTOTP
  <2>4. sessions' \in [Users -> SUBSET SessionIds]
    <3>1. sessions[u] \in SUBSET SessionIds
      BY <2>1 DEF Tables
    <3>2. EnterSession(h, u, sessions[u])
      BY <1>2 DEF CommitTOTP, AddSession
    <3> QED
      BY <2>1, <3>1, <3>2, SessionEntered
  <2>5. pending' \in [Users -> SUBSET Ids]
    BY <1>2, <2>1 DEF Tables, CommitTOTP
  <2>6. UNCHANGED <<created, passkeys, grant, row, now>> /\ overtaken' \subseteq Handlers
    BY <1>2, <2>1 DEF Locals, CommitTOTP, KeepRow
  <2>7. Tables'
    BY <2>2, <2>3, <2>4, <2>5, <2>6 DEF Tables
  <2> QED
    BY <2>1, <2>6, <2>7, LeaveTypes
<1>3. CASE CommitSetup(h)
  <2>1. u \in Users /\ Leave(h) /\ now' = now
    BY <1>3, CommitFacts DEF CommitSetup
  <2>2. PICK i : i = Unused(Ids, Verified(h))
    OBVIOUS
  <2>3. i \in Ids
    BY <1>3, <2>2, UnusedIsLeft DEF CommitSetup
  <2>4. [secret |-> i, confirmed |-> FALSE, last |-> 0] \in Credential
    BY <2>3 DEF Credential
  <2>5. totp' \in [Users -> Credential \cup {None}]
    BY <1>3, <2>1, <2>2, <2>4 DEF CommitSetup, Tables
  <2>6. uses' \in [Users -> [Steps -> Nat]]
    BY <1>3, <2>1 DEF CommitSetup, Tables
  <2>7. Tables' /\ overtaken' \subseteq Handlers
    BY <1>3, <2>1, <2>5, <2>6 DEF Tables, Locals, CommitSetup, KeepRow, tokenVars
  <2> QED
    BY <2>1, <2>7, LeaveTypes
<1>4. CASE CommitConfirm(h)
  <2>1. u \in Users /\ Leave(h) /\ now' = now /\ code[h] \in Code
    BY <1>4, CommitFacts DEF CommitConfirm
  <2>2. totp' \in [Users -> Credential \cup {None}]
    <3>1. totp[u] # None
          /\ totp' = [totp EXCEPT ![u] = [totp[u] EXCEPT !.confirmed = TRUE,
                                                          !.last = code[h].step]]
      BY <1>4, <2>1 DEF CommitConfirm, Tables
    <3> QED
      BY <2>1, <3>1, AcceptedCredential
  <2>3. uses' \in [Users -> [Steps -> Nat]] /\ founders' = founders
    BY <1>4, <2>1, AcceptTypes DEF CommitConfirm
  <2>4. [row[u] EXCEPT !.required = TRUE] \in Row
    <3>1. row[u] \in Row
      BY <2>1 DEF Tables
    <3> QED
      BY <3>1, RequiredWritten
  <2>5. row' \in [Users -> Row] /\ overtaken' \subseteq Handlers
    BY <1>4, <2>1, <2>4, RowKeepsTypes DEF CommitConfirm
  <2>6. sessions' \in [Users -> SUBSET SessionIds] /\ pending' \in [Users -> SUBSET Ids]
    BY <1>4, <2>1, OnlyNewSessionTypes DEF CommitConfirm
  <2>7. Tables'
    BY <1>4, <2>1, <2>2, <2>3, <2>5, <2>6 DEF Tables, CommitConfirm
  <2> QED
    BY <2>1, <2>5, <2>7, LeaveTypes
<1>5. CASE CommitNoTOTP(h)
  <2>1. u \in Users /\ Leave(h) /\ now' = now
    BY <1>5, CommitFacts DEF CommitNoTOTP
  <2>2. totp' \in [Users -> Credential \cup {None}]
    BY <1>5 DEF CommitNoTOTP, Tables
  <2>3. [row[u] EXCEPT !.required = FALSE] \in Row
    <3>1. row[u] \in Row
      BY <2>1 DEF Tables
    <3> QED
      BY <3>1, RequiredWritten
  <2>4. row' \in [Users -> Row] /\ overtaken' \subseteq Handlers
    BY <1>5, <2>1, <2>3, RowKeepsTypes DEF CommitNoTOTP
  <2>5. sessions' \in [Users -> SUBSET SessionIds] /\ pending' \in [Users -> SUBSET Ids]
    BY <1>5, <2>1, OnlyNewSessionTypes DEF CommitNoTOTP
  <2>6. Tables'
    BY <1>5, <2>1, <2>2, <2>4, <2>5 DEF Tables, CommitNoTOTP, historyVars
  <2> QED
    BY <2>1, <2>4, <2>6, LeaveTypes
<1>6. CASE CommitLogout(h)
  <2>1. u \in Users /\ Leave(h) /\ now' = now
    BY <1>6, CommitFacts DEF CommitLogout
  <2>2. sessions' \in [Users -> SUBSET SessionIds] /\ pending' \in [Users -> SUBSET Ids]
    BY <1>6, <2>1 DEF CommitLogout, Tables
  <2>3. Tables' /\ overtaken' \subseteq Handlers
    BY <1>6, <2>1, <2>2 DEF Tables, Locals, CommitLogout, KeepRow, historyVars
  <2> QED
    BY <2>1, <2>3, LeaveTypes
<1> QED
  BY <1>1, <1>2, <1>3, <1>4, <1>5, <1>6 DEF CommitSession

\* The types hold at the beginning, and every step keeps them.
LEMMA TypeInit == Init => TypeOK
<1> SUFFICES ASSUME Init PROVE TypeOK
  OBVIOUS
<1>1. [role |-> "member", disabled |-> FALSE, password |-> FALSE, required |-> FALSE] \in Row
  BY DEF Row, Roles
<1>2. Tables
  BY <1>1, BoundsAssumption DEF Init, Tables, Steps
<1>3. Locals /\ \A h \in Handlers : HasRead(h)
  BY DEF Init, Locals, HasRead
<1> QED
  BY <1>2, <1>3, TypeParts

LEMMA TypeNext == TypeOK /\ [Next]_vars => TypeOK'
<1> SUFFICES ASSUME TypeOK, [Next]_vars PROVE TypeOK'
  OBVIOUS
<1>1. ASSUME NEW h \in Handlers, Begin(h) PROVE TypeOK'
  BY <1>1, AuthenticateTypes, PublicTypes DEF Begin
<1>2. ASSUME NEW h \in Handlers, Read(h) PROVE TypeOK'
  BY <1>2, ReadTypes
<1>3. ASSUME NEW h \in Handlers, CommitUser(h) \/ CommitMethod(h) \/ CommitSession(h) PROVE TypeOK'
  BY <1>3, UserTypes, MethodTypes, SessionTypes
<1>4. CASE \/ \E h \in Handlers : Fail(h)
           \/ \E u \in created : ExpireSession(u)
           \/ Tick
           \/ UNCHANGED vars
  BY <1>4, QuietTypes
<1> QED
  BY <1>1, <1>2, <1>3, <1>4 DEF Next

\* Every variable has its type, and no step works with a row, an input, a session or a code
\* that its request has not got: for any users, requests and operations.
THEOREM TypeCorrect == Spec => []TypeOK
  BY TypeInit, TypeNext, PTL DEF Spec

----------------------------------------------------------------------------
(* What a step does to users, their rows and what requests have read. *)

\* The requests other than h go on as before.
Others(h) ==
    \A g \in Handlers \ {h} :
        /\ pc'[g] = pc[g] /\ op'[g] = op[g] /\ target'[g] = target[g]
        /\ seen'[g] = seen[g] /\ input'[g] = input[g]

\* A request that is about to take a password away.
Unsets(o, i) == o = "noPassword" \/ (o \in Updates /\ i.password = "unset")

BeginStep(h) ==
    /\ UNCHANGED <<created, row, passkeys, overtaken, founders>>
    /\ Others(h)
    /\ pc[h] = "idle" /\ pc'[h] # "idle" /\ target'[h] \in Users
    /\ op'[h] # "bootstrap" => created # {}
    /\ op'[h] \notin {"bootstrap", "create"} => target'[h] \in created
    /\ pc'[h] = "commit" => op'[h] \notin Updates \cup {"noPassword"}
    /\ seen'[h] \in {seen[h], row[target'[h]]}

ReadStep(h) ==
    /\ UNCHANGED <<created, row, passkeys, overtaken, op, target, founders>>
    /\ Others(h)
    /\ pc[h] # "idle" /\ target[h] \in Users
    /\ pc'[h] # "idle" /\ seen'[h] \in {seen[h], row[target[h]]}
    /\ pc'[h] = "commit" /\ Unsets(op[h], input'[h]) => passkeys[target[h]] # {}

\* The request ends and no row is written.
QuietEnd(h) ==
    /\ Leave(h) /\ KeepRow(h)
    /\ created' = created /\ founders' = founders
    /\ \A u \in Users : passkeys[u] \subseteq passkeys'[u]

\* The request ends with a new user.
CreatingEnd(h) ==
    /\ pc[h] = "commit" /\ target[h] \in Users
    /\ Leave(h)
    /\ created' = created \cup {target[h]} /\ target[h] \notin created
    /\ op[h] \in {"bootstrap", "create"}
    /\ founders' = IF op[h] = "bootstrap" THEN founders \cup {target[h]} ELSE founders
    /\ op[h] = "bootstrap" => created = {}
    /\ \E a \in Roles, b \in BOOLEAN :
        /\ op[h] = "bootstrap" => a = "admin"
        /\ WriteRow(h, target[h], [row[target[h]] EXCEPT !.role = a, !.password = b])
    /\ \A u \in Users : passkeys[u] \subseteq passkeys'[u]

\* What a transaction may do to the role, the state and the password of a user whose row
\* was r, and to the passkeys of that user.
RoleKept(h, r) ==
    LET old == row[target[h]] IN
    \/ (old.role = "admin" => r.role = "admin") /\ (r.disabled => old.disabled)
    \/ h \notin overtaken /\ seen[h] \in Row /\ NotLastAdmin(h)

PasswordKept(h, r) ==
    \/ row[target[h]].password => r.password
    \/ h \notin overtaken /\ Unsets(op[h], input[h]) /\ op[h] \in Guarded

PasskeysKept(h) ==
    \/ passkeys[target[h]] \subseteq passkeys'[target[h]]
    \/ /\ row'[target[h]] = row[target[h]]
       /\ \E k \in passkeys[target[h]] :
            /\ passkeys'[target[h]] = passkeys[target[h]] \ {k}
            /\ \/ Cardinality(passkeys[target[h]]) > 1
               \/ PasswordLoginEnabled /\ row[target[h]].password

\* The request ends, and the row of its user is written.
WritingEnd(h) ==
    /\ pc[h] = "commit" /\ target[h] \in Users
    /\ Leave(h)
    /\ created' = created /\ founders' = founders
    /\ op[h] \notin {"bootstrap", "create"}
    /\ \E r \in Row : WriteRow(h, target[h], r) /\ RoleKept(h, r) /\ PasswordKept(h, r)
    /\ PasskeysKept(h)
    /\ \A u \in Users \ {target[h]} : passkeys'[u] = passkeys[u]

\* Every beginning of a request is a BeginStep.
LEMMA BeginCases ==
  ASSUME TypeOK, NEW h \in Handlers, Begin(h)
  PROVE  BeginStep(h)
<1> USE TypeParts
<1>1. CASE Authenticate(h)
  <2>1. PICK u \in created, t \in Users, o \in Ops \cap (AdminOps \cup SelfOps) :
          /\ pc' = [pc EXCEPT ![h] = FirstStep(o)]
          /\ op' = [op EXCEPT ![h] = o]
          /\ target' = [target EXCEPT ![h] = t]
          /\ o # "create" => t \in created
    BY <1>1 DEF Authenticate
  <2>2. o # "bootstrap" /\ FirstStep(o) # "idle" /\ (FirstStep(o) = "commit" => o \notin Updates \cup {"noPassword"})
    BY DEF FirstStep, Updates, AdminOps, SelfOps
  <2>3. pc'[h] = FirstStep(o) /\ op'[h] = o /\ target'[h] = t
    BY <2>1 DEF Locals
  <2>4. Others(h)
    BY <1>1, <2>1 DEF Authenticate, Others
  <2> QED
    BY <1>1, <2>1, <2>2, <2>3, <2>4 DEF Authenticate, BeginStep, tableVars, historyVars
<1>2. CASE BeginBootstrap(h)
  BY <1>2 DEF BeginBootstrap, BeginPublic, BeginStep, Others, tableVars, historyVars, Locals,
              Updates
<1>3. CASE BeginEnrollment(h)
  BY <1>3 DEF BeginEnrollment, BeginPublic, BeginStep, Others, tableVars, historyVars, Locals,
              Updates, Tables
<1>4. CASE BeginLogin(h)
  <2>1. PICK u \in created :
          BeginPublic(h, "login", u, "commit") /\ seen' = [seen EXCEPT ![h] = row[u]]
    BY <1>4 DEF BeginLogin
  <2>2. pc'[h] = "commit" /\ op'[h] = "login" /\ target'[h] = u /\ seen'[h] = row[u]
        /\ u \in Users
    BY <2>1 DEF BeginPublic, Locals, Tables
  <2>3. Others(h)
    BY <2>1 DEF BeginPublic, Others
  <2> QED
    BY <2>1, <2>2, <2>3 DEF BeginPublic, BeginStep, tableVars, historyVars, Updates
<1>5. CASE BeginTOTP(h)
  BY <1>5 DEF BeginTOTP, BeginPublic, BeginStep, Others, tableVars, historyVars, Locals,
              Updates, Tables
<1> QED
  BY <1>1, <1>2, <1>3, <1>4, <1>5 DEF Begin

\* Everything that a request reads is a ReadStep.
LEMMA ReadCases ==
  ASSUME TypeOK, NEW h \in Handlers, Read(h)
  PROVE  ReadStep(h)
<1> USE TypeParts
<1>0. pc[h] # "idle" /\ target[h] \in Users
  BY DEF Read, ReadUser, CountPasskeys, ReadForSetup, VerifyCode, HasRead
<1>1. CASE ReadUser(h)
  <2>1. PICK i \in IF op[h] \in Updates THEN Inputs(op[h], row[target[h]].role) ELSE {None} :
          /\ input' = [input EXCEPT ![h] = i]
          /\ pc' = [pc EXCEPT ![h] = NextStep(op[h], i)]
    BY <1>1 DEF ReadUser
  <2>2. /\ NextStep(op[h], i) # "idle"
        /\ NextStep(op[h], i) = "commit" => ~Unsets(op[h], i)
    BY DEF NextStep, Unsets
  <2>3. pc'[h] = NextStep(op[h], i) /\ input'[h] = i /\ seen'[h] = row[target[h]]
    BY <1>1, <2>1 DEF Locals, ReadUser
  <2>4. Others(h)
    BY <1>1, <2>1 DEF ReadUser, Others
  <2> QED
    BY <1>0, <1>1, <2>2, <2>3, <2>4 DEF ReadUser, ReadStep, tableVars, historyVars
<1>2. CASE CountPasskeys(h)
  BY <1>0, <1>2 DEF CountPasskeys, ReadStep, Others, Locals, tableVars, localVars, historyVars
<1>3. CASE ReadForSetup(h)
  BY <1>0, <1>3 DEF ReadForSetup, ReadStep, Others, Locals, tableVars, localVars, historyVars,
                    Unsets, Updates
<1>4. CASE VerifyCode(h)
  BY <1>0, <1>4 DEF VerifyCode, ReadStep, Others, Locals, tableVars, historyVars, Unsets, Updates
<1> QED
  BY <1>1, <1>2, <1>3, <1>4 DEF Read

\* A transaction that writes no row but the one of a new user.
LEMMA NewUserCases ==
  ASSUME TypeOK, NEW h \in Handlers, CommitBootstrap(h) \/ CommitCreate(h)
  PROVE  CreatingEnd(h)
<1> USE TypeParts
<1> DEFINE u == target[h]
<1>1. CASE CommitBootstrap(h)
  <2>1. u \in Users /\ Leave(h) /\ op[h] = "bootstrap" /\ pc[h] = "commit"
    BY <1>1, CommitFacts DEF CommitBootstrap, Commits
  <2>2. PICK b \in BOOLEAN : NewRow(h, u, "admin", b)
    BY <1>1 DEF CommitBootstrap
  <2>3. \A v \in Users : passkeys[v] \subseteq passkeys'[v]
    BY <1>1, <2>1, PasskeyAdded DEF CommitBootstrap
  <2>4. created = {} /\ founders' = founders \cup {u}
    BY <1>1 DEF CommitBootstrap
  <2>5. u \notin created /\ created' = created \cup {u} /\ "admin" \in Roles
        /\ WriteRow(h, u, [row[u] EXCEPT !.role = "admin", !.password = b])
    BY <2>2 DEF NewRow, Roles
  <2> QED
    BY <2>1, <2>3, <2>4, <2>5 DEF CreatingEnd
<1>2. CASE CommitCreate(h)
  <2>1. u \in Users /\ Leave(h) /\ op[h] = "create" /\ pc[h] = "commit"
    BY <1>2, CommitFacts DEF CommitCreate, Commits
  <2>2. PICK a \in Roles, b \in BOOLEAN : NewRow(h, u, a, b)
    BY <1>2, BoundsAssumption DEF CommitCreate
  <2>3. u \notin created /\ created' = created \cup {u}
        /\ WriteRow(h, u, [row[u] EXCEPT !.role = a, !.password = b])
    BY <2>2 DEF NewRow
  <2>4. passkeys' = passkeys /\ founders' = founders
    BY <1>2 DEF CommitCreate, historyVars
  <2> QED
    BY <2>1, <2>3, <2>4 DEF CreatingEnd
<1> QED
  BY <1>1, <1>2

\* The transactions that leave the rows alone.
LEMMA QuietCases ==
  ASSUME TypeOK, NEW h \in Handlers,
         \/ CommitIssue(h) \/ CommitEnroll(h) \/ CommitPasskey(h) \/ CommitLogin(h)
         \/ CommitTOTP(h) \/ CommitSetup(h) \/ CommitLogout(h) \/ Fail(h)
  PROVE  QuietEnd(h)
<1> USE TypeParts
<1>1. CASE CommitIssue(h) \/ CommitLogin(h) \/ CommitTOTP(h) \/ CommitSetup(h) \/ CommitLogout(h)
  BY <1>1 DEF CommitIssue, CommitLogin, CommitTOTP, CommitSetup, CommitLogout, Commits,
              QuietEnd, Accept, historyVars
<1>2. CASE CommitEnroll(h)
  BY <1>2, CommitFacts, PasskeyAdded DEF CommitEnroll, QuietEnd, historyVars
<1>3. CASE CommitPasskey(h)
  BY <1>3, CommitFacts, PasskeyAdded DEF CommitPasskey, QuietEnd, historyVars
<1>4. CASE Fail(h)
  BY <1>4 DEF Fail, QuietEnd, KeepRow, tableVars, historyVars
<1> QED
  BY <1>1, <1>2, <1>3, <1>4

\* The transactions that write the row of a user.
LEMMA WritingCases ==
  ASSUME TypeOK, NEW h \in Handlers,
         \/ CommitUpdate(h) \/ CommitDisable(h) \/ CommitEnable(h)
         \/ CommitNoPasskey(h) \/ CommitPassword(h) \/ CommitConfirm(h) \/ CommitNoTOTP(h)
  PROVE  WritingEnd(h)
<1> USE TypeParts
<1> DEFINE u == target[h]
<1>a. pc[h] = "commit" /\ u \in Users /\ Leave(h) /\ op[h] \notin {"bootstrap", "create"}
  <2>1. PICK o \in Guarded \cup {"noPasskey"} : Commits(h, o)
    BY DEF CommitUpdate, CommitDisable, CommitEnable, CommitNoPasskey, CommitPassword,
           CommitConfirm, CommitNoTOTP, Guarded
  <2> QED
    BY <2>1, CommitFacts DEF Commits, Guarded, Updates
<1>b. created' = created /\ founders' = founders
  BY DEF CommitUpdate, CommitDisable, CommitEnable, CommitNoPasskey, CommitPassword,
         CommitConfirm, CommitNoTOTP, Accept, historyVars
<1>c. PICK old \in Row : old = row[u]
  BY <1>a DEF Tables
<1>1. CASE CommitNoPasskey(h)
  <2>1. WriteRow(h, u, old) /\ RoleKept(h, old) /\ PasswordKept(h, old)
    BY <1>1, <1>c DEF CommitNoPasskey, RoleKept, PasswordKept
  <2>2. row'[u] = row[u]
    BY <1>a, <1>c, <2>1, RowKeepsTypes
  <2>3. PICK k \in passkeys[u] :
          /\ Cardinality(passkeys[u]) > 1 \/ (PasswordLoginEnabled /\ row[u].password)
          /\ passkeys' = [passkeys EXCEPT ![u] = @ \ {k}]
    BY <1>1 DEF CommitNoPasskey
  <2>4. passkeys'[u] = passkeys[u] \ {k} /\ \A v \in Users \ {u} : passkeys'[v] = passkeys[v]
    BY <1>a, <2>3 DEF Tables
  <2>5. PasskeysKept(h)
    BY <2>2, <2>3, <2>4 DEF PasskeysKept
  <2> QED
    BY <1>a, <1>b, <2>1, <2>4, <2>5 DEF WritingEnd
<1> SUFFICES ASSUME ~CommitNoPasskey(h)
             PROVE  \E r \in Row : WriteRow(h, u, r) /\ RoleKept(h, r) /\ PasswordKept(h, r)
  <2>1. ASSUME ~CommitNoPasskey(h) PROVE passkeys' = passkeys
    BY <2>1 DEF CommitUpdate, CommitDisable, CommitEnable, CommitPassword, CommitConfirm,
                CommitNoTOTP
  <2> QED
    BY <1>a, <1>b, <1>1, <2>1 DEF WritingEnd, PasskeysKept
<1>2. CASE CommitUpdate(h)
  <2>1. /\ op[h] \in Updates /\ input[h] \in Input /\ seen[h] \in Row /\ h \notin overtaken
        /\ input[h].role = "member" => NotLastAdmin(h)
        /\ WriteRow(h, u, Applied(old, input[h]))
    BY <1>2, <1>c, CommitFacts DEF CommitUpdate, Guarded
  <2>2. PICK r \in Row : r = Applied(old, input[h])
    BY <1>c, <2>1, RowApplied
  <2>3. /\ r.disabled = old.disabled
        /\ r.role = IF input[h].role = None THEN old.role ELSE input[h].role
        /\ r.password = IF input[h].password = "keep" THEN old.password
                        ELSE input[h].password = "set"
    BY <1>c, <2>1, <2>2, RowApplied
  <2>4. RoleKept(h, r)
    <3>1. input[h].role \in {"admin", "member", None}
      BY <2>1 DEF Input, Roles
    <3> QED
      BY <1>c, <2>1, <2>3, <3>1 DEF RoleKept
  <2>5. PasswordKept(h, r)
    <3>1. input[h].password \in {"keep", "set", "unset"}
      BY <2>1 DEF Input
    <3>2. CASE input[h].password = "unset"
      BY <2>1, <3>2 DEF PasswordKept, Unsets, Guarded
    <3>3. CASE input[h].password = "keep"
      BY <1>c, <2>3, <3>3 DEF PasswordKept
    <3>4. CASE input[h].password = "set"
      <4>1. r.password
        BY <2>3, <3>4
      <4> QED
        BY <4>1 DEF PasswordKept
    <3> QED
      BY <3>1, <3>2, <3>3, <3>4
  <2> QED
    BY <2>1, <2>2, <2>4, <2>5
<1>3. CASE CommitDisable(h)
  <2>1. /\ op[h] = "disable" /\ seen[h] \in Row /\ h \notin overtaken /\ NotLastAdmin(h)
        /\ WriteRow(h, u, [old EXCEPT !.disabled = TRUE])
    BY <1>3, <1>c, CommitFacts DEF CommitDisable, Guarded
  <2>2. [old EXCEPT !.disabled = TRUE] \in Row /\ [old EXCEPT !.disabled = TRUE].password = old.password
    BY DisabledWritten
  <2> QED
    BY <1>c, <2>1, <2>2 DEF RoleKept, PasswordKept
<1>4. CASE CommitEnable(h)
  <2>1. WriteRow(h, u, [old EXCEPT !.disabled = FALSE])
    BY <1>4, <1>c DEF CommitEnable
  <2>2. PICK r \in Row : /\ r = [old EXCEPT !.disabled = FALSE]
                         /\ r.role = old.role /\ r.password = old.password
                         /\ r.disabled = FALSE
    BY DisabledWritten
  <2> QED
    BY <1>c, <2>1, <2>2 DEF RoleKept, PasswordKept
<1>5. CASE CommitPassword(h)
  <2>1. PICK b \in BOOLEAN : b = (op[h] = "password")
    OBVIOUS
  <2>2. WriteRow(h, u, [old EXCEPT !.password = b]) /\ h \notin overtaken
        /\ op[h] \in {"password", "noPassword"}
    BY <1>5, <1>c, <2>1 DEF CommitPassword, Commits
  <2>3. PICK r \in Row : /\ r = [old EXCEPT !.password = b]
                         /\ r.role = old.role /\ r.password = b /\ r.disabled = old.disabled
    BY PasswordWritten
  <2>4. RoleKept(h, r)
    BY <1>c, <2>3 DEF RoleKept
  <2>5. PasswordKept(h, r)
    <3>1. CASE op[h] = "password"
      BY <2>1, <2>3, <3>1 DEF PasswordKept
    <3>2. CASE op[h] = "noPassword"
      BY <2>2, <3>2 DEF PasswordKept, Unsets, Guarded
    <3> QED
      BY <2>2, <3>1, <3>2
  <2> QED
    BY <2>2, <2>3, <2>4, <2>5
<1>6. CASE CommitConfirm(h) \/ CommitNoTOTP(h)
  <2>1. PICK b \in BOOLEAN : WriteRow(h, u, [old EXCEPT !.required = b])
    BY <1>6, <1>c DEF CommitConfirm, CommitNoTOTP
  <2>2. PICK r \in Row : /\ r = [old EXCEPT !.required = b]
                         /\ r.role = old.role /\ r.password = old.password
                         /\ r.disabled = old.disabled
    BY RequiredWritten
  <2> QED
    BY <1>c, <2>1, <2>2 DEF RoleKept, PasswordKept
<1> QED
  BY <1>1, <1>2, <1>3, <1>4, <1>5, <1>6

\* Nothing happens that these properties see.
Aside == UNCHANGED <<created, row, passkeys, overtaken, founders, pc, op, target, seen, input>>

\* These are all the steps.
LEMMA StepCases ==
  ASSUME TypeOK, [Next]_vars
  PROVE  \/ \E h \in Handlers : \/ BeginStep(h) \/ ReadStep(h)
                                \/ QuietEnd(h) \/ CreatingEnd(h) \/ WritingEnd(h)
         \/ Aside
<1>1. ASSUME NEW h \in Handlers, Begin(h) \/ Read(h) PROVE BeginStep(h) \/ ReadStep(h)
  BY <1>1, BeginCases, ReadCases
<1>2. ASSUME NEW h \in Handlers,
             CommitUser(h) \/ CommitMethod(h) \/ CommitSession(h) \/ Fail(h)
      PROVE  QuietEnd(h) \/ CreatingEnd(h) \/ WritingEnd(h)
  BY <1>2, NewUserCases, QuietCases, WritingCases DEF CommitUser, CommitMethod, CommitSession
<1>3. CASE (\E u \in created : ExpireSession(u)) \/ Tick \/ UNCHANGED vars
  BY <1>3 DEF ExpireSession, Tick, Aside, vars, tableVars, localVars, historyVars
<1> QED
  BY <1>1, <1>2, <1>3 DEF Next

\* A request that is not a bootstrap is about a user that exists, or creates one for
\* somebody who exists.
Present(h) ==
    pc[h] # "idle" /\ op[h] # "bootstrap" =>
        created # {} /\ (op[h] # "create" => target[h] \in created)

\* The row that a request has read is the present one, unless it is overtaken.
Current(h) ==
    /\ seen[h] # None => pc[h] # "idle"
    /\ seen[h] # None /\ h \notin overtaken => seen[h] = row[target[h]]

\* Who is about to lose the password has a passkey, unless the request is overtaken.
Counted(h) ==
    pc[h] = "commit" /\ h \notin overtaken /\ Unsets(op[h], input[h]) =>
        passkeys[target[h]] # {}

\* A user that has no row yet will be enabled, and has no password.
Fresh(u) == u \notin created => ~row[u].disabled /\ ~row[u].password

RequestInv ==
    /\ TypeOK
    /\ \A h \in Handlers : Present(h) /\ Current(h) /\ Counted(h)
    /\ \A u \in Users : Fresh(u)

\* At the beginning no request has found out anything.
LEMMA RequestsInit == Init => RequestInv
<1> SUFFICES ASSUME Init PROVE RequestInv
  OBVIOUS
<1>1. \A h \in Handlers : Present(h) /\ Current(h) /\ Counted(h)
  BY DEF Init, Present, Current, Counted
<1>2. \A u \in Users : Fresh(u)
  BY DEF Init, Fresh
<1> QED
  BY <1>1, <1>2, TypeInit DEF RequestInv

\* What a request found out survives the end of another that writes no row.
LEMMA QuietKeeps ==
  ASSUME RequestInv, TypeOK', NEW h \in Handlers, QuietEnd(h)
  PROVE  RequestInv'
<1> USE TypeParts DEF RequestInv
<1>1. pc'[h] = "idle" /\ seen'[h] = None /\ Others(h)
  BY LeaveFrame DEF QuietEnd, Others
<1>2. ASSUME NEW g \in Handlers PROVE Present(g)' /\ Current(g)'
  BY <1>1 DEF QuietEnd, KeepRow, Present, Current, Others
<1>3. ASSUME NEW g \in Handlers PROVE Counted(g)'
  <2> SUFFICES ASSUME (pc[g] = "commit" /\ g \notin overtaken /\ Unsets(op[g], input[g]))'
               PROVE  passkeys'[target'[g]] # {}
    BY DEF Counted
  <2>1. g # h /\ target'[g] = target[g] /\ pc[g] = "commit" /\ Unsets(op[g], input[g])
        /\ g \notin overtaken
    BY <1>1 DEF Others, QuietEnd, KeepRow, Unsets
  <2>2. target[g] \in Users /\ passkeys[target[g]] # {}
    BY <2>1 DEF HasRead, Counted
  <2> QED
    BY <2>1, <2>2 DEF QuietEnd
<1>4. ASSUME NEW u \in Users PROVE Fresh(u)'
  BY DEF Fresh, QuietEnd, KeepRow
<1> QED
  BY <1>2, <1>3, <1>4

\* What a request found out about a user is current, or it is overtaken, after the row of a
\* user is written.
LEMMA WrittenCurrent ==
  ASSUME RequestInv, NEW h \in Handlers, NEW u \in Users, NEW r \in Row,
         WriteRow(h, u, r), Leave(h)
  PROVE  \A g \in Handlers :
            /\ Current(g)'
            /\ g # h /\ target[g] = u /\ seen[g] # None => g \in overtaken'
            /\ g # h /\ g \in overtaken => g \in overtaken'
<1> USE TypeParts DEF RequestInv
<1>1. row'[u] = r /\ \A v \in Users \ {u} : row'[v] = row[v]
  BY RowKeepsTypes
<1>2. pc'[h] = "idle" /\ seen'[h] = None /\ Others(h)
  BY LeaveFrame DEF Others
<1>3. ASSUME NEW g \in Handlers, g # h
      PROVE  /\ target[g] = u /\ seen[g] # None => g \in overtaken'
             /\ g \in overtaken => g \in overtaken'
  BY <1>3 DEF WriteRow
<1>4. ASSUME NEW g \in Handlers PROVE Current(g)'
  <2>1. CASE g = h
    BY <1>2, <2>1 DEF Current
  <2>2. CASE g # h
    <3>1. seen'[g] # None => pc'[g] # "idle" /\ target[g] \in Users
      BY <1>2, <2>2 DEF Others, Current, HasRead
    <3> QED
      BY <1>1, <1>2, <1>3, <2>2, <3>1 DEF Current, Others
  <2> QED
    BY <2>1, <2>2
<1> QED
  BY <1>3, <1>4

\* The same after a user is created.
LEMMA CreatingKeeps ==
  ASSUME RequestInv, TypeOK', NEW h \in Handlers, CreatingEnd(h)
  PROVE  RequestInv'
<1> USE TypeParts DEF RequestInv
<1> DEFINE u == target[h]
<1>1. pc'[h] = "idle" /\ seen'[h] = None /\ Others(h)
  BY LeaveFrame DEF CreatingEnd, Others
<1>2. PICK r \in Row : WriteRow(h, u, r)
  <2>1. row[u] \in Row
    BY DEF CreatingEnd, Tables
  <2>2. PICK a \in Roles, b \in BOOLEAN : WriteRow(h, u, [row[u] EXCEPT !.role = a, !.password = b])
    BY DEF CreatingEnd
  <2> QED
    BY <2>1, <2>2, RolePasswordWritten
<1>3. u \in Users /\ u \notin created /\ created' = created \cup {u} /\ Leave(h)
      /\ \A v \in Users : passkeys[v] \subseteq passkeys'[v]
  BY DEF CreatingEnd
<1>4. \A g \in Handlers : Current(g)' /\ (g # h /\ g \in overtaken => g \in overtaken')
  BY <1>2, <1>3, WrittenCurrent
<1>5. ASSUME NEW g \in Handlers PROVE Present(g)'
  BY <1>1, <1>3 DEF Present, Others
<1>6. ASSUME NEW g \in Handlers PROVE Counted(g)'
  <2> SUFFICES ASSUME (pc[g] = "commit" /\ g \notin overtaken /\ Unsets(op[g], input[g]))'
               PROVE  passkeys'[target'[g]] # {}
    BY DEF Counted
  <2>1. g # h /\ target'[g] = target[g] /\ pc[g] = "commit" /\ Unsets(op[g], input[g])
        /\ g \notin overtaken
    BY <1>1, <1>4 DEF Others, Unsets
  <2>2. target[g] \in Users /\ passkeys[target[g]] # {}
    BY <2>1 DEF HasRead, Counted
  <2> QED
    BY <2>1, <2>2, <1>3
<1>7. ASSUME NEW v \in Users PROVE Fresh(v)'
  BY <1>2, <1>3, RowKeepsTypes DEF Fresh
<1> QED
  BY <1>4, <1>5, <1>6, <1>7

\* The same after a row is written: passkeys are taken away only with a new updated_at.
LEMMA WritingKeeps ==
  ASSUME RequestInv, TypeOK', NEW h \in Handlers, WritingEnd(h)
  PROVE  RequestInv'
<1> USE TypeParts DEF RequestInv
<1> DEFINE u == target[h]
<1>1. pc'[h] = "idle" /\ seen'[h] = None /\ Others(h)
  BY LeaveFrame DEF WritingEnd, Others
<1>2. PICK r \in Row : WriteRow(h, u, r)
  BY DEF WritingEnd
<1>3. u \in Users /\ created' = created /\ Leave(h) /\ u \in created
      /\ \A v \in Users \ {u} : passkeys'[v] = passkeys[v]
  BY DEF WritingEnd, Present
<1>4. \A g \in Handlers : /\ Current(g)'
                          /\ g # h /\ target[g] = u /\ seen[g] # None => g \in overtaken'
                          /\ g # h /\ g \in overtaken => g \in overtaken'
  BY <1>2, <1>3, WrittenCurrent
<1>5. ASSUME NEW g \in Handlers PROVE Present(g)'
  BY <1>1, <1>3 DEF Present, Others
<1>6. ASSUME NEW g \in Handlers PROVE Counted(g)'
  <2> SUFFICES ASSUME (pc[g] = "commit" /\ g \notin overtaken /\ Unsets(op[g], input[g]))'
               PROVE  passkeys'[target'[g]] # {}
    BY DEF Counted
  <2>1. g # h /\ target'[g] = target[g] /\ pc[g] = "commit" /\ Unsets(op[g], input[g])
        /\ g \notin overtaken
    BY <1>1, <1>4 DEF Others, Unsets
  <2>2. target[g] \in Users /\ passkeys[target[g]] # {}
    BY <2>1 DEF HasRead, Counted
  <2>3. seen[g] # None
    <3>1. op[g] \in Guarded
      BY <2>1 DEF Unsets, Guarded
    <3> QED
      BY <2>1, <3>1, NoneAssumption DEF HasRead
  <2>4. target[g] # u
    BY <1>4, <2>1, <2>3
  <2> QED
    BY <1>3, <2>1, <2>2, <2>4
<1>7. ASSUME NEW v \in Users PROVE Fresh(v)'
  BY <1>2, <1>3, RowKeepsTypes DEF Fresh
<1> QED
  BY <1>4, <1>5, <1>6, <1>7

\* The same after a request has begun.
LEMMA BeginKeeps ==
  ASSUME RequestInv, TypeOK', NEW h \in Handlers, BeginStep(h)
  PROVE  RequestInv'
<1> USE DEF RequestInv
<1>1. seen[h] = None
  BY DEF Current, BeginStep
<1>2. Present(h)' /\ Current(h)' /\ Counted(h)'
  BY <1>1 DEF BeginStep, Present, Current, Counted, Unsets
<1>3. ASSUME NEW g \in Handlers, g # h PROVE Present(g)' /\ Current(g)' /\ Counted(g)'
  BY <1>3 DEF BeginStep, Others, Present, Current, Counted, Unsets
<1>4. ASSUME NEW u \in Users PROVE Fresh(u)'
  BY DEF Fresh, BeginStep
<1> QED
  BY <1>2, <1>3, <1>4

\* The same after a request has read something.
LEMMA ReadKeeps ==
  ASSUME RequestInv, TypeOK', NEW h \in Handlers, ReadStep(h)
  PROVE  RequestInv'
<1> USE DEF RequestInv
<1>1. Present(h)' /\ Current(h)' /\ Counted(h)'
  BY DEF ReadStep, Present, Current, Counted
<1>2. ASSUME NEW g \in Handlers, g # h PROVE Present(g)' /\ Current(g)' /\ Counted(g)'
  BY <1>2 DEF ReadStep, Others, Present, Current, Counted, Unsets
<1>3. ASSUME NEW u \in Users PROVE Fresh(u)'
  BY DEF Fresh, ReadStep
<1> QED
  BY <1>1, <1>2, <1>3

\* What requests have found out is current in every step.
LEMMA RequestsNext == RequestInv /\ [Next]_vars => RequestInv'
<1> SUFFICES ASSUME RequestInv, [Next]_vars PROVE RequestInv'
  OBVIOUS
<1>1. TypeOK /\ TypeOK'
  BY TypeNext DEF RequestInv
<1>2. CASE Aside
  BY <1>1, <1>2 DEF Aside, RequestInv, Present, Current, Counted, Fresh, Unsets
<1>3. ASSUME NEW h \in Handlers,
             \/ BeginStep(h) \/ ReadStep(h)
             \/ QuietEnd(h) \/ CreatingEnd(h) \/ WritingEnd(h)
      PROVE  RequestInv'
  BY <1>1, <1>3, BeginKeeps, ReadKeeps, QuietKeeps, CreatingKeeps, WritingKeeps
<1> QED
  BY <1>1, <1>2, <1>3, StepCases

----------------------------------------------------------------------------
(* The last administrator, the last method, the first user. *)

\* Who is not the last administrator leaves another one.
LEMMA AnotherAdmin ==
  ASSUME NEW u, u \in ActiveAdmins, Cardinality(ActiveAdmins) > 1
  PROVE  \E v \in ActiveAdmins : v # u
<1> SUFFICES ASSUME ActiveAdmins \subseteq {u} PROVE FALSE
  OBVIOUS
<1>1. ActiveAdmins = {u}
  OBVIOUS
<1> QED
  BY <1>1, FS_Singleton

\* An administrator is left by every step that writes a row.
LEMMA WritingLeavesAdmin ==
  ASSUME RequestInv, AdminRemains, NEW h \in Handlers, WritingEnd(h)
  PROVE  AdminRemains'
<1> USE TypeParts DEF RequestInv
<1> DEFINE u == target[h]
<1>1. u \in Users /\ u \in created /\ created' = created
  BY DEF WritingEnd, Present
<1>2. PICK r \in Row : WriteRow(h, u, r) /\ RoleKept(h, r)
  BY DEF WritingEnd
<1>3. row'[u] = r /\ \A v \in Users \ {u} : row'[v] = row[v]
  BY <1>1, <1>2, RowKeepsTypes
<1>4. \A v \in ActiveAdmins \ {u} : v \in ActiveAdmins'
  BY <1>1, <1>3 DEF ActiveAdmins, Tables
<1>5. PICK a \in ActiveAdmins : TRUE
  BY <1>1 DEF AdminRemains
<1>6. CASE u \notin ActiveAdmins
  BY <1>4, <1>5, <1>6 DEF AdminRemains
<1>7. CASE u \in ActiveAdmins
  <2>1. row[u].role = "admin" /\ ~row[u].disabled
    BY <1>7 DEF ActiveAdmins
  <2>2. CASE r.role = "admin" /\ ~r.disabled
    <3>1. u \in ActiveAdmins'
      BY <1>1, <1>3, <2>2 DEF ActiveAdmins
    <3> QED
      BY <3>1 DEF AdminRemains
  <2>3. CASE h \notin overtaken /\ seen[h] \in Row /\ NotLastAdmin(h)
    <3>1. seen[h] = row[u]
      BY <2>3, NoneAssumption DEF Current
    <3>2. Cardinality(ActiveAdmins) > 1
      BY <2>1, <2>3, <3>1 DEF NotLastAdmin
    <3>3. PICK v \in ActiveAdmins : v # u
      BY <1>7, <3>2, AnotherAdmin
    <3> QED
      BY <1>4, <3>3 DEF AdminRemains
  <2> QED
    BY <1>2, <2>1, <2>2, <2>3 DEF RoleKept
<1> QED
  BY <1>6, <1>7

\* The row of a new user has its role, and is enabled if it was.
LEMMA NewRowWritten ==
  ASSUME Tables, Locals, NEW h \in Handlers, NEW u \in Users, NEW a \in Roles, NEW b \in BOOLEAN,
         WriteRow(h, u, [row[u] EXCEPT !.role = a, !.password = b])
  PROVE  /\ row'[u].role = a /\ row'[u].disabled = row[u].disabled
         /\ \A v \in Users \ {u} : row'[v] = row[v]
<1>1. PICK old \in Row : old = row[u]
  BY DEF Tables
<1>2. PICK m \in Row : m = [old EXCEPT !.role = a] /\ m.role = a /\ m.disabled = old.disabled
  BY RoleWritten
<1>3. PICK r \in Row : /\ r = [m EXCEPT !.password = b]
                       /\ r.role = m.role /\ r.disabled = m.disabled
  BY PasswordWritten
<1>4. WriteRow(h, u, r)
  BY <1>1, <1>2, <1>3
<1>5. row'[u] = r /\ \A v \in Users \ {u} : row'[v] = row[v]
  BY <1>4, RowKeepsTypes
<1>6. r.role = a /\ r.disabled = row[u].disabled
  BY <1>1, <1>2, <1>3, Zenon
<1> QED
  BY <1>5, <1>6, Zenon

\* A new user does not take the administrators away, and the first one is one.
LEMMA CreatingLeavesAdmin ==
  ASSUME RequestInv, AdminRemains, NEW h \in Handlers, CreatingEnd(h)
  PROVE  AdminRemains'
<1> USE TypeParts DEF RequestInv
<1> DEFINE u == target[h]
<1>1. u \in Users /\ u \notin created /\ created' = created \cup {u} /\ row[u] \in Row
  BY DEF CreatingEnd, Tables
<1>2. PICK a \in Roles, b \in BOOLEAN :
        /\ op[h] = "bootstrap" => a = "admin"
        /\ WriteRow(h, u, [row[u] EXCEPT !.role = a, !.password = b])
  BY DEF CreatingEnd
<1>3. row'[u].role = a /\ row'[u].disabled = row[u].disabled
      /\ \A v \in Users \ {u} : row'[v] = row[v]
  BY <1>1, <1>2, NewRowWritten
<1>5. CASE op[h] = "bootstrap"
  <2>1. u \in ActiveAdmins'
    BY <1>1, <1>2, <1>3, <1>5 DEF ActiveAdmins, Fresh
  <2> QED
    BY <2>1 DEF AdminRemains
<1>6. CASE op[h] # "bootstrap"
  <2>1. created # {}
    BY <1>6 DEF Present, CreatingEnd
  <2>2. PICK a0 \in ActiveAdmins : TRUE
    BY <2>1 DEF AdminRemains
  <2>3. a0 \in created /\ a0 # u /\ a0 \in Users
    BY <1>1, <2>2 DEF ActiveAdmins, Tables
  <2>4. a0 \in ActiveAdmins'
    BY <1>1, <1>3, <2>2, <2>3 DEF ActiveAdmins
  <2> QED
    BY <2>4 DEF AdminRemains
<1> QED
  BY <1>5, <1>6

\* After the bootstrap there is always an administrator who is enabled, for any number of
\* users and of requests: the update and the disabling of users decide with a row that
\* UpdateUser and SetUserDisabled compare again.
THEOREM AdminAlwaysRemains == Spec => []AdminRemains
<1>1. Init => RequestInv /\ AdminRemains
  BY RequestsInit DEF Init, AdminRemains
<1>2. RequestInv /\ AdminRemains /\ [Next]_vars => (RequestInv /\ AdminRemains)'
  <2> SUFFICES ASSUME RequestInv, AdminRemains, [Next]_vars
               PROVE  RequestInv' /\ AdminRemains'
    OBVIOUS
  <2>1. RequestInv'
    BY RequestsNext
  <2>2. ASSUME NEW h \in Handlers, BeginStep(h) \/ ReadStep(h) \/ QuietEnd(h)
        PROVE  AdminRemains'
    BY <2>2 DEF BeginStep, ReadStep, QuietEnd, KeepRow, AdminRemains, ActiveAdmins
  <2>3. ASSUME Aside PROVE AdminRemains'
    BY <2>3 DEF Aside, AdminRemains, ActiveAdmins
  <2>4. ASSUME NEW h \in Handlers, CreatingEnd(h) \/ WritingEnd(h)
        PROVE  AdminRemains'
    BY <2>4, CreatingLeavesAdmin, WritingLeavesAdmin
  <2>5. TypeOK
    BY DEF RequestInv
  <2>6. AdminRemains'
    BY <2>2, <2>3, <2>4, <2>5, StepCases
  <2> QED
    BY <2>1, <2>6
<1> QED
  BY <1>1, <1>2, PTL DEF Spec

\* Who writes a row leaves its user a method to log in.
LEMMA WritingLeavesMethod ==
  ASSUME RequestInv, NEW h \in Handlers, WritingEnd(h), NEW v \in Users, HasMethod(v)
  PROVE  HasMethod(v)'
<1> USE TypeParts DEF RequestInv
<1> DEFINE u == target[h]
<1>1. u \in Users /\ u \in created /\ pc[h] = "commit"
      /\ \A w \in Users \ {u} : passkeys'[w] = passkeys[w]
  BY DEF WritingEnd, Present
<1>2. PICK r \in Row : WriteRow(h, u, r) /\ PasswordKept(h, r)
  BY DEF WritingEnd
<1>3. row'[u] = r /\ \A w \in Users \ {u} : row'[w] = row[w]
  BY <1>1, <1>2, RowKeepsTypes
<1>4. CASE v # u
  BY <1>1, <1>3, <1>4 DEF HasMethod
<1>5. CASE v = u
  <2>1. CASE passkeys[u] \subseteq passkeys'[u]
    <3>1. CASE row[u].password => r.password
      BY <1>3, <1>5, <2>1, <3>1 DEF HasMethod
    <3>2. CASE h \notin overtaken /\ Unsets(op[h], input[h])
      <4>1. passkeys[u] # {}
        BY <1>1, <3>2 DEF Counted
      <4> QED
        BY <1>5, <2>1, <4>1 DEF HasMethod
    <3> QED
      BY <1>2, <3>1, <3>2 DEF PasswordKept
  <2>2. CASE /\ row'[u] = row[u]
             /\ \E k \in passkeys[u] :
                  /\ passkeys'[u] = passkeys[u] \ {k}
                  /\ \/ Cardinality(passkeys[u]) > 1
                     \/ PasswordLoginEnabled /\ row[u].password
    <3>1. PICK k \in passkeys[u] : /\ passkeys'[u] = passkeys[u] \ {k}
                                   /\ \/ Cardinality(passkeys[u]) > 1
                                      \/ PasswordLoginEnabled /\ row[u].password
      BY <2>2
    <3>2. CASE Cardinality(passkeys[u]) > 1
      <4>1. passkeys[u] # {k}
        BY <3>2, FS_Singleton
      <4>2. passkeys'[u] # {}
        BY <3>1, <4>1
      <4> QED
        BY <1>5, <4>2 DEF HasMethod
    <3>3. CASE PasswordLoginEnabled /\ row[u].password
      BY <1>5, <2>2, <3>3 DEF HasMethod
    <3> QED
      BY <3>1, <3>2, <3>3
  <2> QED
    BY <2>1, <2>2 DEF WritingEnd, PasskeysKept
<1> QED
  BY <1>4, <1>5

\* Who can log in still can after any step, with any number of passkeys: the count before
\* the transaction counts only if nothing has renewed updated_at since.
THEOREM MethodAlwaysRemains == Spec => MethodRemains
<1> DEFINE Kept == \A u \in Users : HasMethod(u) => HasMethod(u)'
<1>1. RequestInv /\ [Next]_vars => [Kept]_vars
  <2> SUFFICES ASSUME RequestInv, [Next]_vars, NEW v \in Users, HasMethod(v)
               PROVE  HasMethod(v)'
    OBVIOUS
  <2>1. ASSUME NEW h \in Handlers, BeginStep(h) \/ ReadStep(h) \/ QuietEnd(h)
        PROVE  HasMethod(v)'
    BY <2>1 DEF BeginStep, ReadStep, QuietEnd, KeepRow, HasMethod
  <2>2. CASE Aside
    BY <2>2 DEF Aside, HasMethod
  <2>3. ASSUME NEW h \in Handlers, CreatingEnd(h)
        PROVE  HasMethod(v)'
    <3>1. PICK a \in Roles, b \in BOOLEAN :
            WriteRow(h, target[h], [row[target[h]] EXCEPT !.role = a, !.password = b])
      BY <2>3 DEF CreatingEnd
    <3>2. v # target[h] => row'[v] = row[v]
      BY <3>1, TypeParts DEF RequestInv, WriteRow, Tables
    <3>3. v = target[h] => ~row[v].password
      BY <2>3 DEF CreatingEnd, RequestInv, Fresh
    <3>4. passkeys[v] \subseteq passkeys'[v]
      BY <2>3 DEF CreatingEnd
    <3> QED
      BY <3>2, <3>3, <3>4 DEF HasMethod
  <2> QED
    BY <2>1, <2>2, <2>3, WritingLeavesMethod, StepCases DEF RequestInv
<1>2. Spec => []RequestInv
  BY RequestsInit, RequestsNext, PTL DEF Spec
<1> QED
  BY <1>1, <1>2, PTL DEF Spec, MethodRemains

\* Bootstraps make one first administrator, however many of them run: a transaction that
\* has counted no users is the only one that makes a founder.
THEOREM OnlyOneFounder == Spec => []OneFounder
<1> DEFINE FounderInv == OneFounder /\ (created = {} => founders = {})
<1>1. Init => FounderInv
  BY FS_EmptySet DEF Init, OneFounder
<1>2. RequestInv /\ FounderInv /\ [Next]_vars => FounderInv'
  <2> SUFFICES ASSUME RequestInv, FounderInv, [Next]_vars PROVE FounderInv'
    OBVIOUS
  <2>1. CASE Aside
    BY <2>1 DEF Aside, OneFounder
  <2>2. ASSUME NEW h \in Handlers,
               BeginStep(h) \/ ReadStep(h) \/ QuietEnd(h) \/ WritingEnd(h)
        PROVE  FounderInv'
    BY <2>2 DEF BeginStep, ReadStep, QuietEnd, WritingEnd, OneFounder
  <2>3. ASSUME NEW h \in Handlers, CreatingEnd(h)
        PROVE  FounderInv'
    <3>1. CASE op[h] = "bootstrap"
      <4>1. founders' = {target[h]}
        BY <2>3, <3>1 DEF CreatingEnd
      <4>2. Cardinality(founders') = 1
        BY <4>1, FS_Singleton
      <4>3. created' # {}
        BY <2>3 DEF CreatingEnd
      <4> QED
        BY <4>2, <4>3 DEF OneFounder
    <3>2. CASE op[h] # "bootstrap"
      BY <2>3, <3>2 DEF OneFounder, CreatingEnd
    <3> QED
      BY <3>1, <3>2
  <2> QED
    BY <2>1, <2>2, <2>3, StepCases DEF RequestInv
<1>3. Spec => []RequestInv
  BY RequestsInit, RequestsNext, PTL DEF Spec
<1>4. FounderInv => OneFounder
  OBVIOUS
<1> QED
  BY <1>1, <1>2, <1>3, <1>4, PTL DEF Spec

----------------------------------------------------------------------------
(* The second factor. *)

\* No credential and no demand for one changes.
FactorUntouched ==
    /\ totp' = totp /\ uses' = uses
    /\ \A u \in Users : row'[u].required = row[u].required

\* A row is written with the demand for a second factor that it had.
LEMMA RequiredKept ==
  ASSUME TypeOK, NEW h \in Handlers, NEW u \in Users, NEW r \in Row, WriteRow(h, u, r),
         r.required = row[u].required
  PROVE  \A v \in Users : row'[v].required = row[v].required
<1>1. row'[u] = r /\ \A v \in Users \ {u} : row'[v] = row[v]
  BY RowKeepsTypes, TypeParts
<1> QED
  BY <1>1

\* A new user is not asked for a second factor yet.
LEMMA NewRequired ==
  ASSUME TypeOK, NEW h \in Handlers, NEW u \in Users, NEW a \in Roles, NEW b \in BOOLEAN,
         NewRow(h, u, a, b)
  PROVE  \A v \in Users : row'[v].required = row[v].required
<1>1. PICK old \in Row : old = row[u]
  BY TypeParts DEF Tables
<1>2. PICK m \in Row : m = [old EXCEPT !.role = a] /\ m.required = old.required
  BY RoleWritten
<1>3. PICK r \in Row : r = [m EXCEPT !.password = b] /\ r.required = m.required
  BY PasswordWritten
<1>4. WriteRow(h, u, r)
  BY <1>1, <1>2, <1>3 DEF NewRow
<1>5. r.required = row[u].required
  BY <1>1, <1>2, <1>3, Zenon
<1> QED
  BY <1>4, <1>5, RequiredKept

\* Only four transactions touch the second factor.
LEMMA FactorCases ==
  ASSUME TypeOK, [Next]_vars
  PROVE  \/ FactorUntouched
         \/ \E h \in Handlers :
               CommitTOTP(h) \/ CommitSetup(h) \/ CommitConfirm(h) \/ CommitNoTOTP(h)
<1> USE TypeParts
<1>1. ASSUME NEW h \in Handlers, Begin(h) \/ Read(h) \/ Fail(h) PROVE FactorUntouched
  BY <1>1 DEF Begin, Read, Fail, FactorUntouched, Authenticate, BeginBootstrap, BeginEnrollment,
              BeginLogin, BeginTOTP, BeginPublic, ReadUser, CountPasskeys, ReadForSetup,
              VerifyCode, tableVars, historyVars
<1>2. CASE (\E u \in created : ExpireSession(u)) \/ Tick \/ UNCHANGED vars
  BY <1>2 DEF ExpireSession, Tick, FactorUntouched, vars, tableVars, historyVars
<1>3. ASSUME NEW h \in Handlers,
             \/ CommitIssue(h) \/ CommitEnroll(h) \/ CommitPasskey(h) \/ CommitLogin(h)
             \/ CommitLogout(h)
      PROVE  FactorUntouched
  BY <1>3 DEF FactorUntouched, CommitIssue, CommitEnroll, CommitPasskey, CommitLogin,
              CommitLogout, KeepRow, historyVars
<1>4. ASSUME NEW h \in Handlers, CommitBootstrap(h) \/ CommitCreate(h) PROVE FactorUntouched
  <2>1. totp' = totp /\ uses' = uses
    BY <1>4 DEF CommitBootstrap, CommitCreate, historyVars
  <2>2. target[h] \in Users
    BY <1>4, CommitFacts DEF CommitBootstrap, CommitCreate
  <2>3. PICK a \in Roles, b \in BOOLEAN : NewRow(h, target[h], a, b)
    <3>1. CASE CommitBootstrap(h)
      BY <3>1 DEF CommitBootstrap, Roles
    <3>2. CASE CommitCreate(h)
      BY <3>2, BoundsAssumption DEF CommitCreate
    <3> QED
      BY <1>4, <3>1, <3>2
  <2> QED
    BY <2>1, <2>2, <2>3, NewRequired DEF FactorUntouched
<1>5. ASSUME NEW h \in Handlers,
             \/ CommitUpdate(h) \/ CommitDisable(h) \/ CommitEnable(h)
             \/ CommitNoPasskey(h) \/ CommitPassword(h)
      PROVE  FactorUntouched
  <2> DEFINE u == target[h]
  <2>1. totp' = totp /\ uses' = uses
    BY <1>5 DEF CommitUpdate, CommitDisable, CommitEnable, CommitNoPasskey, CommitPassword,
                historyVars
  <2>2. u \in Users
    BY <1>5, CommitFacts DEF CommitUpdate, CommitDisable, CommitEnable, CommitNoPasskey,
                             CommitPassword
  <2>3. PICK old \in Row : old = row[u]
    BY <2>2 DEF Tables
  <2>4. \E r \in Row : WriteRow(h, u, r) /\ r.required = old.required
    <3>1. CASE CommitUpdate(h)
      <4>1. input[h] \in Input /\ WriteRow(h, u, Applied(old, input[h]))
        BY <3>1, <2>3, CommitFacts DEF CommitUpdate
      <4>2. Applied(old, input[h]) \in Row /\ Applied(old, input[h]).required = old.required
        BY <4>1, RowApplied
      <4> QED
        BY <4>1, <4>2
    <3>2. CASE CommitDisable(h) \/ CommitEnable(h)
      <4>1. PICK b \in BOOLEAN : WriteRow(h, u, [old EXCEPT !.disabled = b])
        BY <3>2, <2>3 DEF CommitDisable, CommitEnable
      <4> QED
        BY <4>1, DisabledWritten
    <3>3. CASE CommitNoPasskey(h)
      BY <3>3, <2>3 DEF CommitNoPasskey
    <3>4. CASE CommitPassword(h)
      <4>1. PICK b \in BOOLEAN : WriteRow(h, u, [old EXCEPT !.password = b])
        BY <3>4, <2>3 DEF CommitPassword
      <4> QED
        BY <4>1, PasswordWritten
    <3> QED
      BY <1>5, <3>1, <3>2, <3>3, <3>4
  <2> QED
    BY <2>1, <2>2, <2>3, <2>4, RequiredKept DEF FactorUntouched
<1> QED
  BY <1>1, <1>2, <1>3, <1>4, <1>5 DEF Next, CommitUser, CommitMethod, CommitSession

\* What a code does that is accepted, by a login or by a confirmation.
Accepted(h) ==
    LET u == target[h] c == code[h] IN
    /\ u \in Users /\ c \in Code
    /\ totp[u] # None /\ (totp[u].confirmed => totp[u].last < c.step)
    /\ totp'[u] # None /\ totp'[u].confirmed
    /\ totp'[u].last = c.step /\ totp'[u].secret = totp[u].secret
    /\ \A v \in Users \ {u} : totp'[v] = totp[v]
    /\ Accept(u, c)

LEMMA LoginAccepts ==
  ASSUME TypeOK, NEW h \in Handlers, CommitTOTP(h)
  PROVE  Accepted(h) /\ row' = row
<1> USE TypeParts
<1> DEFINE u == target[h]
<1>1. u \in Users /\ code[h] \in Code
  BY CommitFacts DEF CommitTOTP
<1>2. /\ totp[u] # None /\ totp[u].confirmed /\ totp[u].last < code[h].step
      /\ Accept(u, code[h]) /\ row' = row
  BY DEF CommitTOTP, KeepRow
<1>3. PICK k \in Credential : k = totp[u]
  BY <1>1, <1>2 DEF Tables
<1>4. PICK n \in Nat : n = code[h].step
  BY <1>1, BoundsAssumption DEF Code, Steps
<1>5. PICK d \in Credential : /\ d = [k EXCEPT !.last = n] /\ d.last = n
                              /\ d.secret = k.secret /\ d.confirmed = k.confirmed
  BY CredentialWritten
<1>6. totp' = [totp EXCEPT ![u] = d]
  BY <1>3, <1>4, <1>5 DEF CommitTOTP
<1>7. totp'[u] = d /\ \A v \in Users \ {u} : totp'[v] = totp[v]
  BY <1>1, <1>6 DEF Tables
<1>8. d.confirmed /\ d.last = code[h].step /\ d.secret = totp[u].secret
  BY <1>2, <1>3, <1>4, <1>5, Zenon
<1> QED
  BY <1>1, <1>2, <1>7, <1>8, NoneAssumption DEF Accepted

\* A confirmation also asks for the second factor from now on, and ends the pending logins.
LEMMA ConfirmAccepts ==
  ASSUME TypeOK, NEW h \in Handlers, CommitConfirm(h)
  PROVE  /\ Accepted(h) /\ ~totp[target[h]].confirmed
         /\ row'[target[h]].required = TRUE
         /\ \A v \in Users \ {target[h]} : row'[v] = row[v]
<1> USE TypeParts
<1> DEFINE u == target[h]
<1>1. u \in Users /\ code[h] \in Code
  BY CommitFacts DEF CommitConfirm
<1>2. totp[u] # None /\ ~totp[u].confirmed /\ Accept(u, code[h])
  BY DEF CommitConfirm
<1>3. PICK d : d = [totp[u] EXCEPT !.confirmed = TRUE, !.last = code[h].step]
  OBVIOUS
<1>4. totp' = [totp EXCEPT ![u] = d]
  BY <1>1, <1>3 DEF CommitConfirm, Tables
<1>5. /\ totp'[u] = d /\ d \in Credential /\ d.last = code[h].step
      /\ d.secret = totp[u].secret /\ d.confirmed
      /\ \A v \in Users \ {u} : totp'[v] = totp[v]
  BY <1>1, <1>2, <1>3, <1>4, AcceptedCredential
<1>6. PICK old \in Row : old = row[u]
  BY <1>1 DEF Tables
<1>7. PICK r \in Row : r = [old EXCEPT !.required = TRUE] /\ r.required = TRUE
  BY RequiredWritten
<1>8. WriteRow(h, u, r)
  BY <1>6, <1>7 DEF CommitConfirm
<1>9. row'[u] = r /\ \A v \in Users \ {u} : row'[v] = row[v]
  BY <1>1, <1>8, RowKeepsTypes
<1> QED
  BY <1>1, <1>2, <1>5, <1>7, <1>9, NoneAssumption DEF Accepted

\* A setup leaves a new credential without any uses, and a deletion none.
LEMMA SetupReplaces ==
  ASSUME TypeOK, NEW h \in Handlers, CommitSetup(h)
  PROVE  /\ target[h] \in Users /\ row' = row
         /\ totp'[target[h]] # None /\ ~totp'[target[h]].confirmed
         /\ uses'[target[h]] = [t \in Steps |-> 0]
         /\ \A v \in Users \ {target[h]} : totp'[v] = totp[v] /\ uses'[v] = uses[v]
<1> USE TypeParts
<1> DEFINE u == target[h]
<1>1. u \in Users
  BY CommitFacts DEF CommitSetup
<1>2. PICK i : i = Unused(Ids, Verified(h))
  OBVIOUS
<1>3. i \in Ids
  BY <1>2, UnusedIsLeft DEF CommitSetup
<1>4. PICK d \in Credential : d = [secret |-> i, confirmed |-> FALSE, last |-> 0] /\ ~d.confirmed
  <2>1. [secret |-> i, confirmed |-> FALSE, last |-> 0] \in Credential
    BY <1>3 DEF Credential
  <2>2. ~[secret |-> i, confirmed |-> FALSE, last |-> 0].confirmed
    OBVIOUS
  <2> QED
    BY <2>1, <2>2, Zenon
<1>5. totp' = [totp EXCEPT ![u] = d]
  BY <1>2, <1>4 DEF CommitSetup
<1>6. row' = row /\ uses' = [uses EXCEPT ![u] = [t \in Steps |-> 0]]
  BY DEF CommitSetup, KeepRow
<1> QED
  BY <1>1, <1>4, <1>5, <1>6, NoneAssumption DEF Tables

LEMMA DeletionRemoves ==
  ASSUME TypeOK, NEW h \in Handlers, CommitNoTOTP(h)
  PROVE  /\ target[h] \in Users /\ uses' = uses
         /\ totp'[target[h]] = None /\ row'[target[h]].required = FALSE
         /\ \A v \in Users \ {target[h]} : totp'[v] = totp[v] /\ row'[v] = row[v]
<1> USE TypeParts
<1> DEFINE u == target[h]
<1>1. u \in Users
  BY CommitFacts DEF CommitNoTOTP
<1>2. PICK old \in Row : old = row[u]
  BY <1>1 DEF Tables
<1>3. PICK r \in Row : r = [old EXCEPT !.required = FALSE] /\ r.required = FALSE
  BY RequiredWritten
<1>4. WriteRow(h, u, r)
  BY <1>2, <1>3 DEF CommitNoTOTP
<1>5. row'[u] = r /\ \A v \in Users \ {u} : row'[v] = row[v]
  BY <1>1, <1>4, RowKeepsTypes
<1>6. totp' = [totp EXCEPT ![u] = None] /\ uses' = uses
  BY DEF CommitNoTOTP, historyVars
<1> QED
  BY <1>1, <1>3, <1>5, <1>6 DEF Tables

\* The users table and the credentials agree after any step.
THEOREM SecondFactorAgrees == Spec => []SecondFactorIsConsistent
<1>1. Init => SecondFactorIsConsistent
  BY DEF Init, SecondFactorIsConsistent
<1>2. TypeOK /\ SecondFactorIsConsistent /\ [Next]_vars => SecondFactorIsConsistent'
  <2> SUFFICES ASSUME TypeOK, SecondFactorIsConsistent, [Next]_vars, NEW v \in Users
               PROVE  /\ row'[v].required => totp'[v] # None
                      /\ totp'[v] # None /\ totp'[v].confirmed => row'[v].required
    BY DEF SecondFactorIsConsistent
  <2>0. /\ row[v].required => totp[v] # None
        /\ totp[v] # None /\ totp[v].confirmed => row[v].required
    BY DEF SecondFactorIsConsistent
  <2>1. CASE FactorUntouched
    BY <2>0, <2>1 DEF FactorUntouched
  <2>2. ASSUME NEW h \in Handlers, CommitTOTP(h)
        PROVE  /\ row'[v].required => totp'[v] # None
               /\ totp'[v] # None /\ totp'[v].confirmed => row'[v].required
    <3>1. Accepted(h) /\ row' = row
      BY <2>2, LoginAccepts
    <3>2. totp[target[h]].confirmed
      BY <2>2 DEF CommitTOTP
    <3>3. CASE v = target[h]
      BY <2>0, <3>1, <3>2, <3>3 DEF Accepted
    <3>4. CASE v # target[h]
      BY <2>0, <3>1, <3>4 DEF Accepted
    <3> QED
      BY <3>3, <3>4
  <2>3. ASSUME NEW h \in Handlers, CommitSetup(h)
        PROVE  /\ row'[v].required => totp'[v] # None
               /\ totp'[v] # None /\ totp'[v].confirmed => row'[v].required
    BY <2>0, <2>3, SetupReplaces
  <2>4. ASSUME NEW h \in Handlers, CommitConfirm(h)
        PROVE  /\ row'[v].required => totp'[v] # None
               /\ totp'[v] # None /\ totp'[v].confirmed => row'[v].required
    BY <2>0, <2>4, ConfirmAccepts DEF Accepted
  <2>5. ASSUME NEW h \in Handlers, CommitNoTOTP(h)
        PROVE  /\ row'[v].required => totp'[v] # None
               /\ totp'[v] # None /\ totp'[v].confirmed => row'[v].required
    BY <2>0, <2>5, DeletionRemoves
  <2> QED
    BY <2>1, <2>2, <2>3, <2>4, <2>5, FactorCases
<1> QED
  BY <1>1, <1>2, TypeCorrect, PTL DEF Spec

\* What was accepted of user u once, and not after the last accepted step.
UsedUp(u) ==
    \A t \in Steps :
        /\ uses[u][t] <= 1
        /\ totp[u] # None /\ uses[u][t] > 0 => totp[u].confirmed /\ t <= totp[u].last

\* An accepted code is of a step that was not used.
LEMMA AcceptedIsNew ==
  ASSUME TypeOK, NEW h \in Handlers, NEW u, u = target[h], Accepted(h), UsedUp(u)
  PROVE  UsedUp(u)'
<1> USE TypeParts
<1> DEFINE c == code[h]
<1>1. u \in Users /\ c.step \in Steps /\ totp[u] # None
  BY DEF Accepted, Code
<1>2. PICK n \in Nat : n = c.step
  BY <1>1, BoundsAssumption DEF Steps
<1>3. /\ uses[u] \in [Steps -> Nat]
      /\ \A t \in Steps : t \in Nat
      /\ totp[u].last \in Nat
  BY <1>1, BoundsAssumption DEF Tables, Steps, Credential
<1>4. \A t \in Steps : uses[u][t] > 0 => totp[u].confirmed /\ t <= totp[u].last /\ t < n
  BY <1>1, <1>2, <1>3 DEF Accepted, UsedUp
<1>5. \A t \in Steps : uses[u][t] <= 1
  BY DEF UsedUp
<1>6. uses[u][n] = 0
  <2>1. uses[u][n] \in Nat /\ ~(uses[u][n] > 0)
    BY <1>1, <1>2, <1>3, <1>4
  <2> QED
    BY <2>1
<1>7. \A t \in Steps : uses'[u][t] = IF t = n /\ totp[u].secret = c.secret THEN 1 ELSE uses[u][t]
  BY <1>1, <1>2, <1>3, <1>6 DEF Accepted, Accept, Tables
<1>8. totp'[u].confirmed /\ totp'[u].last = n
  BY <1>2 DEF Accepted
<1>9. ASSUME NEW t \in Steps
      PROVE  uses'[u][t] <= 1 /\ (uses'[u][t] > 0 => t <= n)
  <2>1. t \in Nat /\ uses[u][t] \in Nat
    BY <1>3
  <2>2. CASE t = n
    BY <1>5, <1>7, <2>1, <2>2
  <2>3. CASE t # n
    BY <1>4, <1>5, <1>7, <2>1, <2>3
  <2> QED
    BY <2>2, <2>3
<1> QED
  BY <1>8, <1>9 DEF UsedUp

\* A code of the second factor is accepted once, in any order of logins, confirmations,
\* setups and deletions: AcceptTOTPTimestep compares the last accepted step.
THEOREM EachCodeOnce == Spec => []CodesAreUsedOnce
<1> DEFINE CodesInv == \A u \in Users : UsedUp(u)
<1>1. Init => CodesInv
  BY DEF Init, UsedUp
<1>2. TypeOK /\ CodesInv /\ [Next]_vars => CodesInv'
  <2> SUFFICES ASSUME TypeOK, CodesInv, [Next]_vars, NEW v \in Users PROVE UsedUp(v)'
    OBVIOUS
  <2>0. UsedUp(v)
    OBVIOUS
  <2>1. CASE FactorUntouched
    BY <2>0, <2>1 DEF FactorUntouched, UsedUp
  <2>2. ASSUME NEW h \in Handlers, CommitTOTP(h) \/ CommitConfirm(h)
        PROVE  UsedUp(v)'
    <3>1. Accepted(h)
      BY <2>2, LoginAccepts, ConfirmAccepts
    <3>2. CASE v = target[h]
      BY <2>0, <3>1, <3>2, AcceptedIsNew
    <3>3. CASE v # target[h]
      <4>1. totp'[v] = totp[v]
        BY <3>1, <3>3 DEF Accepted
      <4>2. uses'[v] = uses[v]
        BY <3>1, <3>3, TypeParts DEF Accepted, Accept, Tables
      <4> QED
        BY <2>0, <4>1, <4>2 DEF UsedUp
    <3> QED
      BY <3>2, <3>3
  <2>3. ASSUME NEW h \in Handlers, CommitSetup(h)
        PROVE  UsedUp(v)'
    <3>1. CASE v = target[h]
      <4>1. uses'[v] = [t \in Steps |-> 0]
        BY <2>3, <3>1, SetupReplaces
      <4>2. \A t \in Steps : uses'[v][t] = 0
        BY <4>1
      <4> QED
        BY <4>2 DEF UsedUp
    <3>2. CASE v # target[h]
      BY <2>0, <2>3, <3>2, SetupReplaces DEF UsedUp
    <3> QED
      BY <3>1, <3>2
  <2>4. ASSUME NEW h \in Handlers, CommitNoTOTP(h)
        PROVE  UsedUp(v)'
    BY <2>0, <2>4, DeletionRemoves DEF UsedUp
  <2> QED
    BY <2>1, <2>2, <2>3, <2>4, FactorCases
<1>3. CodesInv => CodesAreUsedOnce
  BY DEF CodesAreUsedOnce, UsedUp
<1> QED
  BY <1>1, <1>2, <1>3, TypeCorrect, PTL DEF Spec

\* A new pending login is none that another request works with.
LEMMA PendingHeld ==
  ASSUME TypeOK, NEW h \in Handlers,
         CommitUser(h) \/ CommitMethod(h) \/ CommitSession(h) \/ Fail(h),
         NEW g \in Handlers \ {h}, op[g] = "totp", target[g] \in Users,
         held[g] \in pending'[target[g]]
  PROVE  held[g] \in pending[target[g]]
<1> USE TypeParts
<1>1. CASE pending' = pending
  BY <1>1
<1>2. CASE \E u \in Users : pending' = [pending EXCEPT ![u] = {}]
  BY <1>2 DEF Tables
<1>3. CASE CommitTOTP(h)
  <2>1. target[h] \in Users /\ pending' = [pending EXCEPT ![target[h]] = @ \ {held[h]}]
    BY <1>3, CommitFacts DEF CommitTOTP
  <2> QED
    BY <2>1 DEF Tables
<1>4. CASE CommitLogin(h)
  <2> DEFINE u == target[h]
             taken == pending[u] \cup HeldBy(h, "totp")
  <2>1. CASE ~seen[h].required
    BY <1>1, <1>4, <2>1 DEF CommitLogin
  <2>2. CASE seen[h].required
    <3>1. PICK c : c = Unused(Ids, taken)
      OBVIOUS
    <3>2. u \in Users /\ Left(Ids, taken) /\ pending' = [pending EXCEPT ![u] = @ \cup {c}]
      BY <1>4, <2>2, <3>1, CommitFacts DEF CommitLogin
    <3>3. c \notin HeldBy(h, "totp")
      BY <3>1, <3>2, UnusedIsLeft
    <3>4. held[g] # c
      BY <3>3 DEF HeldBy
    <3> QED
      BY <3>2, <3>4 DEF Tables
  <2> QED
    BY <2>1, <2>2
<1>5. CASE \/ CommitBootstrap(h) \/ CommitCreate(h) \/ CommitEnable(h) \/ CommitIssue(h)
           \/ CommitEnroll(h) \/ CommitPasskey(h) \/ CommitSetup(h) \/ Fail(h)
  BY <1>1, <1>5 DEF CommitBootstrap, CommitCreate, CommitEnable, CommitIssue, CommitEnroll,
                    CommitPasskey, CommitSetup, Fail, tokenVars, tableVars
<1>6. CASE \/ CommitUpdate(h) \/ CommitDisable(h) \/ CommitNoPasskey(h) \/ CommitPassword(h)
           \/ CommitConfirm(h) \/ CommitNoTOTP(h) \/ CommitLogout(h)
  <2>1. target[h] \in Users
    BY <1>6, CommitFacts DEF CommitUpdate, CommitDisable, CommitNoPasskey, CommitPassword,
                             CommitConfirm, CommitNoTOTP, CommitLogout
  <2>2. pending' = pending \/ pending' = [pending EXCEPT ![target[h]] = {}]
    BY <1>6 DEF CommitUpdate, CommitDisable, CommitNoPasskey, CommitPassword, CommitConfirm,
                CommitNoTOTP, CommitLogout, OnlyNewSession
  <2> QED
    BY <1>1, <1>2, <2>1, <2>2
<1> QED
  BY <1>3, <1>4, <1>5, <1>6 DEF CommitUser, CommitMethod, CommitSession

\* Who can complete a login has just verified the code, or could complete it before.
LEMMA CompletesLogin ==
  ASSUME TypeOK, [Next]_vars, NEW g \in Handlers,
         pc'[g] = "commit", op'[g] = "totp", held'[g] \in pending'[target'[g]]
  PROVE  \/ VerifyCode(g)
         \/ /\ pc[g] = "commit" /\ op[g] = "totp" /\ target'[g] = target[g]
            /\ code'[g] = code[g] /\ target[g] \in Users /\ held[g] \in pending[target[g]]
<1> USE TypeParts
<1>1. ASSUME NEW h \in Handlers, Begin(h)
      PROVE  /\ g # h /\ pc'[g] = pc[g] /\ op'[g] = op[g] /\ target'[g] = target[g]
             /\ code' = code /\ held'[g] = held[g] /\ pending' = pending
  <2>1. CASE Authenticate(h)
    <3>1. PICK o \in AdminOps \cup SelfOps : op' = [op EXCEPT ![h] = o]
      BY <2>1 DEF Authenticate
    <3>2. g # h
      BY <3>1 DEF Locals, AdminOps, SelfOps
    <3> QED
      BY <2>1, <3>2 DEF Authenticate, tableVars
  <2>2. CASE BeginBootstrap(h) \/ BeginEnrollment(h) \/ BeginLogin(h) \/ BeginTOTP(h)
    <3>1. PICK o, u, first : /\ BeginPublic(h, o, u, first)
                             /\ o # "totp" \/ first # "commit"
      BY <2>2 DEF BeginBootstrap, BeginEnrollment, BeginLogin, BeginTOTP
    <3>2. g # h
      BY <3>1 DEF BeginPublic, Locals
    <3>3. held'[g] = held[g]
      <4>1. held' = held \/ \E x : held' = [held EXCEPT ![h] = x]
        BY <2>2 DEF BeginBootstrap, BeginEnrollment, BeginLogin, BeginTOTP
      <4> QED
        BY <3>2, <4>1 DEF Locals
    <3> QED
      BY <3>1, <3>2, <3>3 DEF BeginPublic, tableVars
  <2> QED
    BY <1>1, <2>1, <2>2 DEF Begin
<1>2. ASSUME NEW h \in Handlers, Read(h), ~VerifyCode(g)
      PROVE  /\ pc'[g] = pc[g] /\ op' = op /\ target' = target
             /\ code'[g] = code[g] /\ held' = held /\ pending' = pending
  <2>1. op' = op /\ target' = target /\ held' = held /\ pending' = pending
    BY <1>2 DEF Read, ReadUser, CountPasskeys, ReadForSetup, VerifyCode, tableVars, localVars
  <2>2. CASE g # h
    <3>1. PICK p : pc' = [pc EXCEPT ![h] = p]
      BY <1>2 DEF Read, ReadUser, CountPasskeys, ReadForSetup, VerifyCode
    <3>2. code' = code \/ \E x : code' = [code EXCEPT ![h] = x]
      BY <1>2 DEF Read, ReadUser, CountPasskeys, ReadForSetup, VerifyCode, localVars
    <3>3. pc'[g] = pc[g] /\ code'[g] = code[g]
      BY <2>2, <3>1, <3>2 DEF Locals
    <3> QED
      BY <2>1, <3>3
  <2>3. CASE g = h
    <3>1. op[h] = "totp"
      BY <2>1, <2>3
    <3>2. ~CountPasskeys(h) /\ ~ReadForSetup(h)
      BY <3>1 DEF CountPasskeys, ReadForSetup, HasRead, Updates
    <3>3. ~ReadUser(h)
      BY <2>3, <3>1 DEF ReadUser, NextStep, Locals
    <3> QED
      BY <1>2, <2>3, <3>2, <3>3 DEF Read
  <2> QED
    BY <2>1, <2>2, <2>3
<1>3. ASSUME NEW h \in Handlers,
             CommitUser(h) \/ CommitMethod(h) \/ CommitSession(h) \/ Fail(h)
      PROVE  /\ g # h /\ pc'[g] = pc[g] /\ op'[g] = op[g] /\ target'[g] = target[g]
             /\ code'[g] = code[g] /\ held'[g] = held[g]
             /\ (target[g] \in Users => held[g] \in pending[target[g]])
  <2>1. Leave(h)
    BY <1>3, NewUserCases, QuietCases, WritingCases
       DEF CommitUser, CommitMethod, CommitSession, QuietEnd, CreatingEnd, WritingEnd
  <2>2. g # h
    BY <2>1, LeaveFrame
  <2>3. /\ pc'[g] = pc[g] /\ op'[g] = op[g] /\ target'[g] = target[g]
        /\ code'[g] = code[g] /\ held'[g] = held[g]
    BY <2>1, <2>2, LeaveFrame
  <2> QED
    BY <1>3, <2>2, <2>3, PendingHeld
<1>4. CASE (\E u \in created : ExpireSession(u)) \/ Tick \/ UNCHANGED vars
  BY <1>4 DEF ExpireSession, Tick, vars, tableVars, localVars, HasRead
<1> QED
  BY <1>1, <1>2, <1>3, <1>4 DEF Next, HasRead

\* A login completes only with a code of the present secret: who replaces the secret leaves
\* it unconfirmed, and the confirmation ends the logins that are waiting for a code.
THEOREM VerifiedCodesStayCurrent == Spec => []VerifiedCodesAreCurrent
<1>1. Init => VerifiedCodesAreCurrent
  BY DEF Init, VerifiedCodesAreCurrent
<1>2. TypeOK /\ VerifiedCodesAreCurrent /\ [Next]_vars => VerifiedCodesAreCurrent'
  <2> SUFFICES ASSUME TypeOK, VerifiedCodesAreCurrent, [Next]_vars, NEW g \in Handlers,
                      pc'[g] = "commit", op'[g] = "totp", held'[g] \in pending'[target'[g]],
                      totp'[target'[g]] # None, totp'[target'[g]].confirmed
               PROVE  code'[g].secret = totp'[target'[g]].secret
    BY DEF VerifiedCodesAreCurrent
  <2>1. CASE VerifyCode(g)
    BY <2>1, TypeParts DEF VerifyCode, tableVars, Locals
  <2>2. CASE /\ pc[g] = "commit" /\ op[g] = "totp" /\ target'[g] = target[g]
             /\ code'[g] = code[g] /\ target[g] \in Users /\ held[g] \in pending[target[g]]
    <3> DEFINE u == target[g]
    <3>0. totp[u] # None /\ totp[u].confirmed => code[g].secret = totp[u].secret
      BY <2>2 DEF VerifiedCodesAreCurrent
    <3>1. CASE FactorUntouched
      BY <2>2, <3>0, <3>1 DEF FactorUntouched
    <3>2. ASSUME NEW h \in Handlers, CommitTOTP(h)
          PROVE  code[g].secret = totp'[u].secret
      <4>1. Accepted(h) /\ totp[target[h]].confirmed
        BY <3>2, LoginAccepts DEF CommitTOTP
      <4> QED
        BY <2>2, <3>0, <4>1 DEF Accepted
    <3>3. ASSUME NEW h \in Handlers, CommitSetup(h)
          PROVE  code[g].secret = totp'[u].secret
      BY <2>2, <3>0, <3>3, SetupReplaces
    <3>4. ASSUME NEW h \in Handlers, CommitConfirm(h)
          PROVE  code[g].secret = totp'[u].secret
      <4>1. Accepted(h)
        BY <3>4, ConfirmAccepts
      <4>2. pending'[target[h]] = {}
        BY <3>4, <4>1, TypeParts, OnlyNewSessionTypes DEF CommitConfirm, Accepted
      <4>3. u # target[h]
        BY <2>2, <4>2
      <4> QED
        BY <2>2, <3>0, <4>1, <4>3 DEF Accepted
    <3>5. ASSUME NEW h \in Handlers, CommitNoTOTP(h)
          PROVE  code[g].secret = totp'[u].secret
      BY <2>2, <3>0, <3>5, DeletionRemoves
    <3> QED
      BY <2>2, <3>1, <3>2, <3>3, <3>4, <3>5, FactorCases
  <2> QED
    BY <2>1, <2>2, CompletesLogin
<1> QED
  BY <1>1, <1>2, TypeCorrect, PTL DEF Spec

----------------------------------------------------------------------------
(* Disabled users. *)

\* The enrolment of a user who is disabled has lost its grant.
EnrollsEnabled(h) ==
    pc[h] # "idle" /\ op[h] = "enroll" =>
        /\ held[h] # None
        /\ pc[h] = "commit" /\ grant[target[h]] = held[h] => ~row[target[h]].disabled

\* The registration of a passkey of a user who is disabled has lost its session.
RegistersEnabled(h) ==
    pc[h] # "idle" /\ op[h] = "passkey" /\ sess[h] \in sessions[target[h]] =>
        ~row[target[h]].disabled

\* A row is written, and the user is disabled only if it was.
LEMMA DisabledKept ==
  ASSUME TypeOK, NEW h \in Handlers, NEW u \in Users, NEW r \in Row, WriteRow(h, u, r),
         r.disabled => row[u].disabled
  PROVE  \A v \in Users : row'[v].disabled => row[v].disabled
<1>1. row'[u] = r /\ \A v \in Users \ {u} : row'[v] = row[v]
  BY RowKeepsTypes, TypeParts
<1> QED
  BY <1>1

\* What EnterSession and the transactions that only take sessions away do to the sessions
\* that other requests name.
LEMMA SessionsGuarded ==
  ASSUME TypeOK, NEW h \in Handlers,
         CommitUser(h) \/ CommitMethod(h) \/ CommitSession(h) \/ Fail(h),
         NEW g \in Handlers \ {h}, NEW v \in Users, target[g] = v, sess[g] \in sessions'[v]
  PROVE  sess[g] \in sessions[v]
<1> USE TypeParts
<1> DEFINE u == target[h]
<1>1. CASE sessions' = sessions
  BY <1>1
<1>2. CASE u \in Users /\ \E k : k \subseteq sessions[u] /\ EnterSession(h, u, k)
  <2>1. PICK k : k \subseteq sessions[u] /\ EnterSession(h, u, k)
    BY <1>2
  <2>2. k \in SUBSET SessionIds
    BY <1>2, <2>1 DEF Tables
  <2>3. PICK s \in SessionIds :
          /\ sessions'[u] = k \cup {s}
          /\ \A f \in Handlers \ {h} : target[f] = u => sess[f] # s
    BY <1>2, <2>1, <2>2, SessionEntered
  <2>4. \A w \in Users \ {u} : sessions'[w] = sessions[w]
    BY <1>2, <2>1, <2>2, SessionEntered
  <2> QED
    BY <2>1, <2>3, <2>4
<1>3. CASE u \in Users /\ \E k : k \subseteq sessions[u] /\ sessions' = [sessions EXCEPT ![u] = k]
  BY <1>3 DEF Tables
<1>4. CASE CommitUser(h)
  <2>1. CASE CommitBootstrap(h)
    BY <1>2, <2>1, CommitFacts DEF CommitBootstrap, AddSession
  <2>2. CASE CommitUpdate(h) \/ CommitDisable(h)
    <3>1. u \in Users
      BY <2>2, CommitFacts DEF CommitUpdate, CommitDisable
    <3>2. sessions' = sessions \/ sessions' = [sessions EXCEPT ![u] = {}]
      BY <2>2 DEF CommitUpdate, CommitDisable
    <3> QED
      BY <1>1, <1>3, <3>1, <3>2
  <2>3. CASE CommitCreate(h) \/ CommitEnable(h) \/ CommitIssue(h)
    BY <1>1, <2>3 DEF CommitCreate, CommitEnable, CommitIssue, tokenVars
  <2> QED
    BY <1>4, <2>1, <2>2, <2>3 DEF CommitUser
<1>5. CASE CommitMethod(h)
  <2>1. u \in Users
    BY <1>5, CommitFacts DEF CommitMethod, CommitEnroll, CommitPasskey, CommitNoPasskey,
                             CommitPassword
  <2>2. \/ EnterSession(h, u, sessions[u]) \/ EnterSession(h, u, sessions[u] \ {sess[h]})
        \/ EnterSession(h, u, {})
    BY <1>5 DEF CommitMethod, CommitEnroll, CommitPasskey, CommitNoPasskey, CommitPassword,
                AddSession, OnlyNewSession
  <2> QED
    BY <1>2, <2>1, <2>2
<1>6. CASE CommitSession(h)
  <2>1. u \in Users
    BY <1>6, CommitFacts DEF CommitSession, CommitLogin, CommitTOTP, CommitSetup, CommitConfirm,
                             CommitNoTOTP, CommitLogout
  <2>2. CASE CommitLogin(h) \/ CommitTOTP(h)
    <3>1. sessions' = sessions \/ EnterSession(h, u, sessions[u])
      BY <2>2 DEF CommitLogin, CommitTOTP, AddSession
    <3> QED
      BY <1>1, <1>2, <2>1, <3>1
  <2>3. CASE CommitSetup(h)
    BY <1>1, <2>3 DEF CommitSetup, tokenVars
  <2>4. CASE CommitConfirm(h) \/ CommitNoTOTP(h)
    <3>1. EnterSession(h, u, {})
      BY <2>4 DEF CommitConfirm, CommitNoTOTP, OnlyNewSession
    <3> QED
      BY <1>2, <2>1, <3>1
  <2>5. CASE CommitLogout(h)
    <3>1. \E k : k \subseteq sessions[u] /\ sessions' = [sessions EXCEPT ![u] = k]
      BY <2>5 DEF CommitLogout
    <3> QED
      BY <1>3, <2>1, <3>1
  <2> QED
    BY <1>6, <2>2, <2>3, <2>4, <2>5 DEF CommitSession
<1>7. CASE Fail(h)
  BY <1>1, <1>7 DEF Fail, tableVars
<1> QED
  BY <1>4, <1>5, <1>6, <1>7

\* What NewGrant and the end of a grant do to the grants that other enrolments name.
LEMMA GrantsGuarded ==
  ASSUME TypeOK, NEW h \in Handlers,
         CommitUser(h) \/ CommitMethod(h) \/ CommitSession(h) \/ Fail(h),
         NEW g \in Handlers \ {h}, NEW v \in Users,
         op[g] = "enroll", held[g] # None, grant'[v] = held[g]
  PROVE  grant[v] = held[g]
<1> USE TypeParts
<1> DEFINE u == target[h]
<1>1. CASE grant' = grant
  BY <1>1
<1>2. CASE u \in Users /\ grant' = [grant EXCEPT ![u] = None]
  BY <1>2 DEF Tables
<1>3. CASE u \in Users /\ NewGrant(h, u)
  BY <1>3, GrantMade
<1>4. CASE CommitDisable(h) \/ CommitEnroll(h)
  BY <1>2, <1>4, CommitFacts DEF CommitDisable, CommitEnroll
<1>5. CASE CommitCreate(h) \/ CommitIssue(h)
  BY <1>3, <1>5, CommitFacts DEF CommitCreate, CommitIssue
<1>6. CASE ~(CommitDisable(h) \/ CommitEnroll(h) \/ CommitCreate(h) \/ CommitIssue(h))
  BY <1>1, <1>6 DEF CommitUser, CommitMethod, CommitSession, Fail, CommitBootstrap, CommitUpdate,
                    CommitEnable, CommitPasskey, CommitNoPasskey, CommitPassword, CommitLogin,
                    CommitTOTP, CommitSetup, CommitConfirm, CommitNoTOTP, CommitLogout,
                    tokenVars, tableVars
<1> QED
  BY <1>4, <1>5, <1>6

\* A user who is disabled was so before, or has lost the sessions and the grant.
LEMMA DisablingGuarded ==
  ASSUME TypeOK, NEW h \in Handlers,
         CommitUser(h) \/ CommitMethod(h) \/ CommitSession(h) \/ Fail(h),
         NEW v \in Users, row'[v].disabled
  PROVE  row[v].disabled \/ (sessions'[v] = {} /\ grant'[v] = None)
<1> USE TypeParts
<1> DEFINE u == target[h]
<1>1. CASE row' = row
  BY <1>1
<1>2. ASSUME u \in Users, NEW r \in Row, WriteRow(h, u, r), r.disabled => row[u].disabled
      PROVE  row[v].disabled
  BY <1>2, DisabledKept
<1>3. CASE CommitBootstrap(h) \/ CommitCreate(h)
  <2>1. u \in Users
    BY <1>3, CommitFacts DEF CommitBootstrap, CommitCreate
  <2>2. PICK a \in Roles, b \in BOOLEAN :
          WriteRow(h, u, [row[u] EXCEPT !.role = a, !.password = b])
    <3>1. CASE CommitBootstrap(h)
      BY <3>1 DEF CommitBootstrap, NewRow, Roles
    <3>2. CASE CommitCreate(h)
      BY <3>2, BoundsAssumption DEF CommitCreate, NewRow
    <3> QED
      BY <1>3, <3>1, <3>2
  <2>3. row'[u].disabled = row[u].disabled /\ \A w \in Users \ {u} : row'[w] = row[w]
    BY <2>1, <2>2, NewRowWritten
  <2> QED
    BY <2>3
<1>4. CASE CommitDisable(h)
  <2>1. u \in Users
    BY <1>4, CommitFacts DEF CommitDisable
  <2>2. CASE v = u
    BY <1>4, <2>1, <2>2 DEF CommitDisable, Tables
  <2>3. CASE v # u
    <3>1. row'[v] = row[v]
      BY <1>4, <2>1, <2>3 DEF CommitDisable, WriteRow, Tables
    <3> QED
      BY <3>1
  <2> QED
    BY <2>2, <2>3
<1>5. CASE \/ CommitUpdate(h) \/ CommitEnable(h) \/ CommitNoPasskey(h) \/ CommitPassword(h)
           \/ CommitConfirm(h) \/ CommitNoTOTP(h)
  <2>1. u \in Users
    BY <1>5, CommitFacts DEF CommitUpdate, CommitEnable, CommitNoPasskey, CommitPassword,
                             CommitConfirm, CommitNoTOTP
  <2>2. PICK old \in Row : old = row[u]
    BY <2>1 DEF Tables
  <2>3. \E r \in Row : WriteRow(h, u, r) /\ (r.disabled => old.disabled)
    <3>1. CASE CommitUpdate(h)
      <4>1. input[h] \in Input /\ WriteRow(h, u, Applied(old, input[h]))
        BY <3>1, <2>2, CommitFacts DEF CommitUpdate
      <4>2. Applied(old, input[h]) \in Row /\ Applied(old, input[h]).disabled = old.disabled
        BY <4>1, RowApplied
      <4> QED
        BY <4>1, <4>2
    <3>2. CASE CommitEnable(h)
      <4>1. WriteRow(h, u, [old EXCEPT !.disabled = FALSE])
        BY <3>2, <2>2 DEF CommitEnable
      <4>2. PICK r \in Row : r = [old EXCEPT !.disabled = FALSE] /\ r.disabled = FALSE
        BY DisabledWritten
      <4> QED
        BY <4>1, <4>2
    <3>3. CASE CommitNoPasskey(h)
      BY <3>3, <2>2 DEF CommitNoPasskey
    <3>4. CASE CommitPassword(h)
      <4>1. PICK b \in BOOLEAN : WriteRow(h, u, [old EXCEPT !.password = b])
        BY <3>4, <2>2 DEF CommitPassword
      <4> QED
        BY <4>1, PasswordWritten
    <3>5. CASE CommitConfirm(h) \/ CommitNoTOTP(h)
      <4>1. PICK b \in BOOLEAN : WriteRow(h, u, [old EXCEPT !.required = b])
        BY <3>5, <2>2 DEF CommitConfirm, CommitNoTOTP
      <4> QED
        BY <4>1, RequiredWritten
    <3> QED
      BY <1>5, <3>1, <3>2, <3>3, <3>4, <3>5
  <2> QED
    BY <1>2, <2>1, <2>2, <2>3
<1>6. CASE \/ CommitIssue(h) \/ CommitEnroll(h) \/ CommitPasskey(h) \/ CommitLogin(h)
           \/ CommitTOTP(h) \/ CommitSetup(h) \/ CommitLogout(h) \/ Fail(h)
  BY <1>1, <1>6 DEF CommitIssue, CommitEnroll, CommitPasskey, CommitLogin, CommitTOTP,
                    CommitSetup, CommitLogout, Fail, KeepRow, tableVars
<1> QED
  BY <1>3, <1>4, <1>5, <1>6 DEF CommitUser, CommitMethod, CommitSession

\* What a request begins with.
LEMMA BeginEnabled ==
  ASSUME TypeOK, NEW h \in Handlers, Begin(h)
  PROVE  EnrollsEnabled(h)' /\ RegistersEnabled(h)'
<1> USE TypeParts
<1>1. CASE Authenticate(h)
  <2>1. PICK u \in created, t \in Users, o \in Ops \cap (AdminOps \cup SelfOps) :
          /\ ~row[u].disabled
          /\ o \in SelfOps => t = u
          /\ op' = [op EXCEPT ![h] = o]
          /\ target' = [target EXCEPT ![h] = t]
    BY <1>1 DEF Authenticate
  <2>2. op'[h] = o /\ target'[h] = t /\ row' = row
    BY <1>1, <2>1 DEF Locals, Authenticate, tableVars
  <2>3. o # "enroll" /\ (o = "passkey" => t = u)
    BY <2>1 DEF AdminOps, SelfOps
  <2> QED
    BY <2>1, <2>2, <2>3 DEF EnrollsEnabled, RegistersEnabled
<1>2. CASE BeginEnrollment(h)
  <2>1. PICK u \in created : /\ grant[u] # None
                             /\ BeginPublic(h, "enroll", u, "read")
                             /\ held' = [held EXCEPT ![h] = grant[u]]
    BY <1>2 DEF BeginEnrollment
  <2>2. op'[h] = "enroll" /\ pc'[h] = "read" /\ held'[h] # None
    BY <2>1 DEF BeginPublic, Locals
  <2> QED
    BY <2>2 DEF EnrollsEnabled, RegistersEnabled
<1>3. CASE BeginBootstrap(h) \/ BeginLogin(h) \/ BeginTOTP(h)
  <2>1. op'[h] \in {"bootstrap", "login", "totp"}
    BY <1>3 DEF BeginBootstrap, BeginLogin, BeginTOTP, BeginPublic, Locals
  <2> QED
    BY <2>1 DEF EnrollsEnabled, RegistersEnabled
<1> QED
  BY <1>1, <1>2, <1>3 DEF Begin

\* A request that reads its user finds it enabled, or fails if it is an enrolment.
LEMMA ReadEnabled ==
  ASSUME TypeOK, NEW h \in Handlers, Read(h), EnrollsEnabled(h), RegistersEnabled(h)
  PROVE  EnrollsEnabled(h)' /\ RegistersEnabled(h)'
<1> USE TypeParts
<1>1. /\ op' = op /\ target' = target /\ held' = held /\ sess' = sess
      /\ row' = row /\ grant' = grant /\ sessions' = sessions
  BY DEF Read, ReadUser, CountPasskeys, ReadForSetup, VerifyCode, tableVars, localVars
<1>2. pc[h] # "idle"
  BY DEF Read, ReadUser, CountPasskeys, ReadForSetup, VerifyCode
<1>3. op[h] = "enroll" => ~row[target[h]].disabled
  BY DEF Read, ReadUser, CountPasskeys, ReadForSetup, VerifyCode, HasRead, Updates
<1> QED
  BY <1>1, <1>2, <1>3 DEF EnrollsEnabled, RegistersEnabled

EnabledInv == \A h \in Handlers : EnrollsEnabled(h) /\ RegistersEnabled(h)

\* Beginning and reading do not change what the other requests have.
LEMMA ProgressFrame ==
  ASSUME TypeOK, NEW h \in Handlers, Begin(h) \/ Read(h), NEW g \in Handlers \ {h}
  PROVE  /\ pc'[g] = pc[g] /\ op'[g] = op[g] /\ target'[g] = target[g]
         /\ sess'[g] = sess[g] /\ held'[g] = held[g]
         /\ row' = row /\ grant' = grant /\ sessions' = sessions /\ passkeys' = passkeys
<1> USE TypeParts
<1>1. row' = row /\ grant' = grant /\ sessions' = sessions /\ passkeys' = passkeys
  BY DEF Begin, Authenticate, BeginBootstrap, BeginEnrollment, BeginLogin, BeginTOTP, BeginPublic,
         Read, ReadUser, CountPasskeys, ReadForSetup, VerifyCode, tableVars
<1>2. /\ \E x : pc' = [pc EXCEPT ![h] = x]
      /\ op' = op \/ \E x : op' = [op EXCEPT ![h] = x]
      /\ target' = target \/ \E x : target' = [target EXCEPT ![h] = x]
      /\ sess' = sess \/ \E x : sess' = [sess EXCEPT ![h] = x]
      /\ held' = held \/ \E x : held' = [held EXCEPT ![h] = x]
  <2>1. CASE Read(h)
    BY <2>1 DEF Read, ReadUser, CountPasskeys, ReadForSetup, VerifyCode, localVars
  <2>2. CASE Authenticate(h)
    BY <2>2 DEF Authenticate
  <2>3. CASE BeginBootstrap(h) \/ BeginEnrollment(h) \/ BeginLogin(h) \/ BeginTOTP(h)
    <3>1. PICK o, u, first : BeginPublic(h, o, u, first)
      BY <2>3 DEF BeginBootstrap, BeginEnrollment, BeginLogin, BeginTOTP
    <3>2. held' = held \/ \E x : held' = [held EXCEPT ![h] = x]
      BY <2>3 DEF BeginBootstrap, BeginEnrollment, BeginLogin, BeginTOTP
    <3> QED
      BY <3>1, <3>2 DEF BeginPublic
  <2> QED
    BY <2>1, <2>2, <2>3 DEF Begin
<1> QED
  BY <1>1, <1>2 DEF Locals

\* Enrolments and registrations that can still succeed are of enabled users.
LEMMA EnabledNext ==
  ASSUME TypeOK, EnabledInv, [Next]_vars
  PROVE  EnabledInv'
<1> USE TypeParts
<1> SUFFICES ASSUME NEW g \in Handlers PROVE EnrollsEnabled(g)' /\ RegistersEnabled(g)'
  BY DEF EnabledInv
<1>0. EnrollsEnabled(g) /\ RegistersEnabled(g)
  BY DEF EnabledInv
<1>1. ASSUME NEW h \in Handlers, Begin(h) \/ Read(h)
      PROVE  EnrollsEnabled(g)' /\ RegistersEnabled(g)'
  <2>1. CASE g = h
    BY <1>0, <1>1, <2>1, BeginEnabled, ReadEnabled
  <2>2. CASE g # h
    BY <1>0, <1>1, <2>2, ProgressFrame DEF EnrollsEnabled, RegistersEnabled
  <2> QED
    BY <2>1, <2>2
<1>2. ASSUME NEW h \in Handlers,
             CommitUser(h) \/ CommitMethod(h) \/ CommitSession(h) \/ Fail(h)
      PROVE  EnrollsEnabled(g)' /\ RegistersEnabled(g)'
  <2>1. Leave(h)
    BY <1>2, NewUserCases, QuietCases, WritingCases
       DEF CommitUser, CommitMethod, CommitSession, QuietEnd, CreatingEnd, WritingEnd
  <2>2. CASE g = h
    BY <2>1, <2>2, LeaveFrame DEF EnrollsEnabled, RegistersEnabled
  <2>3. CASE g # h
    <3>1. /\ pc'[g] = pc[g] /\ op'[g] = op[g] /\ target'[g] = target[g]
          /\ sess'[g] = sess[g] /\ held'[g] = held[g]
      BY <2>1, <2>3, LeaveFrame
    <3>2. CASE pc[g] = "idle"
      BY <3>1, <3>2 DEF EnrollsEnabled, RegistersEnabled
    <3>3. CASE pc[g] # "idle"
      <4> DEFINE v == target[g]
      <4>1. v \in Users
        BY <3>3 DEF HasRead
      <4>2. row'[v].disabled => row[v].disabled \/ (sessions'[v] = {} /\ grant'[v] = None)
        BY <1>2, <4>1, DisablingGuarded
      <4>3. sess[g] \in sessions'[v] => sess[g] \in sessions[v]
        BY <1>2, <2>3, <4>1, SessionsGuarded
      <4>4. op[g] = "enroll" /\ held[g] # None /\ grant'[v] = held[g] => grant[v] = held[g]
        BY <1>2, <2>3, <4>1, GrantsGuarded
      <4>5. EnrollsEnabled(g)'
        BY <1>0, <3>1, <4>2, <4>4 DEF EnrollsEnabled
      <4>6. RegistersEnabled(g)'
        BY <1>0, <3>1, <4>2, <4>3 DEF RegistersEnabled
      <4> QED
        BY <4>5, <4>6
    <3> QED
      BY <3>2, <3>3
  <2> QED
    BY <2>2, <2>3
<1>3. CASE \E u \in created : ExpireSession(u)
  <2>1. \A v \in Users : sessions'[v] \subseteq sessions[v]
    BY <1>3 DEF ExpireSession, Tables
  <2>2. UNCHANGED <<row, grant, pc, op, target, sess, held>>
    BY <1>3 DEF ExpireSession, localVars
  <2> QED
    BY <1>0, <2>1, <2>2 DEF EnrollsEnabled, RegistersEnabled, HasRead
<1>4. CASE Tick \/ UNCHANGED vars
  BY <1>0, <1>4 DEF Tick, vars, tableVars, localVars, EnrollsEnabled, RegistersEnabled
<1> QED
  BY <1>1, <1>2, <1>3, <1>4 DEF Next

\* Who is disabled gains no passkey, whatever began before: disabling takes the grant and the
\* sessions away in its transaction, and both ceremonies name them in theirs.
THEOREM DisabledGainNothing == Spec => DisabledUsersGetNoPasskeys
<1> DEFINE Kept == \A u \in Users : row[u].disabled => passkeys'[u] \subseteq passkeys[u]
<1>1. Spec => [](RequestInv /\ EnabledInv)
  <2>1. Init => RequestInv /\ EnabledInv
    BY RequestsInit DEF Init, EnabledInv, EnrollsEnabled, RegistersEnabled
  <2>2. RequestInv /\ EnabledInv /\ [Next]_vars => (RequestInv /\ EnabledInv)'
    BY RequestsNext, EnabledNext DEF RequestInv
  <2> QED
    BY <2>1, <2>2, PTL DEF Spec
<1>2. RequestInv /\ EnabledInv /\ [Next]_vars => [Kept]_vars
  <2> SUFFICES ASSUME RequestInv, EnabledInv, [Next]_vars, NEW v \in Users, row[v].disabled
               PROVE  passkeys'[v] \subseteq passkeys[v]
    OBVIOUS
  <2> USE TypeParts DEF RequestInv
  <2>1. ASSUME passkeys' = passkeys PROVE passkeys'[v] \subseteq passkeys[v]
    BY <2>1
  <2>2. ASSUME NEW h \in Handlers, target[h] \in Users, AddPasskey(h, target[h]),
               ~row[target[h]].disabled
        PROVE  passkeys'[v] \subseteq passkeys[v]
    BY <2>2, PasskeyAdded
  <2>3. ASSUME NEW h \in Handlers, Begin(h) \/ Read(h) PROVE passkeys' = passkeys
    BY <2>3 DEF Begin, Authenticate, BeginBootstrap, BeginEnrollment, BeginLogin, BeginTOTP,
                BeginPublic, Read, ReadUser, CountPasskeys, ReadForSetup, VerifyCode, tableVars
  <2>4. ASSUME NEW h \in Handlers, CommitBootstrap(h)
        PROVE  passkeys'[v] \subseteq passkeys[v]
    <3>1. target[h] \in Users /\ target[h] \notin created
      BY <2>4, CommitFacts DEF CommitBootstrap, NewRow
    <3>2. ~row[target[h]].disabled
      BY <3>1 DEF Fresh
    <3>3. passkeys' = passkeys \/ AddPasskey(h, target[h])
      BY <2>4 DEF CommitBootstrap
    <3> QED
      BY <2>1, <2>2, <3>1, <3>2, <3>3
  <2>5. ASSUME NEW h \in Handlers, CommitEnroll(h)
        PROVE  passkeys'[v] \subseteq passkeys[v]
    <3>1. target[h] \in Users /\ pc[h] = "commit" /\ op[h] = "enroll"
      BY <2>5, CommitFacts DEF CommitEnroll, Commits
    <3>2. ~row[target[h]].disabled
      BY <2>5, <3>1 DEF CommitEnroll, EnabledInv, EnrollsEnabled
    <3> QED
      BY <2>2, <2>5, <3>1, <3>2 DEF CommitEnroll
  <2>6. ASSUME NEW h \in Handlers, CommitPasskey(h)
        PROVE  passkeys'[v] \subseteq passkeys[v]
    <3>1. target[h] \in Users /\ pc[h] = "commit" /\ op[h] = "passkey"
      BY <2>6, CommitFacts DEF CommitPasskey, Commits
    <3>2. ~row[target[h]].disabled
      BY <2>6, <3>1 DEF CommitPasskey, EnabledInv, RegistersEnabled
    <3> QED
      BY <2>2, <2>6, <3>1, <3>2 DEF CommitPasskey
  <2>7. ASSUME NEW h \in Handlers, CommitNoPasskey(h)
        PROVE  passkeys'[v] \subseteq passkeys[v]
    BY <2>7, CommitFacts DEF CommitNoPasskey, Tables
  <2>8. ASSUME NEW h \in Handlers,
               \/ CommitCreate(h) \/ CommitUpdate(h) \/ CommitDisable(h) \/ CommitEnable(h)
               \/ CommitIssue(h) \/ CommitPassword(h) \/ CommitSession(h) \/ Fail(h)
        PROVE  passkeys' = passkeys
    BY <2>8 DEF CommitCreate, CommitUpdate, CommitDisable, CommitEnable, CommitIssue,
                CommitPassword, CommitSession, Fail, CommitLogin, CommitTOTP, CommitSetup,
                CommitConfirm, CommitNoTOTP, CommitLogout, tableVars
  <2>9. ASSUME (\E u \in created : ExpireSession(u)) \/ Tick \/ UNCHANGED vars
        PROVE  passkeys' = passkeys
    BY <2>9 DEF ExpireSession, Tick, vars, tableVars
  <2> QED
    BY <2>1, <2>3, <2>4, <2>5, <2>6, <2>7, <2>8, <2>9 DEF Next, CommitUser, CommitMethod
<1> QED
  BY <1>1, <1>2, PTL DEF Spec, DisabledUsersGetNoPasskeys

=============================================================================
