----------------------- MODULE RecordMutationsProofs -----------------------
(***************************************************************************)
(* Theorems about RecordMutations, for all zones, requests and bounds.     *)
(* What the adapters' plans are made of is in RecordPlansProofs.           *)
(***************************************************************************)
EXTENDS RecordPlansProofs

---------------------------------------------------------------------------
(* What the provider's records stay, whatever is done to them. *)

\* A record that a call writes fields of.
LEMMA OverlayFields ==
  ASSUME NEW fields, NEW r, NEW new, new = P!Overlay(fields, r)
  PROVE  /\ DOMAIN new = DOMAIN r
         /\ \A f \in DOMAIN r : new[f] = IF f \in DOMAIN fields THEN fields[f] ELSE r[f]
  BY DEF P!Overlay

LEMMA SingleFields ==
  ASSUME adapter \in Adapters, adapter # "huawei"
  PROVE  {"type", "num"} \subseteq RecordFields[adapter]
BY AdaptersAssumption DEF RecordFields

LEMMA SetKeepsRecords ==
  ASSUME adapter \in Adapters, NEW r, RecordOK(adapter, r), NEW c, NEW last, CallOK(c, last), c.op = "set",
         NEW new, new = P!Overlay(c.with, r)
  PROVE  RecordOK(adapter, new)
<1> DEFINE w == c.with
<1>1. /\ DOMAIN new = DOMAIN r
      /\ \A f \in DOMAIN r : new[f] = IF f \in DOMAIN w THEN w[f] ELSE r[f]
  BY OverlayFields
<1>2. DOMAIN r = RecordFields[adapter]
  BY DEF RecordOK
<1>3. CASE adapter = "huawei"
  <2>1. /\ ValuesOK(r.values) /\ r.line \in Lines /\ r.weight \in Weights /\ r.phase \in Phases
    BY <1>3 DEF RecordOK
  <2>2. {"values", "line", "weight", "phase"} \subseteq DOMAIN r
    BY <1>2, <1>3 DEF RecordFields
  <2>3. /\ "line" \notin DOMAIN w
        /\ "values" \in DOMAIN w => ValuesOK(w.values)
        /\ "weight" \in DOMAIN w => w.weight \in Weights
        /\ "phase" \in DOMAIN w => w.phase \in Phases
    BY <1>3 DEF CallOK
  <2> HIDE DEF w
  <2>4. ValuesOK(new.values) /\ new.line \in Lines /\ new.weight \in Weights /\ new.phase \in Phases
    BY <1>1, <2>1, <2>2, <2>3
  <2> QED BY <1>1, <1>2, <1>3, <2>4 DEF RecordOK
<1>4. CASE adapter # "huawei"
  <2>1. r.type \in {"CNAME", "NS"} => r.num = None
    BY <1>4 DEF RecordOK
  <2>2. "type" \in DOMAIN w <=> "num" \in DOMAIN w
    BY <1>4 DEF CallOK
  <2>3. ("type" \in DOMAIN w /\ w.type \in {"CNAME", "NS"}) => w.num = None
    BY <1>4 DEF CallOK
  <2>5. "type" \in DOMAIN r /\ "num" \in DOMAIN r
    BY <1>2, <1>4, SingleFields
  <2> HIDE DEF w
  <2>6. new.type = (IF "type" \in DOMAIN w THEN w.type ELSE r.type)
        /\ new.num = (IF "num" \in DOMAIN w THEN w.num ELSE r.num)
    BY <1>1, <2>5
  <2>4. new.type \in {"CNAME", "NS"} => new.num = None
    BY <2>1, <2>2, <2>3, <2>6
  <2> QED BY <1>1, <1>2, <1>4, <2>4 DEF RecordOK
<1> QED
  BY <1>3, <1>4

LEMMA BalanceKeepsRecords ==
  ASSUME adapter = "aliyun", NEW r, RecordOK(adapter, r), NEW w, DOMAIN w = {"name", "type", "line", "weighted"},
         w.type = r.type, NEW new, new = P!Overlay(w, r)
  PROVE  RecordOK(adapter, new)
<1>1. /\ DOMAIN new = DOMAIN r
      /\ \A f \in DOMAIN r : new[f] = IF f \in DOMAIN w THEN w[f] ELSE r[f]
  BY OverlayFields
<1>2. DOMAIN r = RecordFields[adapter] /\ (r.type \in {"CNAME", "NS"} => r.num = None)
  BY DEF RecordOK
<1>3. new.type = r.type /\ new.num = r.num
  BY <1>1, <1>2 DEF RecordFields
<1> QED
  BY <1>1, <1>2, <1>3 DEF RecordOK

\* A call done.
LEMMA AppliedOK ==
  ASSUME adapter \in Adapters, NEW zone, ViewOK(zone), NEW c, CallOK(c, issued),
         NEW new, new = P!Applied(zone, c)
  PROVE  ViewOK(new)
<1>1. CASE c.op = "add"
  <2>1. new = [id \in DOMAIN zone \cup {c.id} |-> IF id = c.id THEN c.with ELSE zone[id]]
    BY <1>1 DEF P!Applied
  <2>2. c.id \in 1..issued /\ RecordOK(adapter, c.with)
    BY <1>1 DEF CallOK
  <2> QED BY <2>1, <2>2 DEF ViewOK
<1>2. CASE c.op = "set"
  <2>1. new = [id \in DOMAIN zone |-> IF id = c.id THEN P!Overlay(c.with, zone[id]) ELSE zone[id]]
    BY <1>2 DEF P!Applied
  <2>2. ASSUME NEW id \in DOMAIN new PROVE RecordOK(adapter, new[id])
    <3>1. RecordOK(adapter, zone[id]) /\ id \in DOMAIN zone
      BY <2>1 DEF ViewOK
    <3>2. RecordOK(adapter, P!Overlay(c.with, zone[id]))
      BY <1>2, <3>1, SetKeepsRecords
    <3> QED BY <2>1, <3>1, <3>2
  <2> QED BY <2>1, <2>2 DEF ViewOK
<1>3. CASE c.op = "delete"
  <2>1. new = [id \in DOMAIN zone \ {c.id} |-> zone[id]]
    BY <1>3 DEF P!Applied
  <2> QED BY <2>1 DEF ViewOK
<1>4. CASE c.op = "balance"
  <2>1. new = [id \in DOMAIN zone |->
                 IF \A f \in {"name", "type", "line"} : zone[id][f] = c.with[f]
                 THEN P!Overlay(c.with, zone[id]) ELSE zone[id]]
    BY <1>4 DEF P!Applied
  <2>2. adapter = "aliyun" /\ DOMAIN c.with = {"name", "type", "line", "weighted"}
    BY <1>4 DEF CallOK
  <2>3. ASSUME NEW id \in DOMAIN new PROVE RecordOK(adapter, new[id])
    <3> DEFINE r == zone[id]
               w == c.with
               named == \A f \in {"name", "type", "line"} : r[f] = w[f]
    <3>1. RecordOK(adapter, r) /\ id \in DOMAIN zone
      BY <2>1, <2>3 DEF ViewOK
    <3>2. named => w.type = r.type
      OBVIOUS
    <3>3. new[id] = IF named THEN P!Overlay(w, r) ELSE r
      BY <2>1, <2>3
    <3> HIDE DEF r, w, named
    <3>4. named => RecordOK(adapter, P!Overlay(w, r))
      BY <2>2, <3>1, <3>2, BalanceKeepsRecords DEF w
    <3> QED BY <3>1, <3>3, <3>4
  <2> QED BY <2>1, <2>3 DEF ViewOK
<1> QED
  BY <1>1, <1>2, <1>3, <1>4 DEF CallOK

\* Someone else's write, and the provider's own.
LEMMA RewrittenOK ==
  ASSUME adapter \in Adapters, NEW r, RecordOK(adapter, r), NEW text
  PROVE  RecordOK(adapter, Rewritten(r, text))
<1>1. CASE adapter = "huawei"
  <2> DEFINE vs == r.values
             v == [vs[1] EXCEPT !.text = text]
             ws == [vs EXCEPT ![1] = v]
  <2>1. Rewritten(r, text) = [r EXCEPT !.values = ws]
    BY <1>1, Zenon DEF Rewritten
  <2>2. ValuesOK(vs) /\ r.line \in Lines /\ r.weight \in Weights /\ r.phase \in Phases
        /\ DOMAIN r = RecordFields[adapter]
    BY <1>1 DEF RecordOK
  <2>3. IsSeq(vs) /\ \A i \in DOMAIN vs : DOMAIN vs[i] = {"text", "num"}
    BY <2>2 DEF ValuesOK, IsSeq, Items
  <2>4. DOMAIN v = DOMAIN vs[1]
    OBVIOUS
  <2>5. DOMAIN ws = DOMAIN vs /\ \A i \in DOMAIN vs : ws[i] = IF i = 1 THEN v ELSE vs[i]
    OBVIOUS
  <2> HIDE DEF v, vs, ws
  <2>6. \A i \in DOMAIN ws : DOMAIN ws[i] = {"text", "num"}
    BY <2>3, <2>4, <2>5
  <2>7. IsSeq(ws)
    <3>1. Len(vs) \in Nat /\ DOMAIN vs = 1..Len(vs)
      BY <2>3, SeqFacts
    <3>2. ws = [i \in 1..Len(vs) |-> ws[i]]
      BY <2>5, <3>1 DEF ws
    <3> QED BY <3>1, <3>2, FunctionIsSeq
  <2>8. ValuesOK(ws)
    BY <2>6, <2>7 DEF ValuesOK, IsSeq, Items
  <2> DEFINE new == [r EXCEPT !.values = ws]
  <2>9. /\ DOMAIN new = DOMAIN r /\ new.line = r.line /\ new.weight = r.weight /\ new.phase = r.phase
        /\ "values" \in DOMAIN r => new.values = ws
    OBVIOUS
  <2>10. "values" \in DOMAIN r
    BY <1>1, <2>2 DEF RecordFields
  <2> HIDE DEF new
  <2>11. RecordOK(adapter, new)
    BY <1>1, <2>2, <2>8, <2>9, <2>10 DEF RecordOK
  <2> QED BY <2>1, <2>11 DEF new
<1>2. CASE adapter # "huawei"
  <2> DEFINE new == [r EXCEPT !.text = text]
  <2>1. Rewritten(r, text) = new
    BY <1>2 DEF Rewritten
  <2>2. DOMAIN new = DOMAIN r /\ new.type = r.type /\ new.num = r.num
    OBVIOUS
  <2> HIDE DEF new
  <2> QED BY <1>2, <2>1, <2>2 DEF RecordOK
<1> QED
  BY <1>1, <1>2

Rested(r) == [r EXCEPT !.phase = NoStatus]
InPhase(r, phase) == [r EXCEPT !.phase = phase]
Without(zone, id) == [i \in DOMAIN zone \ {id} |-> zone[i]]

\* The phases a set can come to without a call.
Ways == Phases \ {"PENDING_DELETE"}

LEMMA SomeWays ==
  /\ NoStatus \in Ways /\ "PENDING_FREEZE" \in Ways /\ Halts \subseteq Ways /\ Ways \subseteq Phases
  /\ {NoStatus} \cup Halts \subseteq Ways /\ {"PENDING_FREEZE"} \cup Halts \subseteq Ways
<1>1. "PENDING_DELETE" \notin Huawei!Stops /\ "PENDING_FREEZE" \in Huawei!Pendings
  BY DEF Huawei!Stops, Huawei!Pendings
<1> QED
  BY <1>1, HaltsAssumption DEF Ways, Phases, NoStatus

LEMMA InPhaseOK ==
  ASSUME adapter = "huawei", NEW r, RecordOK(adapter, r), NEW phase \in Phases, NEW new, new = InPhase(r, phase)
  PROVE  RecordOK(adapter, new)
<1>2. DOMAIN r = RecordFields[adapter] /\ ValuesOK(r.values) /\ r.line \in Lines /\ r.weight \in Weights
  BY DEF RecordOK
<1>3. "phase" \in DOMAIN r
  BY <1>2 DEF RecordFields
<1>4. /\ DOMAIN new = DOMAIN r /\ new.values = r.values /\ new.line = r.line /\ new.weight = r.weight
      /\ new.phase = phase
  BY <1>3 DEF InPhase
<1> QED
  BY <1>2, <1>4 DEF RecordOK

\* What the provider does by itself, and what others do.
LEMMA SettleParts ==
  ASSUME Settle
  PROVE  /\ adapter = "huawei" /\ before' = records
         /\ UNCHANGED <<adapter, issued, request, stage, plan, result, base, disturbed, halfDone, attempts, reads,
                        interferences>>
         /\ \E id \in DOMAIN records :
              \/ records[id].phase = "PENDING_DELETE" /\ records' = Without(records, id)
              \/ /\ records[id].phase # "PENDING_DELETE"
                 /\ \E phase \in {NoStatus} \cup Halts : records' = [records EXCEPT ![id] = InPhase(@, phase)]
BY Zenon DEF Settle, Put, Without, Phased, InPhase, NoStatus

LEMMA InterfereParts ==
  ASSUME Interfere
  PROVE  /\ before' = records /\ disturbed' = TRUE
         /\ interferences < MaxInterferences /\ interferences' = interferences + 1
         /\ UNCHANGED <<adapter, issued, request, stage, plan, result, base, halfDone, attempts, reads>>
         /\ \E id \in DOMAIN records :
              \/ records' = Without(records, id)
              \/ \E text \in Texts : records' = [records EXCEPT ![id] = Rewritten(records[id], text)]
              \/ /\ adapter = "huawei"
                 /\ \E phase \in {"PENDING_FREEZE"} \cup Halts :
                       records' = [records EXCEPT ![id] = InPhase(@, phase)]
BY Zenon DEF Interfere, Put, Without, Phased, InPhase

LEMMA SettleOK ==
  ASSUME ViewOK(records), Settle
  PROVE  ViewOK(records')
<1>1. PICK id \in DOMAIN records :
         \/ records' = Without(records, id)
         \/ \E phase \in {NoStatus} \cup Halts : records' = [records EXCEPT ![id] = InPhase(@, phase)]
  BY SettleParts
<1>2. adapter = "huawei"
  BY SettleParts
<1>3. \A phase \in Phases : RecordOK(adapter, InPhase(records[id], phase))
  BY <1>2, InPhaseOK DEF ViewOK
<1>4. CASE records' = Without(records, id)
  BY <1>4 DEF ViewOK, Without
<1>5. ASSUME NEW phase \in {NoStatus} \cup Halts, records' = [records EXCEPT ![id] = InPhase(@, phase)]
      PROVE  ViewOK(records')
  <2>1. phase \in Phases
    BY <1>5, SomeWays
  <2> QED BY <1>3, <1>5, <2>1 DEF ViewOK
<1> QED
  BY <1>1, <1>4, <1>5

LEMMA InterfereOK ==
  ASSUME adapter \in Adapters, ViewOK(records), Interfere
  PROVE  ViewOK(records')
<1>1. PICK id \in DOMAIN records :
         \/ records' = Without(records, id)
         \/ \E text \in Texts : records' = [records EXCEPT ![id] = Rewritten(records[id], text)]
         \/ /\ adapter = "huawei"
            /\ \E phase \in {"PENDING_FREEZE"} \cup Halts : records' = [records EXCEPT ![id] = InPhase(@, phase)]
  BY InterfereParts
<1>2. \A text : RecordOK(adapter, Rewritten(records[id], text))
  BY RewrittenOK DEF ViewOK
<1>3. CASE records' = Without(records, id)
  BY <1>3 DEF ViewOK, Without
<1>4. ASSUME NEW text \in Texts, records' = [records EXCEPT ![id] = Rewritten(records[id], text)]
      PROVE  ViewOK(records')
  BY <1>2, <1>4 DEF ViewOK
<1>5. ASSUME adapter = "huawei", NEW phase \in {"PENDING_FREEZE"} \cup Halts,
             records' = [records EXCEPT ![id] = InPhase(@, phase)]
      PROVE  ViewOK(records')
  <2>1. phase \in Phases
    BY <1>5, SomeWays
  <2>2. RecordOK(adapter, InPhase(records[id], phase))
    BY <1>5, <2>1, InPhaseOK DEF ViewOK
  <2> QED BY <1>5, <2>2 DEF ViewOK
<1> QED
  BY <1>1, <1>3, <1>4, <1>5

\* A refused plan has no goal, so that no ID is given out for it.
Plain(p) == Allowed(p) \/ p.goal = <<>>

LEMMA PlainPlans ==
  ASSUME NEW code, NEW calls, NEW goal, NEW key, NEW status, NEW gone
  PROVE  /\ Plain(P!Refuse(code)) /\ Plain(P!Mutate(calls, goal, key, status, gone))
         /\ P!Refuse(code).goal = <<>>
BY Zenon DEF Plain, Allowed, P!Refuse, P!Mutate

LEMMA SameRefuse ==
  ASSUME NEW code
  PROVE  /\ Aliyun!Refuse(code) = P!Refuse(code) /\ Tencent!Refuse(code) = P!Refuse(code)
         /\ Cloudflare!Refuse(code) = P!Refuse(code) /\ Huawei!Refuse(code) = P!Refuse(code)
BY Zenon DEF P!Refuse, Aliyun!Refuse, Tencent!Refuse, Cloudflare!Refuse, Huawei!Refuse

LEMMA AliyunPlain ==
  ASSUME NEW x, NEW set, NEW sets
  PROVE  /\ Plain(Aliyun!CreatePlan(x, sets, issued)) /\ Plain(Aliyun!UpdatePlan(x, set, sets, issued))
         /\ Plain(Aliyun!DeletePlan(set))
<1>1. \A code : Plain(Aliyun!Refuse(code))
  BY PlainPlans, SameRefuse
<1>2. \A calls, goal, key, status, gone : Plain(Aliyun!Mutate(calls, goal, key, status, gone))
  BY PlainPlans, SameMutate
<1> QED
  BY <1>1, <1>2, Zenon DEF Aliyun!CreatePlan, Aliyun!UpdatePlan, Aliyun!DeletePlan

LEMMA TencentPlain ==
  ASSUME NEW x, NEW set, NEW sets
  PROVE  /\ Plain(Tencent!CreatePlan(x, sets, issued)) /\ Plain(Tencent!UpdatePlan(x, set, sets, issued))
         /\ Plain(Tencent!DeletePlan(set))
<1>1. \A code : Plain(Tencent!Refuse(code))
  BY PlainPlans, SameRefuse
<1>2. \A calls, goal, key, status, gone : Plain(Tencent!Mutate(calls, goal, key, status, gone))
  BY PlainPlans, SameMutate
<1> QED
  BY <1>1, <1>2, Zenon DEF Tencent!CreatePlan, Tencent!UpdatePlan, Tencent!DeletePlan

LEMMA CloudflarePlain ==
  ASSUME NEW x, NEW set, NEW sets
  PROVE  /\ Plain(Cloudflare!CreatePlan(x, sets, issued)) /\ Plain(Cloudflare!UpdatePlan(x, set, sets, issued))
         /\ Plain(Cloudflare!DeletePlan(set))
<1>1. \A code : Plain(Cloudflare!Refuse(code))
  BY PlainPlans, SameRefuse
<1>2. \A calls, goal, key, status, gone : Plain(Cloudflare!Mutate(calls, goal, key, status, gone))
  BY PlainPlans, SameMutate
<1> QED
  BY <1>1, <1>2, Zenon DEF Cloudflare!CreatePlan, Cloudflare!UpdatePlan, Cloudflare!DeletePlan

LEMMA HuaweiPlain ==
  ASSUME NEW x, NEW set, NEW sets
  PROVE  /\ Plain(Huawei!CreatePlan(x, sets, issued)) /\ Plain(Huawei!UpdatePlan(x, set, sets, issued))
         /\ Plain(Huawei!DeletePlan(set))
<1>1. \A code : Plain(Huawei!Refuse(code))
  BY PlainPlans, SameRefuse
<1>2. \A calls, goal, key, status, gone : Plain(Huawei!Mutate(calls, goal, key, status, gone))
  BY PlainPlans, SameMutate
<1> QED
  BY <1>1, <1>2, Zenon DEF Huawei!CreatePlan, Huawei!UpdatePlan, Huawei!DeletePlan

LEMMA PlanFromPlain ==
  ASSUME NEW view
  PROVE  Plain(PlanFrom(view))
<1>1. \A set, sets : Plain(CreatePlan(sets)) /\ Plain(UpdatePlan(set, sets)) /\ Plain(DeletePlan(set))
  BY AliyunPlain, TencentPlain, CloudflarePlain, HuaweiPlain DEF CreatePlan, UpdatePlan, DeletePlan
<1>2. \A code : Plain(P!Refuse(code))
  BY PlainPlans
<1> QED
  BY <1>1, <1>2, Zenon DEF PlanFrom

---------------------------------------------------------------------------
(* The inductive invariant of the types. *)

\* What is left of a plan while its calls are made.
PlanKept == PlanShape(plan) /\ \A c \in Items(plan.calls) : CallOK(c, issued)

\* What the client asks for, once it is known.
RequestKept ==
  /\ stage # "idle" => RequestOK(request)
  /\ stage = "batched" => request.batch
  /\ (stage = "received" /\ request.kind # "delete") => InputOK(request.desired)
  /\ (stage \in {"asked", "calls"} /\ request.kind # "delete") => PassedOn(request)

Kept ==
  /\ TypeOK
  /\ issued \in Nat /\ ViewOK(before) /\ reads \in Nat
  /\ stage = "idle" => attempts = 0
  /\ stage \in {"batched", "received", "asked"} => attempts < MaxAttempts
  /\ RequestKept
  /\ stage = "calls" => PlanKept

LEMMA KeptView ==
  ASSUME Kept
  PROVE  ViewOK(records) /\ ViewOK(before) /\ issued \in Nat /\ adapter \in Adapters
BY DEF Kept, TypeOK, ViewOK

\* What a read may show is what the provider's records can be.
LEMMA ViewsOK ==
  ASSUME Kept, NEW view \in Views
  PROVE  ViewOK(view)
<1>1. ViewOK(records) /\ ViewOK(before)
  BY KeptView
<1>2. CASE adapter = "huawei"
  <2> DEFINE ids == IF request.kind = "create" /\ stage = "calls" THEN {plan.key.id} ELSE request.id
  <2>1. view = [id \in DOMAIN records \cap ids |-> records[id]]
    BY <1>2 DEF Views
  <2> HIDE DEF ids
  <2> QED BY <1>1, <2>1 DEF ViewOK
<1>3. CASE adapter # "huawei"
  BY <1>1, <1>3 DEF Views
<1> QED
  BY <1>2, <1>3

LEMMA KeptInit ==
  ASSUME Init
  PROVE  Kept
<1>1. adapter \in Adapters /\ records \in Zones[adapter] /\ before = records /\ issued = Cardinality(DOMAIN records)
  BY DEF Init
<1>2. /\ IsFiniteSet(DOMAIN records) /\ DOMAIN records = 1..Cardinality(DOMAIN records)
      /\ \A id \in DOMAIN records : RecordOK(adapter, records[id])
  BY <1>1, ZonesAssumption
<1>3. issued \in Nat /\ DOMAIN records = 1..issued
  BY <1>1, <1>2, FS_CardinalityType
<1>4. ViewOK(records) /\ ViewOK(before)
  BY <1>1, <1>2, <1>3 DEF ViewOK
<1>5. /\ stage = "idle" /\ result = Nothing /\ disturbed = FALSE /\ halfDone = FALSE
      /\ attempts = 0 /\ reads = 0 /\ interferences = 0
  BY DEF Init
<1>6. result.answer = "none"
  BY <1>5 DEF Nothing
<1>7. TypeOK
  <2>1. disturbed \in BOOLEAN /\ halfDone \in BOOLEAN
    BY <1>5
  <2>2. attempts \in 0..MaxAttempts /\ reads < FinalReads /\ interferences \in 0..MaxInterferences
    BY <1>5, BoundsAssumption
  <2> QED BY <1>1, <1>2, <1>3, <1>5, <1>6, <2>1, <2>2, Zenon DEF TypeOK
<1> QED
  BY <1>3, <1>4, <1>5, <1>7 DEF Kept, RequestKept

\* The same state, seen before and after a step that leaves the adapter and the
\* IDs given out alone.
LEMMA SameState ==
  ASSUME adapter' = adapter
  PROVE  /\ \A r : RequestOK(r)' <=> RequestOK(r)
         /\ \A x : InputOK(x)' <=> InputOK(x)
         /\ \A r : PassedOn(r)' <=> PassedOn(r)
         /\ issued' = issued => \A c : CallOK(c, issued)' <=> CallOK(c, issued)
         /\ issued' = issued => \A view : ViewOK(view)' <=> ViewOK(view)
<1>1. \A x : InputOK(x)' <=> InputOK(x)
  BY DEF InputOK, EntriesOK, EntryOK
<1>2. \A r : RequestOK(r)' <=> RequestOK(r)
  BY DEF RequestOK, InputOK, EntriesOK, EntryOK
<1>5. \A r : PassedOn(r)' <=> PassedOn(r)
  BY <1>1 DEF PassedOn
<1>3. \A c, last : CallOK(c, last)' <=> CallOK(c, last)
  BY DEF CallOK
<1>4. issued' = issued => \A view : ViewOK(view)' <=> ViewOK(view)
  BY DEF ViewOK
<1> QED
  BY <1>1, <1>2, <1>3, <1>4, <1>5

\* The parts of the invariant that a step with the same records, or with the
\* last call's, leaves as they are.
LEMMA TypesKept ==
  ASSUME Kept, adapter' = adapter, issued' \in Nat, issued <= issued', ViewOK(records'), ViewOK(before'),
         stage' \in {"idle", "batched", "received", "asked", "calls", "failed", "done"},
         result'.answer \in {"none", "ok", "error"},
         disturbed' \in BOOLEAN, halfDone' \in BOOLEAN,
         attempts' \in 0..MaxAttempts, reads' \in Nat, reads' < FinalReads,
         interferences' \in 0..MaxInterferences
  PROVE  TypeOK' /\ ViewOK(before)' /\ issued' \in Nat
<1>1. issued \in Nat
  BY DEF Kept
<1>2. DOMAIN records' \subseteq 1..issued' /\ \A id \in DOMAIN records' : RecordOK(adapter, records'[id])
  BY <1>1 DEF ViewOK
<1>3. DOMAIN before' \subseteq 1..issued' /\ \A id \in DOMAIN before' : RecordOK(adapter, before'[id])
  BY <1>1 DEF ViewOK
<1>4. adapter' \in Adapters
  BY KeptView
<1> QED
  BY <1>2, <1>3, <1>4 DEF TypeOK, ViewOK

LEMMA KeptTypes ==
  ASSUME Kept
  PROVE  /\ stage \in {"idle", "batched", "received", "asked", "calls", "failed", "done"}
         /\ result.answer \in {"none", "ok", "error"}
         /\ disturbed \in BOOLEAN /\ halfDone \in BOOLEAN
         /\ attempts \in 0..MaxAttempts /\ reads \in Nat /\ reads < FinalReads
         /\ interferences \in 0..MaxInterferences /\ issued \in Nat /\ issued <= issued
BY DEF Kept, TypeOK

LEMMA KeptAsk ==
  ASSUME Kept, Ask
  PROVE  Kept'
<1>1. /\ stage = "idle" /\ Readable(records) /\ stage' = FirstStage(request')
      /\ UNCHANGED <<adapter, records, before, issued, plan, result, base, disturbed, halfDone,
                     attempts, reads, interferences>>
  BY DEF Ask
<1>2. PICK set \in Sets(records) : request' \in Requests(set)
  BY DEF Ask
<1>3. SetOK(set)
  BY <1>1, <1>2, SetsOK, KeptView
<1>4. RequestOK(request')
  BY <1>2, <1>3, RequestsOK, KeptView
<1>5. stage' \in {"batched", "received"} /\ (stage' = "received" => ~ request'.batch)
      /\ (stage' = "batched" => request'.batch)
  BY <1>1 DEF FirstStage
<1>6. (stage' = "received" /\ request'.kind # "delete") => InputOK(request'.desired)
  BY <1>4, <1>5 DEF RequestOK
<1>7. RequestKept'
  BY <1>1, <1>4, <1>5, <1>6, SameState DEF RequestKept
<1>8. attempts' < MaxAttempts
  BY <1>1, BoundsAssumption DEF Kept
<1>9. TypeOK' /\ ViewOK(before)' /\ issued' \in Nat
  BY <1>1, <1>5, TypesKept, KeptTypes, KeptView
<1> QED
  BY <1>1, <1>5, <1>7, <1>8, <1>9, KeptTypes DEF Kept

LEMMA KeptReadItem ==
  ASSUME Kept, ReadItem
  PROVE  Kept'
<1>1. /\ stage = "batched" /\ stage' = "received"
      /\ UNCHANGED <<adapter, records, before, issued, plan, result, base, disturbed, halfDone,
                     attempts, reads, interferences>>
  BY DEF ReadItem
<1>2. PICK view \in Views : Readable(view) /\ \E set \in P!Current(Sets(view), request.id) :
        request' = [request EXCEPT !.desired = [InputOf(Shown(set)) EXCEPT !.ttl = request.item.ttl],
                                   !.expected = ItemPrecondition(Shown(set))]
  BY DEF ReadItem
<1>3. PICK read \in Sets(view) :
        request' = [request EXCEPT !.desired = [InputOf(Shown(read)) EXCEPT !.ttl = request.item.ttl],
                                   !.expected = ItemPrecondition(Shown(read))]
  BY <1>2 DEF P!Current
<1>12. SetOK(read)
  BY <1>2, <1>3, SetsOK, KeptView, ViewsOK
<1> DEFINE set == Shown(read)
<1>4. SetOK(set)
  BY <1>12, ShownSet
<1> DEFINE x == [InputOf(set) EXCEPT !.ttl = request.item.ttl]
           expected == ItemPrecondition(set)
<1>5. InputOK(x)
  <2>1. InputOK(InputOf(set))
    BY <1>4, InputOfOK
  <2> DEFINE y == InputOf(set)
             ttl == request.item.ttl
  <2> HIDE DEF y, ttl
  <2>2. y = [name |-> y.name, type |-> y.type, ttl |-> y.ttl, entries |-> y.entries, ext |-> y.ext]
        /\ EntriesOK(y.type, y.entries)
    BY <2>1 DEF InputOK, y
  <2>3. [y EXCEPT !.ttl = ttl] = [name |-> y.name, type |-> y.type, ttl |-> ttl, entries |-> y.entries, ext |-> y.ext]
    BY <2>2
  <2>4. InputOK([y EXCEPT !.ttl = ttl])
    BY <2>2, <2>3 DEF InputOK
  <2> QED BY <2>4 DEF y, ttl
<1> HIDE DEF x, expected
<1>6. RequestOK(request) /\ request.batch \in BOOLEAN
  BY <1>1 DEF Kept, RequestKept, RequestOK
<1>7. /\ request = [kind |-> request.kind, id |-> request.id, expected |-> request.expected,
                    desired |-> request.desired, input |-> request.input,
                    echo |-> request.echo, batch |-> request.batch, item |-> request.item]
  BY <1>6 DEF RequestOK
<1>8. request' = [kind |-> request.kind, id |-> request.id, expected |-> expected, desired |-> x,
                  input |-> request.input, echo |-> request.echo, batch |-> request.batch, item |-> request.item]
  BY <1>3, <1>7 DEF x, expected
<1>9. request'.desired = x /\ RequestOK(request')
  <2> DEFINE r == request'
  <2>1. /\ r = [kind |-> r.kind, id |-> r.id, expected |-> r.expected, desired |-> r.desired,
                input |-> r.input, echo |-> r.echo, batch |-> r.batch, item |-> r.item]
        /\ r.kind = request.kind /\ r.id = request.id /\ r.desired = x /\ r.batch = request.batch
    BY <1>8
  <2> HIDE DEF r
  <2>2. request.kind \in {"update", "create", "delete"} /\ request.batch \in BOOLEAN
        /\ (request.batch => request.kind = "update")
    BY <1>6, Zenon DEF RequestOK
  <2>3. request.kind # "create"
    BY <1>1, <1>6 DEF Kept, RequestKept, RequestOK
  <2> QED BY <1>5, <2>1, <2>2, <2>3, Zenon DEF RequestOK, r
<1>10. RequestKept'
  BY <1>1, <1>5, <1>9, SameState DEF RequestKept
<1>11. TypeOK' /\ ViewOK(before)' /\ issued' \in Nat
  BY <1>1, TypesKept, KeptTypes, KeptView
<1> QED
  BY <1>1, <1>10, <1>11, KeptTypes DEF Kept

\* The service passes the request on.
LEMMA AdmitParts ==
  ASSUME Kept, Admit
  PROVE  /\ stage = "received" /\ stage' = "asked"
         /\ UNCHANGED <<adapter, records, before, issued, plan, result, base, disturbed, halfDone,
                        attempts, reads, interferences>>
         /\ RequestOK(request) /\ (request.kind # "delete" => InputOK(request.desired))
         /\ request.kind = "delete" => request' = request
         /\ request.kind # "delete" =>
               request' = [kind |-> request.kind, id |-> request.id, expected |-> request.expected,
                           desired |-> request.desired, input |-> P!Normalized(request.desired),
                           echo |-> request.echo, batch |-> request.batch, item |-> request.item]
<1>1. /\ stage = "received" /\ stage' = "asked"
      /\ UNCHANGED <<adapter, records, before, issued, plan, result, base, disturbed, halfDone,
                     attempts, reads, interferences>>
      /\ request' = IF request.kind = "delete" THEN request
                    ELSE [request EXCEPT !.input = P!Normalized(request.desired)]
  BY DEF Admit
<1>2. RequestOK(request) /\ (request.kind # "delete" => InputOK(request.desired))
  BY <1>1 DEF Kept, RequestKept
<1>3. request = [kind |-> request.kind, id |-> request.id, expected |-> request.expected,
                 desired |-> request.desired, input |-> request.input,
                 echo |-> request.echo, batch |-> request.batch, item |-> request.item]
  BY <1>2 DEF RequestOK
<1>4. [request EXCEPT !.input = P!Normalized(request.desired)]
      = [kind |-> request.kind, id |-> request.id, expected |-> request.expected,
         desired |-> request.desired, input |-> P!Normalized(request.desired),
         echo |-> request.echo, batch |-> request.batch, item |-> request.item]
  <2> DEFINE q == request
             x == P!Normalized(request.desired)
  <2>1. q = [kind |-> q.kind, id |-> q.id, expected |-> q.expected, desired |-> q.desired, input |-> q.input,
             echo |-> q.echo, batch |-> q.batch, item |-> q.item]
    BY <1>3
  <2> HIDE DEF q, x
  <2>2. [q EXCEPT !.input = x]
        = [kind |-> q.kind, id |-> q.id, expected |-> q.expected, desired |-> q.desired, input |-> x,
           echo |-> q.echo, batch |-> q.batch, item |-> q.item]
    BY <2>1
  <2> QED BY <2>2 DEF q, x
<1> QED
  BY <1>1, <1>2, <1>4

LEMMA KeptAdmit ==
  ASSUME Kept, Admit
  PROVE  Kept'
<1>1. /\ stage = "received" /\ stage' = "asked"
      /\ UNCHANGED <<adapter, records, before, issued, plan, result, base, disturbed, halfDone,
                     attempts, reads, interferences>>
      /\ RequestOK(request) /\ (request.kind # "delete" => InputOK(request.desired))
  BY AdmitParts
<1>2. RequestOK(request') /\ (request'.kind # "delete" => PassedOn(request'))
  <2>1. CASE request.kind = "delete"
    BY <1>1, <2>1, AdmitParts
  <2>2. CASE request.kind # "delete"
    <3> DEFINE q == request
               r == request'
               x == P!Normalized(q.desired)
    <3>1. r = [kind |-> q.kind, id |-> q.id, expected |-> q.expected, desired |-> q.desired, input |-> x,
               echo |-> q.echo, batch |-> q.batch, item |-> q.item]
      BY <2>2, AdmitParts
    <3>2. RequestOK(q) /\ InputOK(q.desired) /\ x = P!Normalized(q.desired)
      BY <1>1, <2>2
    <3> HIDE DEF q, r, x
    <3>3. /\ r = [kind |-> r.kind, id |-> r.id, expected |-> r.expected, desired |-> r.desired, input |-> r.input,
                  echo |-> r.echo, batch |-> r.batch, item |-> r.item]
          /\ r.kind = q.kind /\ r.id = q.id /\ r.desired = q.desired /\ r.input = x /\ r.batch = q.batch
      BY <3>1
    <3>4. PassedOn(r)
      BY <3>2, <3>3 DEF PassedOn
    <3>5. RequestOK(r)
      BY <3>2, <3>3 DEF RequestOK
    <3> QED BY <3>4, <3>5 DEF r
  <2> QED BY <2>1, <2>2
<1>3. RequestKept'
  BY <1>1, <1>2, SameState DEF RequestKept
<1>4. TypeOK' /\ ViewOK(before)' /\ issued' \in Nat
  BY <1>1, TypesKept, KeptTypes, KeptView
<1> QED
  BY <1>1, <1>3, <1>4, KeptTypes DEF Kept

LEMMA KeptTurnAway ==
  ASSUME Kept, stage \in {"batched", "received"}, TurnAway
  PROVE  Kept'
<1>1. /\ stage' = "done" /\ attempts' = attempts + 1 /\ result'.answer = "error"
      /\ UNCHANGED <<adapter, records, before, issued, request, base, disturbed, halfDone, reads, interferences>>
  BY DEF TurnAway
<1>2. attempts < MaxAttempts /\ RequestKept
  BY DEF Kept
<1>3. attempts' \in 0..MaxAttempts
  BY <1>1, <1>2, KeptTypes, BoundsAssumption
<1>4. RequestKept'
  BY <1>1, <1>2, SameState DEF RequestKept
<1>5. TypeOK' /\ ViewOK(before)' /\ issued' \in Nat
  BY <1>1, <1>3, TypesKept, KeptTypes, KeptView
<1> QED
  BY <1>1, <1>4, <1>5, KeptTypes DEF Kept

\* The service refuses an item, or the request.
LEMMA TurnedAway ==
  ASSUME RefuseItem \/ RefuseRequest
  PROVE  stage \in {"batched", "received"} /\ TurnAway
BY DEF RefuseItem, RefuseRequest

\* The answer to a request, given by its plan.
AnswerTo(p) == IF Allowed(p) THEN Nothing ELSE [answer |-> "error", set |-> None]

LEMMA BeginParts ==
  ASSUME Begin
  PROVE  /\ stage = "asked" /\ attempts' = attempts + 1 /\ reads' = 0
         /\ UNCHANGED <<adapter, records, before, request, base, halfDone, interferences>>
         /\ \E view \in Views :
              /\ plan' = PlanFrom(view) /\ issued' = issued + Len(plan'.goal)
              /\ Allowed(plan') => stage' = "calls"
              /\ ~ Allowed(plan') => stage' = "done"
              /\ result' = AnswerTo(plan')
              /\ disturbed' = (view \notin {records} /\ adapter # "huawei")
BY Zenon DEF Begin, Allowed, AnswerTo

LEMMA AnswerToOK ==
  ASSUME NEW p
  PROVE  AnswerTo(p).answer \in {"none", "ok", "error"}
BY DEF AnswerTo, Nothing

LEMMA KeptBegin ==
  ASSUME Kept, Begin
  PROVE  Kept'
<1>1. /\ stage = "asked" /\ attempts' = attempts + 1 /\ reads' = 0
      /\ UNCHANGED <<adapter, records, before, request, base, halfDone, interferences>>
  BY BeginParts
<1>2. PICK view \in Views :
         /\ plan' = PlanFrom(view) /\ issued' = issued + Len(plan'.goal)
         /\ Allowed(plan') => stage' = "calls"
         /\ ~ Allowed(plan') => stage' = "done"
         /\ result' = AnswerTo(plan')
         /\ disturbed' = (view \notin {records} /\ adapter # "huawei")
  BY BeginParts
<1>3. ViewOK(view) /\ issued \in Nat /\ adapter \in Adapters
  BY ViewsOK, KeptView
<1>4. RequestOK(request) /\ (request.kind # "delete" => PassedOn(request))
  BY <1>1 DEF Kept, RequestKept
<1>5. Allowed(plan') => PlanMade(plan', view)
  BY <1>2, <1>3, <1>4, PlansMade
<1>6. Allowed(plan') => PlanOK(plan')
  BY <1>5, PlansOK
<1>7. ~ Allowed(plan') => plan'.goal = <<>>
  BY <1>2, PlanFromPlain DEF Plain
<1>8. Len(plan'.goal) \in Nat
  <2>1. CASE Allowed(plan')
    BY <2>1, <1>6, SeqFacts DEF PlanOK, PlanShape
  <2>2. CASE ~ Allowed(plan')
    BY <2>2, <1>7
  <2> QED BY <2>1, <2>2
<1>9. issued' \in Nat /\ issued <= issued'
  BY <1>2, <1>3, <1>8
<1>10. ViewOK(records') /\ ViewOK(before')
  BY <1>1, KeptView
<1>11. attempts < MaxAttempts
  BY <1>1 DEF Kept
<1>12. attempts' \in 0..MaxAttempts /\ reads' \in Nat /\ reads' < FinalReads
  BY <1>1, <1>11, KeptTypes, BoundsAssumption
<1>13. disturbed' \in BOOLEAN
  BY <1>2
<1>14. stage' \in {"calls", "done"} /\ (stage' = "calls" => Allowed(plan'))
  BY <1>2
<1>15. result'.answer \in {"none", "ok", "error"}
  BY <1>2, AnswerToOK
<1>16. TypeOK' /\ ViewOK(before)' /\ issued' \in Nat
  BY <1>1, <1>9, <1>10, <1>12, <1>13, <1>14, <1>15, TypesKept, KeptTypes
<1>17. stage' = "calls" => PlanKept'
  <2>1. SUFFICES ASSUME stage' = "calls" PROVE PlanKept'
    OBVIOUS
  <2>2. PlanOK(plan')
    BY <1>6, <1>14, <2>1
  <2>3. LastID(plan'.goal) = issued'
    BY <1>2 DEF LastID
  <2>4. \A c \in Items(plan'.calls) : CallOK(c, issued')
    BY <2>2, <2>3 DEF PlanOK
  <2>5. \A c, last : CallOK(c, last)' <=> CallOK(c, last)
    BY <1>1 DEF CallOK
  <2> QED BY <2>2, <2>4, <2>5 DEF PlanKept, PlanOK
<1>18. RequestKept'
  BY <1>1, <1>4, <1>14, SameState DEF RequestKept
<1> QED
  BY <1>1, <1>12, <1>14, <1>16, <1>17, <1>18 DEF Kept

\* A step that leaves the stage alone, or brings the attempt to its end, asks
\* nothing new.
LEMMA RequestStays ==
  ASSUME Kept, adapter' = adapter, request' = request,
         stage' = stage \/ (stage \in {"calls", "failed"} /\ stage' \in {"failed", "done"})
  PROVE  RequestKept'
<1>1. RequestKept
  BY DEF Kept
<1>2. stage' \in {"received", "asked", "calls"} => stage = stage'
  OBVIOUS
<1>3. stage' = "batched" => stage = "batched"
  OBVIOUS
<1>4. stage' # "idle" => stage # "idle"
  OBVIOUS
<1> QED
  BY <1>1, <1>2, <1>3, <1>4, SameState DEF RequestKept

\* A step within an attempt, or at its end.
LEMMA StepKept ==
  ASSUME Kept, UNCHANGED <<adapter, issued, request, attempts, halfDone>>,
         stage' = stage \/ (stage \in {"calls", "failed"} /\ stage' \in {"failed", "done"}),
         ViewOK(records'), ViewOK(before'), disturbed' \in BOOLEAN, interferences' \in 0..MaxInterferences,
         reads' \in Nat, reads' < FinalReads, result'.answer \in {"none", "ok", "error"},
         stage' = "calls" => PlanKept'
  PROVE  Kept'
<1>1. RequestKept'
  BY RequestStays
<1>2. stage' \in {"idle", "batched", "received", "asked", "calls", "failed", "done"}
  BY KeptTypes
<1>3. TypeOK' /\ ViewOK(before)' /\ issued' \in Nat
  BY <1>2, TypesKept, KeptTypes
<1> QED
  BY <1>1, <1>3, KeptTypes DEF Kept

LEMMA PlanStays ==
  ASSUME Kept, stage = "calls", UNCHANGED <<adapter, issued, plan>>
  PROVE  PlanKept'
<1>1. PlanKept
  BY DEF Kept
<1>2. \A c : CallOK(c, issued)' <=> CallOK(c, issued)
  BY SameState
<1> QED
  BY <1>1, <1>2 DEF PlanKept, PlanShape

\* A plan whose first call is done.
LEMMA RestOfPlan ==
  ASSUME NEW p, PlanShape(p), p.calls # <<>>, NEW q, q = [p EXCEPT !.calls = Tail(@)]
  PROVE  /\ PlanShape(q) /\ q.calls = Tail(p.calls) /\ Items(p.calls) = {Head(p.calls)} \cup Items(q.calls)
         /\ q.goal = p.goal /\ q.key = p.key /\ q.status = p.status /\ q.gone = p.gone /\ q.refusal = p.refusal
<1>1. p = [refusal |-> p.refusal, calls |-> p.calls, goal |-> p.goal, key |-> p.key, status |-> p.status,
          gone |-> p.gone]
  BY DEF PlanShape
<1>2. q = [refusal |-> p.refusal, calls |-> Tail(p.calls), goal |-> p.goal, key |-> p.key, status |-> p.status,
          gone |-> p.gone]
  BY <1>1
<1>3. IsSeq(Tail(p.calls)) /\ Items(p.calls) = {Head(p.calls)} \cup Items(Tail(p.calls))
  BY TailIsSeq DEF PlanShape
<1> QED
  BY <1>2, <1>3 DEF PlanShape

LEMMA CalledParts ==
  ASSUME Kept, Called
  PROVE  /\ stage = "calls" /\ plan.calls # <<>> /\ PlanKept
         /\ UNCHANGED <<adapter, issued, request, result, base, disturbed, halfDone, attempts, reads, interferences>>
         /\ CallOK(Head(plan.calls), issued)
<1>1. stage = "calls" /\ plan.calls # <<>> /\ PlanKept
  BY DEF Called, Kept
<1>2. Head(plan.calls) \in Items(plan.calls)
  BY <1>1, TailIsSeq DEF PlanKept, PlanShape
<1> QED
  BY <1>1, <1>2 DEF Called, PlanKept

LEMMA KeptCallDone ==
  ASSUME Kept, CallDone
  PROVE  Kept'
<1>1. /\ stage' = stage /\ records' = P!Applied(records, Head(plan.calls)) /\ before' = records
      /\ plan' = [plan EXCEPT !.calls = Tail(@)] /\ Called
  BY DEF CallDone, Put
<1>2. /\ stage = "calls" /\ plan.calls # <<>> /\ PlanKept
      /\ UNCHANGED <<adapter, issued, request, result, base, disturbed, halfDone, attempts, reads, interferences>>
      /\ CallOK(Head(plan.calls), issued)
  BY <1>1, CalledParts
<1>3. ViewOK(records') /\ ViewOK(before')
  BY <1>1, <1>2, KeptView, AppliedOK
<1>4. PlanKept'
  <2>1. PlanShape(plan') /\ Items(plan.calls) = {Head(plan.calls)} \cup Items(plan'.calls)
    <3>1. plan' = [plan EXCEPT !.calls = Tail(@)] /\ PlanShape(plan) /\ plan.calls # <<>>
      BY <1>1, <1>2 DEF PlanKept
    <3> DEFINE p == plan
               q == plan'
    <3> HIDE DEF p, q
    <3>2. PlanShape(p) /\ p.calls # <<>> /\ q = [p EXCEPT !.calls = Tail(@)]
      BY <3>1 DEF p, q
    <3>3. PlanShape(q) /\ Items(p.calls) = {Head(p.calls)} \cup Items(q.calls)
      BY <3>2, RestOfPlan
    <3> QED BY <3>3 DEF p, q
  <2>2. \A c : CallOK(c, issued)' <=> CallOK(c, issued)
    BY <1>2, SameState
  <2> QED BY <1>2, <2>1, <2>2 DEF PlanKept, PlanShape
<1> QED
  BY <1>1, <1>2, <1>3, <1>4, StepKept, KeptTypes

LEMMA KeptCallFails ==
  ASSUME Kept, CallFails
  PROVE  Kept'
<1>1. stage' = "failed" /\ UNCHANGED <<records, before, plan>> /\ Called
  BY DEF CallFails
<1> QED
  BY <1>1, CalledParts, StepKept, KeptTypes, KeptView

LEMMA KeptReplyLost ==
  ASSUME Kept, ReplyLost
  PROVE  Kept'
<1>1. stage' = "failed" /\ records' = P!Applied(records, Head(plan.calls)) /\ before' = records /\ Called
  BY DEF ReplyLost, Put
<1>2. ViewOK(records') /\ ViewOK(before')
  BY <1>1, CalledParts, KeptView, AppliedOK
<1> QED
  BY <1>1, <1>2, CalledParts, StepKept, KeptTypes

LEMMA KeptConfirmed ==
  ASSUME Kept, Confirmed
  PROVE  Kept'
<1>1. /\ stage = "calls" /\ stage' = "done"
      /\ UNCHANGED <<adapter, records, before, issued, request, plan, disturbed, halfDone, attempts, reads,
                     interferences>>
  BY DEF Confirmed, Reading
<1>2. result'.answer = "ok"
  BY DEF Confirmed
<1> QED
  BY <1>1, <1>2, StepKept, KeptTypes, KeptView

LEMMA KeptUnconfirmed ==
  ASSUME Kept, Unconfirmed
  PROVE  Kept'
<1>1. /\ stage = "calls"
      /\ UNCHANGED <<adapter, records, before, issued, request, plan, disturbed, halfDone, attempts,
                     interferences, result>>
  BY DEF Unconfirmed, Reading
<1>2. \/ reads' = reads + 1 /\ stage' = stage /\ MayReadAgain
      \/ reads' = reads /\ stage' = "failed"
  BY DEF Unconfirmed
<1>3. reads' \in Nat /\ reads' < FinalReads
  <2>1. reads \in Nat /\ reads < FinalReads /\ FinalReads \in Nat
    BY KeptTypes, BoundsAssumption
  <2>2. MayReadAgain => reads < FinalReads - 1
    BY DEF MayReadAgain
  <2> QED BY <1>2, <2>1, <2>2
<1>4. stage' = stage \/ stage' = "failed"
  BY <1>2
<1>5. stage' = "calls" => PlanKept'
  BY <1>1, PlanStays
<1> QED
  BY <1>1, <1>3, <1>4, <1>5, StepKept, KeptTypes, KeptView

LEMMA KeptReadFails ==
  ASSUME Kept, ReadFails
  PROVE  Kept'
<1>1. /\ stage = "calls" /\ stage' = "failed"
      /\ UNCHANGED <<adapter, records, before, issued, request, plan, disturbed, halfDone, attempts, reads,
                     interferences, result>>
  BY DEF ReadFails, Reading
<1> QED
  BY <1>1, StepKept, KeptTypes, KeptView

LEMMA KeptReport ==
  ASSUME Kept, Report
  PROVE  Kept'
<1>1. /\ stage = "failed" /\ stage' = "done" /\ result'.answer = "error"
      /\ UNCHANGED <<adapter, records, before, issued, request, plan, disturbed, halfDone, attempts, reads,
                     interferences>>
  BY DEF Report
<1> QED
  BY <1>1, StepKept, KeptTypes, KeptView

LEMMA KeptRetry ==
  ASSUME Kept, Retry
  PROVE  Kept'
<1>1. /\ stage = "done" /\ attempts < MaxAttempts /\ stage' = FirstStage(request)
      /\ UNCHANGED <<adapter, records, before, issued, request, plan, result, disturbed, attempts, reads,
                     interferences>>
  BY DEF Retry
<1>2. halfDone' \in BOOLEAN
  <2>1. halfDone' = (halfDone \/ ShownSets(Served) # ShownSets(base))
    BY DEF Retry
  <2> QED BY <2>1
<1>3. RequestOK(request)
  BY <1>1 DEF Kept, RequestKept
<1>4. stage' \in {"batched", "received"} /\ (stage' = "received" => ~ request.batch) /\ (stage' = "batched" => request.batch)
  BY <1>1 DEF FirstStage
<1>5. (stage' = "received" /\ request.kind # "delete") => InputOK(request.desired)
  BY <1>3, <1>4 DEF RequestOK
<1>6. RequestKept'
  BY <1>1, <1>3, <1>4, <1>5, SameState DEF RequestKept
<1>7. TypeOK' /\ ViewOK(before)' /\ issued' \in Nat
  BY <1>1, <1>2, <1>4, TypesKept, KeptTypes, KeptView
<1> QED
  BY <1>1, <1>4, <1>6, <1>7, KeptTypes DEF Kept

LEMMA KeptSettle ==
  ASSUME Kept, Settle
  PROVE  Kept'
<1>1. /\ before' = records
      /\ UNCHANGED <<adapter, issued, request, stage, plan, result, disturbed, halfDone, attempts, reads, interferences>>
  BY SettleParts
<1>2. ViewOK(records')
  BY SettleOK, KeptView
<1> QED
  BY <1>1, <1>2, StepKept, PlanStays, KeptTypes, KeptView

LEMMA KeptInterfere ==
  ASSUME Kept, Interfere
  PROVE  Kept'
<1>1. /\ before' = records /\ disturbed' = TRUE
      /\ interferences < MaxInterferences /\ interferences' = interferences + 1
      /\ UNCHANGED <<adapter, issued, request, stage, plan, result, halfDone, attempts, reads>>
  BY InterfereParts
<1>2. ViewOK(records')
  BY InterfereOK, KeptView
<1>3. interferences' \in 0..MaxInterferences
  BY <1>1, KeptTypes, BoundsAssumption
<1>4. disturbed' \in BOOLEAN
  BY <1>1
<1> QED
  BY <1>1, <1>2, <1>3, <1>4, StepKept, PlanStays, KeptTypes, KeptView

LEMMA KeptStutter ==
  ASSUME Kept, UNCHANGED vars
  PROVE  Kept'
BY StepKept, PlanStays, KeptTypes, KeptView DEF vars

LEMMA KeptNext ==
  ASSUME Kept, [Next]_vars
  PROVE  Kept'
BY Zenon, KeptAsk, KeptReadItem, KeptAdmit, TurnedAway, KeptTurnAway, KeptBegin, KeptCallDone, KeptCallFails, KeptReplyLost, KeptConfirmed,
   KeptUnconfirmed, KeptReadFails, KeptReport, KeptRetry, KeptSettle, KeptInterfere, KeptStutter DEF Next

\* The inductive invariant holds in every state that is reached.
THEOREM AlwaysKept == Spec => []Kept
<1>1. Init => Kept
  BY KeptInit
<1>2. Kept /\ [Next]_vars => Kept'
  BY KeptNext
<1> QED
  BY <1>1, <1>2, PTL DEF Spec

\* The provider's records stay records of that provider, with IDs it has given
\* out, whatever calls an adapter plans and whoever else writes; and no attempt
\* or final read is made beyond its bound.
THEOREM Typed == Spec => []TypeOK
<1>1. Kept => TypeOK
  BY DEF Kept
<1> QED
  BY <1>1, AlwaysKept, PTL

---------------------------------------------------------------------------
(* What the zone serves, and what each call does to it. *)

LEMMA HuaweiServes ==
  ASSUME adapter = "huawei", NEW r
  PROVE  Serves(r) = [key |-> [name |-> r.name, type |-> r.type, ttl |-> r.ttl, line |-> r.line],
                      values |-> Words(r.values)]
BY DEF Serves

\* Records with the same fields serve the same.
LEMMA SameServing ==
  ASSUME adapter \in Adapters, adapter # "huawei", NEW r, NEW s, \A f \in Serving : r[f] = s[f]
  PROVE  Serves(r) = Serves(s)
<1>1. CASE adapter = "aliyun"
  <2>1. r.name = s.name /\ r.type = s.type /\ r.ttl = s.ttl /\ r.line = s.line /\ r.text = s.text /\ r.num = s.num
    BY <1>1 DEF Serving
  <2>2. Aliyun!LineOf(r) = Aliyun!LineOf(s)
    BY <2>1, Zenon DEF Aliyun!LineOf
  <2> QED BY <1>1, <2>1, <2>2, AliyunServes DEF Target
<1>2. CASE adapter = "tencent"
  <2>1. r.name = s.name /\ r.type = s.type /\ r.ttl = s.ttl /\ r.line = s.line /\ r.text = s.text /\ r.num = s.num
    BY <1>2 DEF Serving
  <2> QED BY <1>2, <2>1, TencentServes DEF Target
<1>3. CASE adapter = "cloudflare"
  <2>1. /\ r.name = s.name /\ r.type = s.type /\ r.ttl = s.ttl /\ r.text = s.text /\ r.num = s.num
        /\ r.proxied = s.proxied /\ r.comment = s.comment /\ r.tags = s.tags
    BY <1>3 DEF Serving
  <2> QED BY <1>3, <2>1, CloudflareServes DEF Target
<1> QED
  BY <1>1, <1>2, <1>3, AdaptersAssumption

\* The zone, of any view of its records.
ServingIn(view) == IF adapter = "huawei" THEN {i \in DOMAIN view : view[i].phase # "PENDING_DELETE"} ELSE DOMAIN view
ZoneOf(view) == [id \in ServingIn(view) |-> Serves(view[id])]
Zone == [id \in DOMAIN Served |-> Serves(Served[id])]

LEMMA ServedParts ==
  /\ adapter # "huawei" => Served = records
  /\ adapter = "huawei" => Served = [id \in {i \in DOMAIN records : records[i].phase # "PENDING_DELETE"} |-> Rested(records[id])]
BY Zenon DEF Served, Rested, NoStatus

LEMMA ZoneIs == Zone = ZoneOf(records)
<1>1. CASE adapter = "huawei"
  <2>1. \A r : Serves(Rested(r)) = Serves(r)
    <3> SUFFICES ASSUME NEW r PROVE Serves(Rested(r)) = Serves(r)
      OBVIOUS
    <3> DEFINE s == Rested(r)
    <3>1. s.name = r.name /\ s.type = r.type /\ s.ttl = r.ttl /\ s.line = r.line /\ s.values = r.values
      BY DEF Rested
    <3> HIDE DEF s
    <3>2. Serves(s) = Serves(r)
      BY <1>1, <3>1, HuaweiServes
    <3> QED BY <3>2 DEF s
  <2>2. Served = [id \in {i \in DOMAIN records : records[i].phase # "PENDING_DELETE"} |-> Rested(records[id])]
    BY <1>1, ServedParts
  <2> QED BY <1>1, <2>1, <2>2 DEF Zone, ZoneOf, ServingIn
<1>2. CASE adapter # "huawei"
  BY <1>2, ServedParts DEF Zone, ZoneOf, ServingIn
<1> QED
  BY <1>1, <1>2

\* A call leaves the zone as it is, writes what the record id serves, or takes
\* a record away.
Stays(c) ==
  IF adapter = "huawei"
  THEN c.op = "set" /\ DOMAIN c.with = {"enabled", "phase"} /\ c.with.phase # "PENDING_DELETE"
  ELSE Quiet(c)
Puts(c, id, v) ==
  /\ c.op \in {"add", "set"} /\ c.id = id
  /\ IF adapter = "huawei"
     THEN /\ {"name", "type", "ttl", "values", "phase"} \subseteq DOMAIN c.with /\ c.with.phase # "PENDING_DELETE"
          /\ v = [key |-> [name |-> c.with.name, type |-> c.with.type, ttl |-> c.with.ttl, line |-> v.key.line],
                  values |-> Words(c.with.values)]
          /\ c.op = "add" => c.with.line = v.key.line
     ELSE Serving \subseteq DOMAIN c.with /\ Serves(c.with) = v
Drops(c) ==
  IF adapter = "huawei"
  THEN c.op = "set" /\ DOMAIN c.with = {"phase"} /\ c.with.phase = "PENDING_DELETE"
  ELSE c.op = "delete"

\* The zone with one record written.
With(z, id, v) == [i \in DOMAIN z \cup {id} |-> IF i = id THEN v ELSE z[i]]

LEMMA AppliedParts ==
  ASSUME NEW zone, NEW c
  PROVE  /\ c.op = "add" => P!Applied(zone, c) = With(zone, c.id, c.with)
         /\ c.op = "set" => P!Applied(zone, c) = [id \in DOMAIN zone |-> IF id = c.id THEN P!Overlay(c.with, zone[id]) ELSE zone[id]]
         /\ c.op = "delete" => P!Applied(zone, c) = Without(zone, c.id)
         /\ c.op = "balance" => P!Applied(zone, c) =
              [id \in DOMAIN zone |->
                 IF \A f \in {"name", "type", "line"} : zone[id][f] = c.with[f]
                 THEN P!Overlay(c.with, zone[id]) ELSE zone[id]]
BY DEF P!Applied, With, Without

LEMMA SingleZone ==
  ASSUME adapter # "huawei", NEW view
  PROVE  DOMAIN ZoneOf(view) = DOMAIN view /\ \A id \in DOMAIN view : ZoneOf(view)[id] = Serves(view[id])
BY DEF ZoneOf, ServingIn

LEMMA HuaweiZone ==
  ASSUME adapter = "huawei", NEW view
  PROVE  /\ \A id : id \in DOMAIN ZoneOf(view) <=> id \in DOMAIN view /\ view[id].phase # "PENDING_DELETE"
         /\ \A id \in DOMAIN ZoneOf(view) : ZoneOf(view)[id] = Serves(view[id])
BY DEF ZoneOf, ServingIn

LEMMA SingleFieldsServing ==
  ASSUME adapter \in Adapters, adapter # "huawei"
  PROVE  Serving \subseteq RecordFields[adapter]
<1>1. CASE adapter = "aliyun"
  BY <1>1 DEF Serving, RecordFields
<1>2. CASE adapter = "tencent"
  BY <1>2 DEF Serving, RecordFields
<1>3. CASE adapter = "cloudflare"
  BY <1>3 DEF Serving, RecordFields
<1> QED
  BY <1>1, <1>2, <1>3, AdaptersAssumption

\* Calls on single records.
LEMMA SingleStays ==
  ASSUME adapter \in Adapters, adapter # "huawei", NEW view, ViewOK(view), NEW c, Quiet(c), CallOK(c, issued),
         NEW new, new = P!Applied(view, c)
  PROVE  ZoneOf(new) = ZoneOf(view)
<1>1. DOMAIN new = DOMAIN view /\ \A id \in DOMAIN view : Serves(new[id]) = Serves(view[id])
  <2>1. CASE c.op = "set"
    <3>1. new = [id \in DOMAIN view |-> IF id = c.id THEN P!Overlay(c.with, view[id]) ELSE view[id]]
      BY <2>1, AppliedParts
    <3>2. ASSUME NEW id \in DOMAIN view PROVE Serves(P!Overlay(c.with, view[id])) = Serves(view[id])
      <4> DEFINE r == view[id]
                 s == P!Overlay(c.with, r)
      <4>1. Serving \subseteq DOMAIN r
        BY SingleFieldsServing DEF ViewOK, RecordOK
      <4>2. \A f \in DOMAIN r : s[f] = IF f \in DOMAIN c.with THEN c.with[f] ELSE r[f]
        BY OverlayFields
      <4>3. \A f \in Serving : f \notin DOMAIN c.with
        BY <2>1 DEF Quiet
      <4> HIDE DEF r, s
      <4>4. \A f \in Serving : s[f] = r[f]
        BY <4>1, <4>2, <4>3
      <4>5. Serves(s) = Serves(r)
        BY <4>4, SameServing
      <4> QED BY <4>5 DEF s, r
    <3> QED BY <3>1, <3>2
  <2>2. CASE c.op = "balance"
    <3>1. new = [id \in DOMAIN view |->
                 IF \A f \in {"name", "type", "line"} : view[id][f] = c.with[f]
                 THEN P!Overlay(c.with, view[id]) ELSE view[id]]
      BY <2>2, AppliedParts
    <3>2. adapter = "aliyun" /\ DOMAIN c.with = {"name", "type", "line", "weighted"}
      BY <2>2 DEF CallOK
    <3>3. ASSUME NEW id \in DOMAIN view PROVE Serves(new[id]) = Serves(view[id])
      <4> DEFINE r == view[id]
                 w == c.with
                 s == P!Overlay(w, r)
                 named == \A f \in {"name", "type", "line"} : r[f] = w[f]
      <4>1. Serving \subseteq DOMAIN r
        BY SingleFieldsServing DEF ViewOK, RecordOK
      <4>2. \A f \in DOMAIN r : s[f] = IF f \in DOMAIN w THEN w[f] ELSE r[f]
        BY OverlayFields
      <4>3. new[id] = IF named THEN s ELSE r
        BY <3>1
      <4>4. named => \A f \in {"name", "type", "line"} : r[f] = w[f]
        OBVIOUS
      <4>5. "weighted" \notin Serving
        BY <3>2 DEF Serving
      <4>6. DOMAIN w = {"name", "type", "line", "weighted"}
        BY <3>2
      <4> HIDE DEF r, s, w, named
      <4>7. named => \A f \in Serving : s[f] = r[f]
        BY <4>1, <4>2, <4>4, <4>5, <4>6
      <4>8. named => Serves(s) = Serves(r)
        BY <4>7, SameServing
      <4>9. Serves(new[id]) = Serves(r)
        BY <4>3, <4>8
      <4> QED BY <4>9 DEF r
    <3> QED BY <3>1, <3>3
  <2> QED BY <2>1, <2>2 DEF Quiet
<1> QED
  BY <1>1 DEF ZoneOf, ServingIn

LEMMA SinglePuts ==
  ASSUME adapter \in Adapters, adapter # "huawei", NEW view, ViewOK(view), NEW c, NEW v, Puts(c, c.id, v),
         c.op = "set" => c.id \in DOMAIN view,
         NEW new, new = P!Applied(view, c)
  PROVE  ZoneOf(new) = With(ZoneOf(view), c.id, v)
<1>1. c.op \in {"add", "set"} /\ Serving \subseteq DOMAIN c.with /\ Serves(c.with) = v
  BY DEF Puts
<1>2. DOMAIN new = DOMAIN view \cup {c.id} /\ Serves(new[c.id]) = v /\ \A id \in DOMAIN view : id # c.id => new[id] = view[id]
  <2>1. CASE c.op = "add"
    <3>1. new = With(view, c.id, c.with)
      BY <2>1, AppliedParts
    <3> DEFINE w == c.with
    <3>2. Serves(w) = v
      BY <1>1
    <3> HIDE DEF w
    <3>3. new = With(view, c.id, w)
      BY <3>1 DEF w
    <3>4. DOMAIN new = DOMAIN view \cup {c.id} /\ new[c.id] = w /\ \A id \in DOMAIN view : id # c.id => new[id] = view[id]
      BY <3>3 DEF With
    <3> QED BY <3>2, <3>4
  <2>2. CASE c.op = "set"
    <3>1. new = [id \in DOMAIN view |-> IF id = c.id THEN P!Overlay(c.with, view[id]) ELSE view[id]] /\ c.id \in DOMAIN view
      BY <2>2, AppliedParts
    <3> DEFINE r == view[c.id]
               w == c.with
               s == P!Overlay(w, r)
    <3>2. Serving \subseteq DOMAIN r
      BY <3>1, SingleFieldsServing DEF ViewOK, RecordOK
    <3>3. \A f \in DOMAIN r : s[f] = IF f \in DOMAIN w THEN w[f] ELSE r[f]
      BY OverlayFields
    <3>4. Serving \subseteq DOMAIN w /\ Serves(w) = v
      BY <1>1
    <3>5. new[c.id] = s /\ DOMAIN new = DOMAIN view \cup {c.id} /\ \A id \in DOMAIN view : id # c.id => new[id] = view[id]
      BY <3>1
    <3> HIDE DEF r, s, w
    <3>6. \A f \in Serving : s[f] = w[f]
      BY <3>2, <3>3, <3>4
    <3>7. Serves(s) = Serves(w)
      BY <3>6, SameServing
    <3> QED BY <3>4, <3>5, <3>7
  <2> QED BY <1>1, <2>1, <2>2
<1> QED
  BY <1>2 DEF ZoneOf, ServingIn, With

LEMMA SingleDrops ==
  ASSUME adapter # "huawei", NEW view, NEW c, Drops(c), NEW new, new = P!Applied(view, c)
  PROVE  ZoneOf(new) = Without(ZoneOf(view), c.id)
<1>1. new = Without(view, c.id)
  BY AppliedParts DEF Drops
<1> QED
  BY <1>1 DEF ZoneOf, ServingIn, Without

\* Calls on the record sets of Huawei Cloud.
LEMMA HuaweiSet ==
  ASSUME adapter = "huawei", NEW view, ViewOK(view), NEW c, c.op = "set", NEW new, new = P!Applied(view, c)
  PROVE  /\ DOMAIN new = DOMAIN view /\ \A id \in DOMAIN view : id # c.id => new[id] = view[id]
         /\ c.id \in DOMAIN view => \A f \in RecordFields[adapter] :
              new[c.id][f] = IF f \in DOMAIN c.with THEN c.with[f] ELSE view[c.id][f]
         /\ {"name", "type", "ttl", "line", "values", "phase"} \subseteq RecordFields[adapter]
<1>1. new = [id \in DOMAIN view |-> IF id = c.id THEN P!Overlay(c.with, view[id]) ELSE view[id]]
  BY AppliedParts
<1>2. ASSUME c.id \in DOMAIN view
      PROVE  \A f \in RecordFields[adapter] : new[c.id][f] = IF f \in DOMAIN c.with THEN c.with[f] ELSE view[c.id][f]
  <2>1. DOMAIN view[c.id] = RecordFields[adapter] /\ new[c.id] = P!Overlay(c.with, view[c.id])
    BY <1>1, <1>2 DEF ViewOK, RecordOK
  <2> QED BY <2>1, OverlayFields
<1>3. {"name", "type", "ttl", "line", "values", "phase"} \subseteq RecordFields[adapter]
  BY DEF RecordFields
<1> QED
  BY <1>1, <1>2, <1>3

LEMMA HuaweiStays ==
  ASSUME adapter = "huawei", NEW view, ViewOK(view), NEW c, Stays(c), c.id \in DOMAIN ZoneOf(view),
         NEW new, new = P!Applied(view, c)
  PROVE  ZoneOf(new) = ZoneOf(view)
<1>1. c.op = "set" /\ DOMAIN c.with = {"enabled", "phase"} /\ c.with.phase # "PENDING_DELETE"
  BY DEF Stays
<1>2. c.id \in DOMAIN view /\ view[c.id].phase # "PENDING_DELETE"
  BY HuaweiZone
<1> DEFINE r == view[c.id]
           s == new[c.id]
<1>3. /\ s.name = r.name /\ s.type = r.type /\ s.ttl = r.ttl /\ s.line = r.line /\ s.values = r.values
      /\ s.phase # "PENDING_DELETE"
      /\ DOMAIN new = DOMAIN view /\ \A id \in DOMAIN view : id # c.id => new[id] = view[id]
  BY <1>1, <1>2, HuaweiSet
<1> HIDE DEF r, s
<1>4. Serves(s) = Serves(r)
  BY <1>3, HuaweiServes
<1> QED
  BY <1>2, <1>3, <1>4 DEF ZoneOf, ServingIn, r, s

LEMMA HuaweiPuts ==
  ASSUME adapter = "huawei", NEW view, ViewOK(view), NEW c, CallOK(c, issued), NEW v, Puts(c, c.id, v),
         c.op = "set" => c.id \in DOMAIN ZoneOf(view) /\ ZoneOf(view)[c.id].key.line = v.key.line,
         NEW new, new = P!Applied(view, c)
  PROVE  ZoneOf(new) = With(ZoneOf(view), c.id, v)
<1> DEFINE w == c.with
           s == new[c.id]
<1>1. /\ c.op \in {"add", "set"}
      /\ {"name", "type", "ttl", "values", "phase"} \subseteq DOMAIN w /\ w.phase # "PENDING_DELETE"
      /\ v = [key |-> [name |-> w.name, type |-> w.type, ttl |-> w.ttl, line |-> v.key.line], values |-> Words(w.values)]
      /\ c.op = "add" => w.line = v.key.line
  BY DEF Puts
<1>2. /\ DOMAIN new = DOMAIN view \cup {c.id} /\ \A id \in DOMAIN view : id # c.id => new[id] = view[id]
      /\ s.name = w.name /\ s.type = w.type /\ s.ttl = w.ttl /\ s.values = w.values /\ s.line = v.key.line
      /\ s.phase # "PENDING_DELETE"
  <2>1. CASE c.op = "add"
    <3>1. new = With(view, c.id, w)
      BY <2>1, AppliedParts
    <3> HIDE DEF w
    <3> QED BY <1>1, <2>1, <3>1 DEF With
  <2>2. CASE c.op = "set"
    <3>1. c.id \in DOMAIN view /\ ZoneOf(view)[c.id] = Serves(view[c.id])
      BY <2>2, HuaweiZone
    <3>2. view[c.id].line = v.key.line
      <4> DEFINE r == view[c.id]
      <4>1. Serves(r) = [key |-> [name |-> r.name, type |-> r.type, ttl |-> r.ttl, line |-> r.line],
                         values |-> Words(r.values)]
        BY HuaweiServes
      <4>2. Serves(r).key.line = r.line
        BY <4>1
      <4>3. Serves(r).key.line = v.key.line
        BY <2>2, <3>1
      <4> HIDE DEF r
      <4>4. r.line = v.key.line
        BY <4>2, <4>3
      <4> QED BY <4>4 DEF r
    <3>3. /\ DOMAIN new = DOMAIN view /\ \A id \in DOMAIN view : id # c.id => new[id] = view[id]
          /\ \A f \in RecordFields[adapter] : s[f] = IF f \in DOMAIN w THEN w[f] ELSE view[c.id][f]
          /\ {"name", "type", "ttl", "line", "values", "phase"} \subseteq RecordFields[adapter]
      BY <2>2, <3>1, HuaweiSet
    <3>4. "line" \notin DOMAIN w
      BY <2>2 DEF CallOK
    <3> HIDE DEF w, s
    <3> QED BY <1>1, <3>1, <3>2, <3>3, <3>4
  <2> QED BY <1>1, <2>1, <2>2
<1> HIDE DEF w, s
<1>3. Serves(s) = v
  BY <1>1, <1>2, HuaweiServes
<1> QED
  BY <1>2, <1>3 DEF ZoneOf, ServingIn, With, s

LEMMA HuaweiDrops ==
  ASSUME adapter = "huawei", NEW view, ViewOK(view), NEW c, Drops(c), NEW new, new = P!Applied(view, c)
  PROVE  ZoneOf(new) = Without(ZoneOf(view), c.id)
<1>1. c.op = "set" /\ DOMAIN c.with = {"phase"} /\ c.with.phase = "PENDING_DELETE"
  BY DEF Drops
<1>2. DOMAIN new = DOMAIN view /\ \A id \in DOMAIN view : id # c.id => new[id] = view[id]
  BY <1>1, HuaweiSet
<1>3. c.id \in DOMAIN view => new[c.id].phase = "PENDING_DELETE"
  BY <1>1, HuaweiSet
<1> QED
  BY <1>2, <1>3 DEF ZoneOf, ServingIn, Without

\* Huawei Cloud never changes the line of a set: a call on it finds it served on
\* the line that is wanted.
CanDo(c, z, goal) ==
  (adapter = "huawei" /\ c.op = "set" /\ ~ Drops(c)) =>
    c.id \in DOMAIN z /\ c.id \in DOMAIN goal /\ z[c.id].key.line = goal[c.id].key.line

LEMMA CallEffects ==
  ASSUME adapter \in Adapters, NEW view, ViewOK(view), NEW c, CallOK(c, issued), NEW goal,
         NEW z, z = ZoneOf(view), CanDo(c, z, goal),
         c.op = "set" => c.id \in DOMAIN view,
         NEW new, new = P!Applied(view, c)
  PROVE  /\ Stays(c) => ZoneOf(new) = z
         /\ \A id \in DOMAIN goal : Puts(c, id, goal[id]) => ZoneOf(new) = With(z, id, goal[id])
         /\ Drops(c) => ZoneOf(new) = Without(z, c.id)
<1>1. CASE adapter = "huawei"
  <2>1. ASSUME Stays(c) PROVE ZoneOf(new) = z
    <3>1. c.op = "set" /\ ~ Drops(c)
      BY <1>1, <2>1 DEF Stays, Drops
    <3> QED BY <1>1, <2>1, <3>1, HuaweiStays DEF CanDo
  <2>2. ASSUME NEW id \in DOMAIN goal, Puts(c, id, goal[id]) PROVE ZoneOf(new) = With(z, id, goal[id])
    <3>1. c.id = id /\ ~ Drops(c) /\ Puts(c, c.id, goal[id])
      BY <1>1, <2>2 DEF Puts, Drops
    <3> DEFINE v == goal[id]
    <3>2. c.op = "set" => c.id \in DOMAIN ZoneOf(view) /\ ZoneOf(view)[c.id].key.line = v.key.line
      BY <1>1, <3>1 DEF CanDo
    <3> HIDE DEF v
    <3>3. Puts(c, c.id, v)
      BY <3>1 DEF v
    <3>4. ZoneOf(new) = With(ZoneOf(view), c.id, v)
      BY <1>1, <3>2, <3>3, HuaweiPuts
    <3> QED BY <3>1, <3>4 DEF v
  <2>3. Drops(c) => ZoneOf(new) = Without(z, c.id)
    BY <1>1, HuaweiDrops
  <2> QED BY <2>1, <2>2, <2>3
<1>2. CASE adapter # "huawei"
  <2>1. Stays(c) => ZoneOf(new) = z
    BY <1>2, SingleStays DEF Stays
  <2>2. ASSUME NEW id \in DOMAIN goal, Puts(c, id, goal[id]) PROVE ZoneOf(new) = With(z, id, goal[id])
    <3> DEFINE v == goal[id]
    <3>1. c.id = id
      BY <2>2 DEF Puts
    <3>2. Puts(c, c.id, v)
      BY <2>2, <3>1
    <3> HIDE DEF v
    <3>3. ZoneOf(new) = With(ZoneOf(view), c.id, v)
      BY <1>2, <3>2, SinglePuts
    <3> QED BY <3>1, <3>3 DEF v
  <2>3. Drops(c) => ZoneOf(new) = Without(z, c.id)
    BY <1>2, SingleDrops
  <2> QED BY <2>1, <2>2, <2>3
<1> QED
  BY <1>1, <1>2

\* The calls that are left of a change, of the set old into what goal shows: w
\* writes what the zone z lacks of it, and then d takes away what is no longer
\* wanted.
Left(calls, z, goal, old, w, d) ==
  /\ Joins(calls, w, d) /\ IsSeq(w) /\ IsSeq(d)
  /\ \A c \in Items(w) : CanDo(c, z, goal) /\ (Stays(c) \/ \E id \in DOMAIN goal : Puts(c, id, goal[id]))
  /\ \A c \in Items(d) : Drops(c) /\ c.id \in old /\ c.id \notin DOMAIN goal
  /\ \A id \in DOMAIN goal : (id \in DOMAIN z /\ z[id] = goal[id]) \/ \E c \in Items(w) : Puts(c, id, goal[id])
  /\ \A id \in old : id \notin DOMAIN goal => id \notin DOMAIN z \/ \E c \in Items(d) : c.id = id

\* All is in place, and the rest is gone.
InPlace(z, goal) == \A id \in DOMAIN goal : id \in DOMAIN z /\ z[id] = goal[id]
Gone(z, goal, old) == \A id \in old : id \notin DOMAIN goal => id \notin DOMAIN z

LEMMA HeadAndTail ==
  ASSUME NEW calls, NEW w, NEW d, Joins(calls, w, d), IsSeq(w), IsSeq(d), calls # <<>>
  PROVE  /\ w # <<>> => Head(calls) = Head(w) /\ Joins(Tail(calls), Tail(w), d)
         /\ w = <<>> => d # <<>> /\ Head(calls) = Head(d) /\ Joins(Tail(calls), w, Tail(d))
<1>1. calls = w \o d
  BY DEF Joins
<1>2. CASE w = <<>>
  <2>1. calls = d
    BY <1>1, <1>2, ConcatEmpty
  <2>2. IsSeq(Tail(d))
    BY <2>1, TailIsSeq
  <2>3. Joins(Tail(d), <<>>, Tail(d))
    BY <2>2, ConcatEmpty DEF Joins
  <2> QED BY <1>2, <2>1, <2>3
<1>3. CASE w # <<>>
  <2> DEFINE S == Items(w) \cup Items(d)
  <2>1. w \in Seq(S) /\ d \in Seq(S)
    <3>1. w \in Seq(Items(w)) /\ d \in Seq(Items(d)) /\ Items(w) \subseteq S /\ Items(d) \subseteq S
      BY DEF IsSeq
    <3> HIDE DEF S
    <3> QED BY <3>1
  <2> HIDE DEF S
  <2>2. Head(w \o d) = Head(w) /\ Tail(w \o d) = Tail(w) \o d
    BY <1>3, <2>1
  <2> QED BY <1>1, <1>3, <2>2 DEF Joins
<1> QED
  BY <1>2, <1>3

LEMMA NoneLeft ==
  ASSUME NEW z, NEW goal, NEW old, NEW w, NEW d, Left(<<>>, z, goal, old, w, d)
  PROVE  InPlace(z, goal) /\ Gone(z, goal, old)
<1>1. w = <<>> /\ d = <<>>
  <2>1. Items(<<>>) = Items(w) \cup Items(d) /\ IsSeq(w) /\ IsSeq(d)
    <3>1. <<>> = w \o d /\ IsSeq(w) /\ IsSeq(d)
      BY DEF Left, Joins
    <3> QED BY <3>1, ConcatIsSeq
  <2>2. Items(w) = {} /\ Items(d) = {}
    BY <2>1, EmptyIsSeq
  <2>3. \A s : IsSeq(s) /\ Items(s) = {} => s = <<>>
    BY SeqFacts DEF Items
  <2> QED BY <2>1, <2>2, <2>3
<1> QED
  BY <1>1, EmptyIsSeq DEF Left, InPlace, Gone

LEMMA StaysOrPuts ==
  ASSUME NEW c, Stays(c), NEW id, NEW v
  PROVE  ~ Puts(c, id, v)
<1>1. "name" \in Serving
  BY DEF Serving
<1>2. CASE adapter = "huawei"
  <2>1. "name" \notin DOMAIN c.with
    BY <1>2 DEF Stays
  <2> QED BY <1>2, <2>1 DEF Puts
<1>3. CASE adapter # "huawei"
  <2>1. c.op = "balance" \/ "name" \notin DOMAIN c.with
    BY <1>1, <1>3 DEF Stays, Quiet
  <2> QED BY <1>1, <1>3, <2>1 DEF Puts
<1> QED
  BY <1>2, <1>3

\* The first call of those that are left.
LEMMA FirstLeft ==
  ASSUME NEW calls, calls # <<>>, NEW z, NEW goal, NEW old, NEW w, NEW d, Left(calls, z, goal, old, w, d),
         NEW c, c = Head(calls), NEW rest, rest = Tail(calls)
  PROVE  \/ /\ CanDo(c, z, goal) /\ Stays(c)
            /\ Left(rest, z, goal, old, Tail(w), d)
         \/ \E id \in DOMAIN goal :
              /\ CanDo(c, z, goal) /\ Puts(c, id, goal[id])
              /\ Left(rest, With(z, id, goal[id]), goal, old, Tail(w), d)
         \/ /\ Drops(c) /\ c.id \in old /\ c.id \notin DOMAIN goal /\ InPlace(z, goal)
            /\ CanDo(c, z, goal)
            /\ Left(rest, Without(z, c.id), goal, old, w, Tail(d))
<1>1. /\ Joins(calls, w, d) /\ IsSeq(w) /\ IsSeq(d)
      /\ \A e \in Items(w) : CanDo(e, z, goal) /\ (Stays(e) \/ \E id \in DOMAIN goal : Puts(e, id, goal[id]))
      /\ \A e \in Items(d) : Drops(e) /\ e.id \in old /\ e.id \notin DOMAIN goal
      /\ \A id \in DOMAIN goal : (id \in DOMAIN z /\ z[id] = goal[id]) \/ \E e \in Items(w) : Puts(e, id, goal[id])
      /\ \A id \in old : id \notin DOMAIN goal => id \notin DOMAIN z \/ \E e \in Items(d) : e.id = id
  BY DEF Left
<1>2. CASE w # <<>>
  <2>1. c = Head(w) /\ Joins(rest, Tail(w), d)
    BY <1>1, <1>2, HeadAndTail
  <2>2. IsSeq(Tail(w)) /\ Items(w) = {c} \cup Items(Tail(w))
    BY <1>1, <1>2, <2>1, TailIsSeq
  <2> DEFINE u == Tail(w)
  <2> HIDE DEF u
  <2>3. CASE Stays(c)
    <3>1. \A id \in DOMAIN goal : ~ Puts(c, id, goal[id])
      BY <2>3, StaysOrPuts
    <3>2. Left(rest, z, goal, old, u, d)
      BY <1>1, <2>1, <2>2, <3>1 DEF Left, u
    <3> QED BY <1>1, <2>2, <2>3, <3>2 DEF u
  <2>4. CASE ~ Stays(c)
    <3>1. PICK id \in DOMAIN goal : Puts(c, id, goal[id])
      BY <1>1, <2>2, <2>4
    <3> DEFINE v == goal[id]
               z2 == With(z, id, v)
    <3>2. /\ DOMAIN z2 = DOMAIN z \cup {id} /\ z2[id] = goal[id]
          /\ \A i \in DOMAIN z : i # id => z2[i] = z[i]
      BY DEF With
    <3>3. c.id = id
      BY <3>1 DEF Puts
    <3> HIDE DEF z2, v
    <3>4. \A e \in Items(u) : CanDo(e, z2, goal)
      <4> SUFFICES ASSUME NEW e \in Items(u) PROVE CanDo(e, z2, goal)
        OBVIOUS
      <4>1. CanDo(e, z, goal)
        BY <1>1, <2>2 DEF u
      <4> QED BY <3>2, <4>1 DEF CanDo
    <3>5. \A i \in DOMAIN goal : (i \in DOMAIN z2 /\ z2[i] = goal[i]) \/ \E e \in Items(u) : Puts(e, i, goal[i])
      <4> SUFFICES ASSUME NEW i \in DOMAIN goal, i # id
                   PROVE  (i \in DOMAIN z2 /\ z2[i] = goal[i]) \/ \E e \in Items(u) : Puts(e, i, goal[i])
        BY <3>2
      <4>1. ~ Puts(c, i, goal[i])
        BY <3>3 DEF Puts
      <4>2. (i \in DOMAIN z /\ z[i] = goal[i]) \/ \E e \in Items(u) : Puts(e, i, goal[i])
        BY <1>1, <2>2, <4>1 DEF u
      <4> QED BY <3>2, <4>2
    <3>6. \A i \in old : i \notin DOMAIN goal => i \notin DOMAIN z2 \/ \E e \in Items(d) : e.id = i
      BY <1>1, <3>2
    <3>7. \A e \in Items(u) : Stays(e) \/ \E i \in DOMAIN goal : Puts(e, i, goal[i])
      BY <1>1, <2>2 DEF u
    <3>8. IsSeq(u) /\ Joins(rest, u, d)
      BY <2>1, <2>2 DEF u
    <3>9. Left(rest, z2, goal, old, u, d)
      BY <1>1, <3>4, <3>5, <3>6, <3>7, <3>8 DEF Left
    <3> QED BY <1>1, <2>2, <3>1, <3>9 DEF u, z2, v
  <2> QED BY <2>3, <2>4
<1>3. CASE w = <<>>
  <2>1. d # <<>> /\ c = Head(d) /\ Joins(rest, w, Tail(d))
    BY <1>1, <1>3, HeadAndTail
  <2>2. IsSeq(Tail(d)) /\ Items(d) = {c} \cup Items(Tail(d)) /\ Items(w) = {}
    BY <1>1, <1>3, <2>1, TailIsSeq, EmptyIsSeq
  <2> DEFINE u == Tail(d)
             i == c.id
             z2 == Without(z, i)
  <2>3. DOMAIN z2 = DOMAIN z \ {i} /\ \A j \in DOMAIN z : j # i => z2[j] = z[j]
    BY DEF Without
  <2>4. Drops(c) /\ i \in old /\ i \notin DOMAIN goal
    BY <1>1, <2>2
  <2> HIDE DEF u, z2, i
  <2>5. InPlace(z, goal)
    BY <1>1, <2>2 DEF InPlace
  <2>6. \A j \in DOMAIN goal : j \in DOMAIN z2 /\ z2[j] = goal[j]
    BY <2>3, <2>4, <2>5 DEF InPlace
  <2>7. \A j \in old : j \notin DOMAIN goal => j \notin DOMAIN z2 \/ \E e \in Items(u) : e.id = j
    <3> SUFFICES ASSUME NEW j \in old, j \notin DOMAIN goal, j # i
                 PROVE  j \notin DOMAIN z2 \/ \E e \in Items(u) : e.id = j
      BY <2>3
    <3>1. j \notin DOMAIN z \/ \E e \in Items(u) : e.id = j
      BY <1>1, <2>2 DEF u, i
    <3> QED BY <2>3, <3>1
  <2>8. IsSeq(u) /\ Joins(rest, w, u) /\ \A e \in Items(u) : e \in Items(d)
    BY <2>1, <2>2 DEF u
  <2>9. Left(rest, z2, goal, old, w, u)
    BY <1>1, <2>2, <2>6, <2>7, <2>8 DEF Left
  <2>10. CanDo(c, z, goal)
    BY <2>4 DEF CanDo
  <2> QED BY <2>4, <2>5, <2>9, <2>10 DEF u, z2, i
<1> QED
  BY <1>2, <1>3

---------------------------------------------------------------------------
(* What the adapters' plans leave to do when they begin. *)

\* What a plan for single records shall serve.
LEMMA SingleGoal ==
  ASSUME adapter # "huawei", NEW p, PlanShape(p),
         \A i, j \in DOMAIN p.goal : p.goal[i].id = p.goal[j].id => i = j
  PROVE  /\ \A i \in DOMAIN p.goal :
              p.goal[i].id \in DOMAIN Goal(p) /\ Goal(p)[p.goal[i].id] = Target(GoalKey(p), p.goal[i])
         /\ \A id \in DOMAIN Goal(p) : \E i \in DOMAIN p.goal : p.goal[i].id = id
<1> DEFINE g == p.goal
           k == GoalKey(p)
           ids == {g[i].id : i \in DOMAIN g}
           set == [entries |-> g]
<1>1. CASE g = <<>>
  <2>1. DOMAIN g = {} /\ Goal(p) = [id \in {} |-> None]
    BY <1>1 DEF Goal
  <2> HIDE DEF g
  <2> QED BY <2>1 DEF g
<1>2. CASE g # <<>>
  <2>1. P!EntryIDs(set) = ids
    BY DEF P!EntryIDs
  <2>2. Goal(p) = [id \in P!EntryIDs(set) |-> [key |-> k, values |-> Words(<<P!EntryWith(set, id)>>)]]
    BY <1>2 DEF Goal
  <2>3. ASSUME NEW i \in DOMAIN g PROVE P!EntryWith(set, g[i].id) = g[i]
    <3>1. P!EntryWith(set, g[i].id) = g[CHOOSE j \in DOMAIN g : g[j].id = g[i].id]
      BY DEF P!EntryWith
    <3>2. \A j \in DOMAIN g : g[j].id = g[i].id => j = i
      OBVIOUS
    <3>3. (CHOOSE j \in DOMAIN g : g[j].id = g[i].id) = i
      <4> HIDE DEF g
      <4> QED BY <3>2
    <3> QED BY <3>1, <3>3
  <2> HIDE DEF set, k, g
  <2>4. \A e : Words(<<e>>) = {<<e.text.word, e.num>>}
    BY SingleWords
  <2>5. ASSUME NEW i \in DOMAIN g PROVE g[i].id \in DOMAIN Goal(p) /\ Goal(p)[g[i].id] = Target(k, g[i])
    <3>1. g[i].id \in ids
      OBVIOUS
    <3> DEFINE e == g[i]
               id == e.id
               words == Words(<<P!EntryWith(set, id)>>)
    <3>2. words = {<<e.text.word, e.num>>}
      BY <2>3, <2>4
    <3>3. id \in DOMAIN Goal(p) /\ Goal(p)[id] = [key |-> k, values |-> words]
      BY <2>1, <2>2, <3>1
    <3> HIDE DEF e, id, words
    <3>4. id \in DOMAIN Goal(p) /\ Goal(p)[id] = Target(k, e)
      BY <3>2, <3>3 DEF Target
    <3> QED BY <3>4 DEF e, id
  <2>6. DOMAIN Goal(p) = ids
    BY <2>1, <2>2
  <2> QED BY <2>5, <2>6 DEF g, k
<1> QED
  BY <1>1, <1>2

LEMMA HuaweiGoal ==
  ASSUME adapter = "huawei", NEW p
  PROVE  /\ p.goal = <<>> => DOMAIN Goal(p) = {}
         /\ p.goal # <<>> =>
              /\ DOMAIN Goal(p) = {p.key.id}
              /\ Goal(p)[p.key.id] = [key |-> [name |-> p.key.name, type |-> p.key.type, ttl |-> p.key.ttl,
                                              line |-> p.key.line], values |-> Words(p.goal)]
BY DEF Goal, GoalKey

\* Of single records.
LEMMA SingleLeft ==
  ASSUME adapter \in Adapters, adapter # "huawei", NEW view, NEW p, SinglePlan(p, view)
  PROVE  \E w, d : Left(p.calls, ZoneOf(view), Goal(p), request.id, w, d)
<1> DEFINE g == p.goal
           k == GoalKey(p)
           z == ZoneOf(view)
           goal == Goal(p)
           old == request.id
           last == LastID(g)
<1>1. PlanShape(p) /\ \A i, j \in DOMAIN g : g[i].id = g[j].id => i = j
  BY DEF SinglePlan
<1>2. PICK w, d : SingleCalls(p.calls, view, k, g, last, w, d)
  BY DEF SinglePlan
<1>3. /\ Joins(p.calls, w, d) /\ IsSeq(d)
      /\ CallsForAll(w, k, g, last)
      /\ \A c \in Items(d) : CallOK(c, last) /\ Removing(c, old, g)
      /\ \A i \in DOMAIN g :
            \/ g[i].id \in DOMAIN view /\ Serves(view[g[i].id]) = Target(k, g[i])
            \/ \E c \in Items(w) : WritesTo(c, k, g[i])
      /\ \A id \in old :
            (\A i \in DOMAIN g : g[i].id # id) => \E c \in Items(d) : c.id = id
  BY <1>2 DEF SingleCalls, Joins
<1>4. /\ \A i \in DOMAIN g : g[i].id \in DOMAIN goal /\ goal[g[i].id] = Target(k, g[i])
      /\ \A id \in DOMAIN goal : \E i \in DOMAIN g : g[i].id = id
  BY <1>1, SingleGoal
<1>5. DOMAIN z = DOMAIN view /\ \A id \in DOMAIN view : z[id] = Serves(view[id])
  BY SingleZone
<1> HIDE DEF g, k, z, goal, old, last
<1>6. \A c : \A i \in DOMAIN g : WritesTo(c, k, g[i]) => Puts(c, g[i].id, goal[g[i].id])
  BY <1>4 DEF WritesTo, Puts
<1>7. ASSUME NEW c \in Items(w)
      PROVE  CanDo(c, z, goal) /\ (Stays(c) \/ \E id \in DOMAIN goal : Puts(c, id, goal[id]))
  <2>1. CanDo(c, z, goal)
    BY DEF CanDo
  <2>2. Quiet(c) \/ \E i \in DOMAIN g : WritesTo(c, k, g[i])
    BY <1>3, <1>7 DEF CallsForAll
  <2>3. Quiet(c) => Stays(c)
    BY DEF Stays
  <2> QED BY <1>4, <1>6, <2>1, <2>2, <2>3
<1>8. \A c \in Items(d) : Drops(c) /\ c.id \in old /\ c.id \notin DOMAIN goal
  BY <1>3, <1>4 DEF Removing, Drops
<1>9. ASSUME NEW id \in DOMAIN goal
      PROVE  (id \in DOMAIN z /\ z[id] = goal[id]) \/ \E c \in Items(w) : Puts(c, id, goal[id])
  <2>1. PICK i \in DOMAIN g : g[i].id = id
    BY <1>4
  <2>2. CASE id \in DOMAIN view /\ Serves(view[id]) = Target(k, g[i])
    BY <1>4, <1>5, <2>1, <2>2
  <2>3. CASE \E c \in Items(w) : WritesTo(c, k, g[i])
    BY <1>6, <2>1, <2>3
  <2> QED BY <1>3, <2>1, <2>2, <2>3
<1>10. \A id \in old : id \notin DOMAIN goal => id \notin DOMAIN z \/ \E c \in Items(d) : c.id = id
  BY <1>3, <1>4
<1>11. IsSeq(w)
  BY <1>3 DEF CallsForAll
<1>12. Left(p.calls, z, goal, old, w, d)
  BY <1>3, <1>7, <1>8, <1>9, <1>10, <1>11 DEF Left
<1> QED
  BY <1>12 DEF z, goal, old

\* Of a record set of Huawei Cloud.
LEMMA HuaweiLeft ==
  ASSUME adapter = "huawei", NEW view, RequestOK(request), NEW p, PlanMade(p, view),
         \A id \in DOMAIN view : id \in request.id => view[id].phase # "PENDING_DELETE"
  PROVE  \E w, d : Left(p.calls, ZoneOf(view), Goal(p), request.id, w, d)
<1> DEFINE z == ZoneOf(view)
           goal == Goal(p)
           old == request.id
           id == p.key.id
<1>1. CASE request.kind = "create"
  <2>1. HuaweiCreates(p) /\ old = {}
    BY <1>1 DEF PlanMade, RequestOK
  <2>2. PICK c : p.calls = <<c>> /\ c.op = "add" /\ HuaweiWrites(c, p) /\ c.with.line = p.key.line
    BY <2>1 DEF HuaweiCreates
  <2>3. /\ DOMAIN goal = {id}
        /\ goal[id] = [key |-> [name |-> p.key.name, type |-> p.key.type, ttl |-> p.key.ttl, line |-> p.key.line],
                       values |-> Words(p.goal)]
    BY <2>1, HuaweiGoal DEF HuaweiCreates
  <2> DEFINE v == goal[id]
  <2> HIDE DEF v, z, goal
  <2>4. Puts(c, id, v)
    <3>1. /\ c.id = id /\ {"name", "type", "ttl", "values", "phase"} \subseteq DOMAIN c.with
          /\ c.with.name = p.key.name /\ c.with.type = p.key.type /\ c.with.ttl = p.key.ttl
          /\ Words(c.with.values) = Words(p.goal) /\ c.with.phase # "PENDING_DELETE"
      BY <2>2 DEF HuaweiWrites
    <3>2. v = [key |-> [name |-> c.with.name, type |-> c.with.type, ttl |-> c.with.ttl, line |-> p.key.line],
               values |-> Words(c.with.values)]
      BY <2>3, <3>1 DEF v
    <3>3. v.key.line = p.key.line
      BY <3>2
    <3> QED BY <2>2, <3>1, <3>2, <3>3 DEF Puts
  <2>5. CanDo(c, z, goal)
    BY <2>2 DEF CanDo
  <2> DEFINE w == <<c>>
  <2>6. IsSeq(w) /\ Items(w) = {c} /\ Joins(p.calls, w, <<>>)
    <3>1. IsSeq(w) /\ Items(w) = {c}
      BY SingletonIsSeq
    <3>2. p.calls = w
      BY <2>2
    <3> QED BY <3>1, <3>2, ConcatEmpty DEF Joins
  <2> HIDE DEF w
  <2>7. Left(p.calls, z, goal, old, w, <<>>)
    BY <2>1, <2>3, <2>4, <2>5, <2>6, EmptyIsSeq DEF Left, v
  <2> QED BY <2>7 DEF z, goal, old
<1>2. CASE request.kind = "update"
  <2>1. HuaweiUpdates(p, view)
    BY <1>2 DEF PlanMade
  <2>2. PICK c, s : /\ p.calls = <<c>> \o s /\ c.op = "set" /\ HuaweiWrites(c, p) /\ IsSeq(s)
                    /\ \A e \in Items(s) : HuaweiToggles(e, p.key.id)
    BY <2>1 DEF HuaweiUpdates
  <2>3. /\ DOMAIN goal = {id}
        /\ goal[id] = [key |-> [name |-> p.key.name, type |-> p.key.type, ttl |-> p.key.ttl, line |-> p.key.line],
                       values |-> Words(p.goal)]
    BY <2>1, HuaweiGoal DEF HuaweiUpdates
  <2>4. old = {id} /\ id \in DOMAIN z /\ z[id].key.line = p.key.line
    <3>1. old = {id} /\ id \in DOMAIN view /\ view[id].line = p.key.line
      BY <2>1 DEF HuaweiUpdates
    <3>2. id \in DOMAIN z /\ z[id] = Serves(view[id])
      BY <3>1, HuaweiZone
    <3> DEFINE r == view[id]
    <3>3. Serves(r) = [key |-> [name |-> r.name, type |-> r.type, ttl |-> r.ttl, line |-> r.line],
                       values |-> Words(r.values)]
      BY HuaweiServes
    <3> HIDE DEF r
    <3>4. Serves(r).key.line = r.line
      BY <3>3
    <3> QED BY <3>1, <3>2, <3>4 DEF r
  <2> DEFINE v == goal[id]
  <2> HIDE DEF v, z, goal, old
  <2>5. Puts(c, id, v) /\ v.key.line = p.key.line
    <3>1. /\ c.id = id /\ {"name", "type", "ttl", "values", "phase"} \subseteq DOMAIN c.with
          /\ c.with.name = p.key.name /\ c.with.type = p.key.type /\ c.with.ttl = p.key.ttl
          /\ Words(c.with.values) = Words(p.goal) /\ c.with.phase # "PENDING_DELETE"
      BY <2>2 DEF HuaweiWrites
    <3>2. v = [key |-> [name |-> c.with.name, type |-> c.with.type, ttl |-> c.with.ttl, line |-> p.key.line],
               values |-> Words(c.with.values)]
      BY <2>3, <3>1 DEF v
    <3>3. v.key.line = p.key.line
      BY <3>2
    <3> QED BY <2>2, <3>1, <3>2, <3>3 DEF Puts
  <2>6. \A e : e.id = id => CanDo(e, z, goal)
    BY <2>3, <2>4, <2>5 DEF CanDo, v
  <2>7. \A e \in Items(s) : Stays(e) /\ CanDo(e, z, goal)
    BY <2>2, <2>6 DEF HuaweiToggles, Stays
  <2> DEFINE t == <<c>>
             w == p.calls
  <2>8. IsSeq(w) /\ Items(w) = {c} \cup Items(s)
    <3>1. IsSeq(t) /\ Items(t) = {c} /\ w = t \o s
      BY <2>2, SingletonIsSeq
    <3> HIDE DEF t, w
    <3> QED BY <2>2, <3>1, ConcatIsSeq
  <2> HIDE DEF w
  <2>9. Joins(w, w, <<>>)
    BY <2>8, ConcatEmpty DEF Joins
  <2>10. CanDo(c, z, goal)
    BY <2>5, <2>6 DEF Puts
  <2>11. Left(w, z, goal, old, w, <<>>)
    BY <2>3, <2>4, <2>5, <2>7, <2>8, <2>9, <2>10, EmptyIsSeq DEF Left, v
  <2> QED BY <2>11 DEF z, goal, old, w
<1>3. CASE request.kind = "delete"
  <2>1. HuaweiDeletes(p, view)
    BY <1>3 DEF PlanMade
  <2>2. PICK c : /\ p.calls = <<c>> /\ c.op = "set" /\ old = {c.id}
                 /\ DOMAIN c.with = {"phase"} /\ c.with.phase = "PENDING_DELETE"
    BY <2>1 DEF HuaweiDeletes
  <2>3. DOMAIN goal = {}
    BY <2>1, HuaweiGoal DEF HuaweiDeletes
  <2> HIDE DEF z, goal, old
  <2>4. Drops(c)
    BY <2>2 DEF Drops
  <2> DEFINE d == <<c>>
  <2>5. IsSeq(d) /\ Items(d) = {c} /\ Joins(p.calls, <<>>, d)
    <3>1. IsSeq(d) /\ Items(d) = {c}
      BY SingletonIsSeq
    <3>2. p.calls = d
      BY <2>2
    <3> QED BY <3>1, <3>2, ConcatEmpty DEF Joins
  <2> HIDE DEF d
  <2>6. Left(p.calls, z, goal, old, <<>>, d)
    BY <2>2, <2>3, <2>4, <2>5, EmptyIsSeq DEF Left
  <2> QED BY <2>6 DEF z, goal, old
<1> QED
  BY <1>1, <1>2, <1>3 DEF RequestOK

---------------------------------------------------------------------------
(* The records a list is made of. *)

LEMMA ListedRecords ==
  ASSUME adapter \in Adapters, issued \in Nat, NEW view, ViewOK(view), Readable(view), NEW set \in Sets(view)
  PROVE  set.id \subseteq DOMAIN view
<1>1. CASE adapter = "aliyun"
  <2>1. \E m : Lists(set, view, m)
    BY <1>1, AliyunSets DEF Sets, AliyunLists
  <2> QED BY <2>1 DEF Lists
<1>2. CASE adapter = "tencent"
  <2>1. \E m : Lists(set, view, m)
    BY <1>2, TencentSets DEF Sets, TencentLists
  <2> QED BY <2>1 DEF Lists
<1>3. CASE adapter = "cloudflare"
  <2>1. \E m : Lists(set, view, m)
    BY <1>3, CloudflareSets DEF Sets, CloudflareLists
  <2> QED BY <2>1 DEF Lists
<1>4. CASE adapter = "huawei"
  <2>1. \E id : HuaweiLists(set, view, id)
    BY <1>4, HuaweiSets DEF Sets, Readable
  <2> QED BY <2>1 DEF HuaweiLists
<1> QED
  BY <1>1, <1>2, <1>3, <1>4, AdaptersAssumption

\* Huawei Cloud does nothing with a set that the client saw at rest and that
\* still is what it was.
AtRest(fingerprint) == fingerprint.ext.provider \notin Huawei!Pendings

LEMMA RestingStatus ==
  ASSUME NEW r
  PROVE  Huawei!ProviderStatus(r) \notin Huawei!Pendings <=> r.phase \notin Huawei!Pendings
<1>1. "" \notin Huawei!Pendings /\ "ACTIVE" \notin Huawei!Pendings /\ "DISABLE" \notin Huawei!Pendings
  BY DEF Huawei!Pendings
<1> QED
  BY <1>1 DEF Huawei!ProviderStatus

LEMMA RawStatus ==
  ASSUME NEW id, NEW r
  PROVE  Huawei!RawSet(id, r).ext.provider = Huawei!ProviderStatus(r)
<1> DEFINE status == Huawei!ShownStatus(r)
           provider == Huawei!ProviderStatus(r)
           default == IF r.system THEN TRUE ELSE None
           entries == Huawei!EntriesOf(r)
           ext == [status |-> status, provider |-> provider, default |-> default]
<1>1. Huawei!RawSet(id, r) =
        [id |-> {id}, name |-> r.name, type |-> r.type, ttl |-> r.ttl, entries |-> entries, ext |-> ext, fingerprint |-> None]
  BY Zenon DEF Huawei!RawSet
<1>2. ext.provider = provider
  OBVIOUS
<1> HIDE DEF entries, ext, provider
<1>3. Huawei!RawSet(id, r).ext = ext
  BY <1>1
<1> QED
  BY <1>2, <1>3 DEF provider

LEMMA DigestExt ==
  ASSUME NEW set, set = [id |-> set.id, name |-> set.name, type |-> set.type, ttl |-> set.ttl,
                         entries |-> set.entries, ext |-> set.ext, fingerprint |-> set.fingerprint]
  PROVE  P!Digest(P!Normalized(set)).ext = set.ext
<1>1. P!Normalized(set).ext = set.ext
  BY DEF P!Normalized
<1> QED
  BY <1>1 DEF P!Digest

LEMMA HuaweiRests ==
  ASSUME adapter = "huawei", NEW view, ViewOK(view), Readable(view), NEW set \in Sets(view)
  PROVE  /\ (\A id \in DOMAIN view : view[id].phase \notin Huawei!Pendings) => AtRest(P!Digest(P!Normalized(set)))
         /\ \A expected : P!Matches(expected, set) /\ AtRest(expected) =>
              \A id \in set.id : id \in DOMAIN view /\ view[id].phase \notin Huawei!Pendings
<1>1. PICK id \in DOMAIN view : set = P!Listed(Huawei!RawSet(id, view[id]))
  BY SameListed DEF Sets, Huawei!Sets
<1> DEFINE r == view[id]
           raw == Huawei!RawSet(id, r)
<1>3. raw.ext.provider = Huawei!ProviderStatus(r)
  BY RawStatus
<1>4. /\ raw = [id |-> raw.id, name |-> raw.name, type |-> raw.type, ttl |-> raw.ttl,
                entries |-> raw.entries, ext |-> raw.ext, fingerprint |-> raw.fingerprint]
      /\ raw.id = {id}
  <2> DEFINE e == Huawei!EntriesOf(r)
             x == [status |-> Huawei!ShownStatus(r), provider |-> Huawei!ProviderStatus(r),
                   default |-> IF r.system THEN TRUE ELSE None]
  <2>1. raw = [id |-> {id}, name |-> r.name, type |-> r.type, ttl |-> r.ttl, entries |-> e, ext |-> x, fingerprint |-> None]
    BY Zenon DEF Huawei!RawSet
  <2> HIDE DEF e, x, raw, r
  <2> QED BY <2>1
<1> HIDE DEF r, raw
<1>5. P!Digest(P!Normalized(raw)).ext = raw.ext
  BY <1>4, DigestExt
<1> DEFINE fp == P!Digest(P!Normalized(raw))
<1>6. P!Normalized(raw) = [id |-> raw.id, name |-> raw.name, type |-> raw.type, ttl |-> raw.ttl,
                           entries |-> P!NormalEntries(raw), ext |-> raw.ext, fingerprint |-> raw.fingerprint]
  BY <1>4 DEF P!Normalized
<1> HIDE DEF fp
<1>7. set = [id |-> raw.id, name |-> raw.name, type |-> raw.type, ttl |-> raw.ttl,
             entries |-> P!NormalEntries(raw), ext |-> raw.ext, fingerprint |-> fp]
  <2>1. set = [P!Normalized(raw) EXCEPT !.fingerprint = fp]
    BY <1>1, Zenon DEF P!Listed, r, raw, fp
  <2> QED BY <1>6, <2>1
<1>8. set.fingerprint.ext = raw.ext /\ set.ext = raw.ext /\ set.id = {id}
  BY <1>4, <1>5, <1>7 DEF fp
<1>9. P!Digest(P!Normalized(set)).ext = set.ext
  <2>1. set = [id |-> set.id, name |-> set.name, type |-> set.type, ttl |-> set.ttl,
               entries |-> set.entries, ext |-> set.ext, fingerprint |-> set.fingerprint]
    BY <1>7
  <2> QED BY <2>1, DigestExt
<1>10. raw.ext.provider \notin Huawei!Pendings <=> r.phase \notin Huawei!Pendings
  BY <1>3, RestingStatus
<1>11. AtRest(P!Digest(P!Normalized(set))) <=> r.phase \notin Huawei!Pendings
  BY <1>8, <1>9, <1>10 DEF AtRest
<1>12. \A expected : P!Matches(expected, set) => expected.ext = raw.ext
  BY <1>8, <1>9 DEF P!Matches
<1> QED
  BY <1>8, <1>10, <1>11, <1>12 DEF AtRest, r

LEMMA RequestsExpect ==
  ASSUME NEW set, NEW r \in Requests(set), r.kind # "create"
  PROVE  r.expected = Shown(set).fingerprint
<1> DEFINE shown == Shown(set)
           f == shown.fingerprint
           inputs == Inputs(shown)
           about == [kind |-> "update", id |-> set.id, expected |-> f, desired |-> None,
                     input |-> None, echo |-> FALSE, batch |-> FALSE, item |-> None]
           same(x) == shown = set /\ x = InputOf(set)
<1>1. \/ \E x \in inputs : r = [about EXCEPT !.desired = x, !.echo = same(x)]
      \/ \E x \in inputs :
            r = [about EXCEPT !.kind = "create", !.id = {}, !.expected = None, !.desired = Copy(x)]
      \/ r = [about EXCEPT !.kind = "delete"]
      \/ \E ttl \in TTLs : r = [about EXCEPT !.batch = TRUE, !.item = [seen |-> InputOf(shown), ttl |-> ttl]]
  BY Zenon DEF Requests
<1> HIDE DEF inputs, f, same, shown
<1>2. r.expected = f
  BY <1>1
<1> QED
  BY <1>2 DEF f, shown

---------------------------------------------------------------------------
(* What holds of an attempt that is not disturbed. *)

\* The calls that are left complete the change.
OnTrack(p) == \E w, d : Left(p.calls, ZoneOf(records), Goal(p), request.id, w, d)

\* Huawei Cloud works on nothing until a client has asked, and what a client
\* saw of a set was at rest.
Underway ==
  /\ (adapter = "huawei" /\ stage = "idle") => \A id \in DOMAIN records : records[id].phase \notin Huawei!Pendings
  /\ (adapter = "huawei" /\ stage # "idle" /\ request.kind # "create") => AtRest(request.expected)
  /\ (stage = "calls" /\ ~ disturbed) => OnTrack(plan)

LEMMA UnderwayInit ==
  ASSUME Init
  PROVE  Underway
<1>1. adapter \in Adapters /\ records \in Zones[adapter] /\ stage = "idle"
  BY DEF Init
<1>2. adapter = "huawei" => \A id \in DOMAIN records : records[id].phase \notin Huawei!Pendings
  BY <1>1, ZonesAssumption, Zenon
<1> QED
  BY <1>1, <1>2 DEF Underway

\* A plan made from what the zone is.
LEMMA HuaweiViews ==
  ASSUME adapter = "huawei", NEW p, NEW view, NEW ids, view = [id \in DOMAIN records \cap ids |-> records[id]],
         PlanMade(p, view)
  PROVE  PlanMade(p, records)
BY DEF PlanMade, HuaweiUpdates, HuaweiDeletes

LEMMA PlanOnTrack ==
  ASSUME Kept, stage # "idle", stage # "calls", NEW view \in Views, NEW p, p = PlanFrom(view), Allowed(p),
         request.kind # "delete" => PassedOn(request),
         adapter = "huawei" \/ view = records, Underway
  PROVE  /\ OnTrack(p)
         /\ request.id \subseteq DOMAIN Zone
<1>1. ViewOK(view) /\ ViewOK(records) /\ issued \in Nat /\ adapter \in Adapters /\ RequestOK(request)
  BY ViewsOK, KeptView DEF Kept, RequestKept
<1>2. PlanMade(p, view) /\ Readable(view)
  BY <1>1, PlansMade
<1>3. CASE adapter # "huawei"
  <2>1. view = records /\ SinglePlan(p, records)
    BY <1>2, <1>3 DEF PlanMade
  <2>2. OnTrack(p)
    BY <1>1, <1>3, <2>1, SingleLeft DEF OnTrack
  <2>3. request.id \subseteq DOMAIN records
    <3>1. CASE request.kind = "create"
      BY <1>1, <3>1 DEF RequestOK
    <3>2. CASE request.kind # "create"
      <4>1. PICK set \in Sets(view) : set.id = request.id
        BY <3>2, PlanFromParts
      <4> QED BY <1>1, <1>2, <2>1, <4>1, ListedRecords
    <3> QED BY <3>1, <3>2
  <2>4. DOMAIN Zone = DOMAIN records
    BY <1>3, ZoneIs, SingleZone
  <2> QED BY <2>2, <2>3, <2>4
<1>4. CASE adapter = "huawei"
  <2>1. PICK ids : view = [id \in DOMAIN records \cap ids |-> records[id]]
    BY <1>4 DEF Views
  <2>2. PlanMade(p, records)
    BY <1>2, <1>4, <2>1, HuaweiViews
  <2>3. \A id \in request.id : id \in DOMAIN records /\ records[id].phase \notin Huawei!Pendings
    <3>1. CASE request.kind = "create"
      BY <1>1, <3>1 DEF RequestOK
    <3>2. CASE request.kind # "create"
      <4>1. PICK set \in Sets(view) : set.id = request.id /\ P!Matches(request.expected, set)
        BY <3>2, PlanFromParts
      <4>2. AtRest(request.expected)
        BY <1>4, <3>2 DEF Underway
      <4>3. \A id \in request.id : id \in DOMAIN view /\ view[id].phase \notin Huawei!Pendings
        BY <1>1, <1>2, <1>4, <4>1, <4>2, HuaweiRests
      <4> QED BY <2>1, <4>3
    <3> QED BY <3>1, <3>2
  <2>4. "PENDING_DELETE" \in Huawei!Pendings
    BY DEF Huawei!Pendings
  <2>5. \A id \in request.id : id \in DOMAIN records /\ records[id].phase # "PENDING_DELETE"
    BY <2>3, <2>4
  <2>6. OnTrack(p)
    BY <1>1, <1>4, <2>2, <2>5, HuaweiLeft DEF OnTrack
  <2>7. request.id \subseteq DOMAIN ZoneOf(records)
    BY <1>4, <2>5, HuaweiZone
  <2> QED BY <2>6, <2>7, ZoneIs
<1> QED
  BY <1>3, <1>4

\* The same, seen before and after a step.
LEMMA SameLeft ==
  ASSUME adapter' = adapter
  PROVE  /\ \A r : Serves(r)' = Serves(r)
         /\ \A view : ZoneOf(view)' = ZoneOf(view)
         /\ \A p : Goal(p)' = Goal(p)
         /\ \A calls, z, goal, old, w, d : Left(calls, z, goal, old, w, d)' <=> Left(calls, z, goal, old, w, d)
<1>1. \A r : Serves(r)' = Serves(r)
  BY DEF Serves
<1>2. \A view : ZoneOf(view)' = ZoneOf(view)
  BY <1>1 DEF ZoneOf, ServingIn
<1>3. \A p : Goal(p)' = Goal(p)
  BY DEF Goal, GoalKey
<1>4. Serving' = Serving
  BY DEF Serving
<1>5. \A c : (Stays(c)' <=> Stays(c)) /\ (Drops(c)' <=> Drops(c))
  BY <1>4 DEF Stays, Drops, Quiet
<1>6. \A c, id, v : Puts(c, id, v)' <=> Puts(c, id, v)
  BY <1>1, <1>4 DEF Puts
<1>7. \A c, z, goal : CanDo(c, z, goal)' <=> CanDo(c, z, goal)
  BY <1>5 DEF CanDo
<1>8. \A calls, z, goal, old, w, d : Left(calls, z, goal, old, w, d)' <=> Left(calls, z, goal, old, w, d)
  BY <1>5, <1>6, <1>7 DEF Left
<1> QED
  BY <1>1, <1>2, <1>3, <1>8

LEMMA OnTrackNext ==
  ASSUME adapter' = adapter,
         \E w, d : Left(plan'.calls, ZoneOf(records'), Goal(plan'), request'.id, w, d)
  PROVE  OnTrack(plan)'
<1>1. \A calls, z, goal, old, w, d : Left(calls, z, goal, old, w, d)' <=> Left(calls, z, goal, old, w, d)
  BY SameLeft
<1>2. ZoneOf(records)' = ZoneOf(records')
  BY DEF ZoneOf, ServingIn, Serves
<1>3. Goal(plan)' = Goal(plan')
  BY DEF Goal, GoalKey
<1> QED
  BY <1>1, <1>2, <1>3 DEF OnTrack

LEMMA FoundIfNotRefused ==
  ASSUME NEW c, ~ CallRefused(c), c.op \in {"set", "delete"}
  PROVE  c.id \in DOMAIN records
BY DEF CallRefused, Aliyun!CallRefused, Tencent!CallRefused, Cloudflare!CallRefused, Huawei!CallRefused,
       Aliyun!Refused, Tencent!Refused, Cloudflare!Refused, Huawei!Refused

\* A step that a change of one record set may take.
ZoneStep(z, goal, old, new) ==
  \/ new = z
  \/ \E id \in DOMAIN goal : new = With(z, id, goal[id])
  \/ InPlace(z, goal) /\ \E id \in old : id \notin DOMAIN goal /\ new = Without(z, id)

\* A call that is done takes the change one step on.
LEMMA CallOnTrack ==
  ASSUME Kept, Underway, Called, ~ disturbed, ~ CallRefused(Head(plan.calls)),
         NEW new, new = P!Applied(records, Head(plan.calls))
  PROVE  /\ ZoneStep(ZoneOf(records), Goal(plan), request.id, ZoneOf(new))
         /\ \E w, d : Left(Tail(plan.calls), ZoneOf(new), Goal(plan), request.id, w, d)
<1> DEFINE c == Head(plan.calls)
           z == ZoneOf(records)
           goal == Goal(plan)
           old == request.id
           calls == plan.calls
           rest == Tail(calls)
           z2 == ZoneOf(new)
<1>1. stage = "calls" /\ calls # <<>> /\ CallOK(c, issued)
  BY CalledParts
<1>2. PICK w, d : Left(calls, z, goal, old, w, d)
  BY <1>1 DEF Underway, OnTrack
<1>3. c.op = "set" => c.id \in DOMAIN records
  BY FoundIfNotRefused
<1>4. ViewOK(records) /\ adapter \in Adapters
  BY KeptView
<1>5. CanDo(c, z, goal) =>
        /\ Stays(c) => z2 = z
        /\ \A id \in DOMAIN goal : Puts(c, id, goal[id]) => z2 = With(z, id, goal[id])
        /\ Drops(c) => z2 = Without(z, c.id)
  <2> HIDE DEF goal, c
  <2> QED BY <1>1, <1>3, <1>4, CallEffects DEF c
<1>6. \/ /\ CanDo(c, z, goal) /\ Stays(c)
         /\ Left(rest, z, goal, old, Tail(w), d)
      \/ \E id \in DOMAIN goal :
           /\ CanDo(c, z, goal) /\ Puts(c, id, goal[id])
           /\ Left(rest, With(z, id, goal[id]), goal, old, Tail(w), d)
      \/ /\ Drops(c) /\ c.id \in old /\ c.id \notin DOMAIN goal /\ InPlace(z, goal)
         /\ CanDo(c, z, goal)
         /\ Left(rest, Without(z, c.id), goal, old, w, Tail(d))
  <2> HIDE DEF z, goal, old, calls
  <2> QED BY <1>1, <1>2, FirstLeft DEF calls
<1> HIDE DEF c, z, goal, old, calls, rest, z2
<1>7. ZoneStep(z, goal, old, z2) /\ \E w1, d1 : Left(rest, z2, goal, old, w1, d1)
  BY <1>5, <1>6 DEF ZoneStep
<1> QED
  BY <1>7 DEF c, z, goal, old, calls, rest, z2

---------------------------------------------------------------------------
(* It holds all along. *)

\* A step that begins no attempt, and leaves what is asked for alone.
LEMMA UnderwayStays ==
  ASSUME Underway, adapter' = adapter, request' = request, stage # "idle" /\ stage' # "idle",
         (stage' = "calls" /\ ~ disturbed') => OnTrack(plan)'
  PROVE  Underway'
<1>1. AtRest(request.expected)' <=> AtRest(request'.expected)
  BY DEF AtRest
<1> QED
  BY <1>1 DEF Underway

LEMMA UnderwayAsk ==
  ASSUME Kept, Underway, Ask
  PROVE  Underway'
<1>1. /\ stage = "idle" /\ Readable(records) /\ stage' = FirstStage(request') /\ UNCHANGED adapter
  BY DEF Ask
<1>2. PICK set \in Sets(records) : request' \in Requests(set)
  BY DEF Ask
<1>3. stage' \in {"batched", "received"}
  BY <1>1 DEF FirstStage
<1>4. adapter = "huawei" /\ request'.kind # "create" => AtRest(request'.expected)
  <2> SUFFICES ASSUME adapter = "huawei", request'.kind # "create" PROVE AtRest(request'.expected)
    OBVIOUS
  <2>1. request'.expected = Shown(set).fingerprint
    BY <1>2, RequestsExpect
  <2>2. \A id \in DOMAIN records : records[id].phase \notin Huawei!Pendings
    BY <1>1 DEF Underway
  <2>3. AtRest(P!Digest(P!Normalized(set)))
    BY <1>1, <1>2, <2>2, KeptView, HuaweiRests
  <2>4. SetOK(set)
    BY <1>1, <1>2, SetsOK, KeptView
  <2>5. Shown(set).fingerprint = P!Digest(P!Normalized(set))
    BY <2>4, ShownSet
  <2> QED BY <2>1, <2>3, <2>5
<1>5. AtRest(request.expected)' <=> AtRest(request'.expected)
  BY DEF AtRest
<1> QED
  BY <1>1, <1>3, <1>4, <1>5 DEF Underway

LEMMA UnderwayReadItem ==
  ASSUME Kept, Underway, ReadItem
  PROVE  Underway'
<1>1. stage = "batched" /\ stage' = "received" /\ UNCHANGED adapter
  BY DEF ReadItem
<1>2. \E desired : request' = [request EXCEPT !.desired = desired, !.expected = request.expected]
  BY DEF ReadItem, ItemPrecondition
<1>3. RequestOK(request)
  BY <1>1 DEF Kept, RequestKept
<1>4. request = [kind |-> request.kind, id |-> request.id, expected |-> request.expected,
                 desired |-> request.desired, input |-> request.input,
                 echo |-> request.echo, batch |-> request.batch, item |-> request.item]
  BY <1>3 DEF RequestOK
<1>5. request'.kind = request.kind /\ request'.expected = request.expected
  BY <1>2, <1>4
<1>6. AtRest(request.expected)' <=> AtRest(request'.expected)
  BY DEF AtRest
<1> QED
  BY <1>1, <1>5, <1>6 DEF Underway

LEMMA UnderwayAdmit ==
  ASSUME Kept, Underway, Admit
  PROVE  Underway'
<1>1. stage = "received" /\ stage' = "asked" /\ UNCHANGED adapter
  BY AdmitParts
<1>2. request'.kind = request.kind /\ request'.expected = request.expected
  <2>1. CASE request.kind = "delete"
    BY <2>1, AdmitParts
  <2>2. CASE request.kind # "delete"
    <3> DEFINE x == P!Normalized(request.desired)
               q == request
               r == request'
    <3>1. r = [kind |-> q.kind, id |-> q.id, expected |-> q.expected, desired |-> q.desired, input |-> x,
               echo |-> q.echo, batch |-> q.batch, item |-> q.item]
      BY <2>2, AdmitParts
    <3> HIDE DEF x, q, r
    <3>2. r.kind = q.kind /\ r.expected = q.expected
      BY <3>1
    <3> QED BY <3>2 DEF q, r
  <2> QED BY <2>1, <2>2
<1>3. AtRest(request.expected)' <=> AtRest(request'.expected)
  BY DEF AtRest
<1> QED
  BY <1>1, <1>2, <1>3 DEF Underway

LEMMA UnderwayBegin ==
  ASSUME Kept, Underway, Begin
  PROVE  Underway'
<1>1. stage = "asked" /\ UNCHANGED <<adapter, records, request>>
  BY BeginParts
<1>2. PICK view \in Views :
         /\ plan' = PlanFrom(view)
         /\ ~ Allowed(plan') => stage' = "done"
         /\ Allowed(plan') => stage' = "calls"
         /\ disturbed' = (view \notin {records} /\ adapter # "huawei")
  BY BeginParts
<1>3. ASSUME stage' = "calls", ~ disturbed' PROVE OnTrack(plan)'
  <2>1. Allowed(plan')
    BY <1>2, <1>3
  <2>2. adapter = "huawei" \/ view = records
    BY <1>2, <1>3
  <2>3. request.kind # "delete" => PassedOn(request)
    BY <1>1 DEF Kept, RequestKept
  <2> DEFINE p == plan'
  <2>4. p = PlanFrom(view) /\ Allowed(p)
    BY <1>2, <2>1
  <2> HIDE DEF p
  <2>5. OnTrack(p)
    BY <1>1, <2>2, <2>3, <2>4, PlanOnTrack
  <2>6. \E w, d : Left(plan'.calls, ZoneOf(records'), Goal(plan'), request'.id, w, d)
    BY <1>1, <2>5 DEF OnTrack, p
  <2> QED BY <1>1, <2>6, OnTrackNext
<1>4. stage' # "idle"
  BY <1>2
<1> QED
  BY <1>1, <1>3, <1>4, UnderwayStays

LEMMA UnderwayCallDone ==
  ASSUME Kept, Underway, CallDone
  PROVE  Underway'
<1>1. /\ stage' = stage /\ records' = P!Applied(records, Head(plan.calls)) /\ Called /\ ~ CallRefused(Head(plan.calls))
      /\ plan' = [plan EXCEPT !.calls = Tail(@)]
  BY DEF CallDone, Put
<1>2. stage = "calls" /\ plan.calls # <<>> /\ PlanShape(plan) /\ UNCHANGED <<adapter, request, disturbed>>
  BY <1>1, CalledParts DEF PlanKept
<1>3. ASSUME ~ disturbed PROVE OnTrack(plan)'
  <2>1. \E w, d : Left(Tail(plan.calls), ZoneOf(records'), Goal(plan), request.id, w, d)
    BY <1>1, <1>3, CallOnTrack
  <2>2. plan'.calls = Tail(plan.calls) /\ plan'.goal = plan.goal /\ plan'.key = plan.key
    <3> DEFINE p == plan
               q == plan'
    <3>1. q = [p EXCEPT !.calls = Tail(@)] /\ PlanShape(p) /\ p.calls # <<>>
      BY <1>1, <1>2
    <3> HIDE DEF p, q
    <3>2. q.calls = Tail(p.calls) /\ q.goal = p.goal /\ q.key = p.key
      BY <3>1, RestOfPlan
    <3> QED BY <3>2 DEF p, q
  <2>3. Goal(plan') = Goal(plan)
    BY <2>2 DEF Goal, GoalKey
  <2> QED BY <1>2, <2>1, <2>2, <2>3, OnTrackNext
<1> QED
  BY <1>1, <1>2, <1>3, UnderwayStays

LEMMA UnderwayEnds ==
  ASSUME Underway,
         RefuseItem \/ RefuseRequest \/ CallFails \/ ReplyLost \/ Confirmed \/ ReadFails \/ Report \/ Retry
  PROVE  Underway'
<1>1. adapter' = adapter /\ request' = request /\ stage # "idle"
  BY DEF RefuseItem, RefuseRequest, TurnAway, CallFails, ReplyLost, Called, Confirmed, ReadFails, Reading, Report, Retry
<1>2. stage' \in {"done", "failed", "batched", "received"}
  BY DEF RefuseItem, RefuseRequest, TurnAway, CallFails, ReplyLost, Confirmed, ReadFails, Report, Retry, FirstStage
<1> QED
  BY <1>1, <1>2, UnderwayStays

\* Nothing that decides what the zone serves is touched.
LEMMA TrackKept ==
  ASSUME Underway, UNCHANGED <<adapter, request, stage, plan, disturbed>>, ZoneOf(records') = ZoneOf(records),
         stage # "idle"
  PROVE  Underway'
<1>1. ASSUME stage' = "calls", ~ disturbed' PROVE OnTrack(plan)'
  <2>1. \E w, d : Left(plan.calls, ZoneOf(records), Goal(plan), request.id, w, d)
    BY <1>1 DEF Underway, OnTrack
  <2>2. Goal(plan') = Goal(plan)
    BY DEF Goal, GoalKey
  <2>3. plan' = plan /\ request' = request
    OBVIOUS
  <2>4. \E w, d : Left(plan'.calls, ZoneOf(records'), Goal(plan'), request'.id, w, d)
    BY <2>1, <2>2, <2>3
  <2> QED BY <2>4, OnTrackNext
<1> QED
  BY <1>1, UnderwayStays

LEMMA UnderwayUnconfirmed ==
  ASSUME Underway, Unconfirmed
  PROVE  Underway'
<1>1. stage = "calls" /\ UNCHANGED <<adapter, records, request, plan, disturbed>>
  BY DEF Unconfirmed, Reading
<1>2. CASE stage' = stage
  BY <1>1, <1>2, TrackKept
<1>3. CASE stage' = "failed"
  BY <1>1, <1>3, UnderwayStays
<1> QED
  BY <1>2, <1>3 DEF Unconfirmed

\* Huawei Cloud completes what it has shown already.
LEMMA SettleZone ==
  ASSUME Kept, Settle
  PROVE  ZoneOf(records') = ZoneOf(records)
<1>1. adapter = "huawei"
  BY SettleParts
<1>2. PICK id \in DOMAIN records :
         \/ records[id].phase = "PENDING_DELETE" /\ records' = Without(records, id)
         \/ /\ records[id].phase # "PENDING_DELETE"
            /\ \E phase \in {NoStatus} \cup Halts : records' = [records EXCEPT ![id] = InPhase(@, phase)]
  BY SettleParts
<1>3. CASE records[id].phase = "PENDING_DELETE" /\ records' = Without(records, id)
  BY <1>1, <1>3 DEF ZoneOf, ServingIn, Without
<1>4. ASSUME records[id].phase # "PENDING_DELETE", NEW phase \in {NoStatus} \cup Halts,
             records' = [records EXCEPT ![id] = InPhase(@, phase)]
      PROVE  ZoneOf(records') = ZoneOf(records)
  <2> DEFINE r == records[id]
             s == InPhase(r, phase)
  <2>1. "phase" \in DOMAIN r
    <3>1. RecordOK("huawei", r)
      BY <1>1, KeptView DEF ViewOK
    <3> QED BY <3>1 DEF RecordOK, RecordFields
  <2>2. s.name = r.name /\ s.type = r.type /\ s.ttl = r.ttl /\ s.line = r.line /\ s.values = r.values /\ s.phase = phase
    BY <2>1 DEF InPhase
  <2>3. phase # "PENDING_DELETE"
    BY <1>4, SomeWays DEF Ways
  <2>4. /\ DOMAIN records' = DOMAIN records /\ records'[id] = s /\ r.phase # "PENDING_DELETE"
        /\ \A i \in DOMAIN records : i # id => records'[i] = records[i]
    BY <1>4
  <2> HIDE DEF r, s
  <2>5. Serves(s) = Serves(r)
    BY <1>1, <2>2, HuaweiServes
  <2> QED BY <1>1, <2>2, <2>3, <2>4, <2>5 DEF ZoneOf, ServingIn, r
<1> QED
  BY <1>2, <1>3, <1>4

LEMMA UnderwaySettle ==
  ASSUME Kept, Underway, Settle
  PROVE  Underway'
<1>1. stage # "idle" /\ UNCHANGED <<adapter, request, stage, plan, disturbed>>
  BY DEF Settle
<1> QED
  BY <1>1, SettleZone, TrackKept

LEMMA UnderwayInterfere ==
  ASSUME Underway, Interfere
  PROVE  Underway'
<1>1. stage # "idle" /\ UNCHANGED <<adapter, request, stage>>
  BY DEF Interfere
<1>2. disturbed' = TRUE
  BY InterfereParts
<1> QED
  BY <1>1, <1>2, UnderwayStays

LEMMA UnderwayStutter ==
  ASSUME Underway, UNCHANGED vars
  PROVE  Underway'
<1>1. UNCHANGED <<adapter, records, request, stage, plan, disturbed>>
  BY DEF vars
<1>2. CASE stage = "idle"
  BY <1>1, <1>2 DEF Underway
<1>3. CASE stage # "idle"
  BY <1>1, <1>3, TrackKept
<1> QED
  BY <1>2, <1>3

LEMMA UnderwayNext ==
  ASSUME Kept, Underway, [Next]_vars
  PROVE  Underway'
BY Zenon, UnderwayAsk, UnderwayReadItem, UnderwayAdmit, UnderwayBegin, UnderwayCallDone, UnderwayEnds, UnderwayUnconfirmed, UnderwaySettle,
   UnderwayInterfere, UnderwayStutter DEF Next

\* An attempt that nothing disturbs stays on the way to what it was asked for.
THEOREM AlwaysUnderway == Spec => []Underway
<1>1. Init => Underway
  BY UnderwayInit
<1>2. Kept /\ Underway /\ [Next]_vars => Underway'
  BY UnderwayNext
<1> QED
  BY <1>1, <1>2, AlwaysKept, PTL DEF Spec

---------------------------------------------------------------------------
(* Every step is one of RecordSetChange, or none that it sees. *)

\* The change that is under way, for RecordSetChange.
Changing == IF stage \in {"calls", "failed"} THEN [old |-> request.id, goal |-> Goal(plan)] ELSE <<>>
Stuttering == Zone' = Zone /\ Changing' = Changing /\ result'.answer = result.answer /\ disturbed' = disturbed

LEMMA ChangeStutters ==
  ASSUME Stuttering
  PROVE  UNCHANGED Change!vars
BY DEF Stuttering, Zone, Changing, Change!vars

LEMMA ChangeInterferes ==
  ASSUME disturbed' = TRUE, Changing' = Changing, result'.answer = result.answer
  PROVE  Change!Interfere
BY Zenon DEF Changing, Change!Interfere

LEMMA ChangeRefuses ==
  ASSUME Changing = <<>>, Changing' = <<>>, Zone' = Zone, result'.answer = "error", disturbed' \in BOOLEAN
  PROVE  Change!Refuse
BY Zenon DEF Changing, Zone, Change!Refuse

LEMMA ChangeWrites ==
  ASSUME Changing # <<>>, NEW id \in DOMAIN Changing.goal, Zone' = With(Zone, id, Changing.goal[id]),
         Changing' = Changing, result'.answer = result.answer, disturbed' = disturbed
  PROVE  Change!Write
<1>1. Zone' = [i \in DOMAIN Zone \cup {id} |-> IF i = id THEN Changing.goal[id] ELSE Zone[i]]
  BY DEF With
<1> QED
  BY <1>1, Zenon DEF Changing, Zone, Change!Write

LEMMA ChangeRemoves ==
  ASSUME Changing # <<>>, InPlace(Zone, Changing.goal),
         NEW id \in Changing.old \ DOMAIN Changing.goal, Zone' = Without(Zone, id),
         Changing' = Changing, result'.answer = result.answer, disturbed' = disturbed
  PROVE  Change!Remove
<1>1. Zone' = [i \in DOMAIN Zone \ {id} |-> Zone[i]]
  BY DEF Without
<1>2. Change!Written
  BY Zenon DEF Changing, Zone, Change!Written, InPlace
<1> QED
  BY <1>1, <1>2, Zenon DEF Changing, Zone, Change!Remove

LEMMA ChangeFinishes ==
  ASSUME Changing # <<>>, Changing' = <<>>, Zone' = Zone, result'.answer \in {"ok", "error"}, disturbed' = disturbed,
         result'.answer = "ok" => disturbed \/ (InPlace(Zone, Changing.goal) /\ Gone(Zone, Changing.goal, Changing.old))
  PROVE  Change!Finish
<1>1. InPlace(Zone, Changing.goal) /\ Gone(Zone, Changing.goal, Changing.old) => Change!Complete
  BY Zenon DEF Changing, Zone, Change!Complete, Change!Written, InPlace, Gone
<1> QED
  BY <1>1, Zenon DEF Changing, Zone, Change!Finish

LEMMA ChangeStarts ==
  ASSUME Changing = <<>>, Changing' # <<>>, Zone' = Zone, result'.answer = "none", disturbed' \in BOOLEAN,
         disturbed' \/ (Changing'.old \subseteq DOMAIN Zone /\ DOMAIN Changing'.goal \cap DOMAIN Zone \subseteq Changing'.old)
  PROVE  Change!Start
BY Zenon DEF Changing, Zone, Change!Start

LEMMA ZoneNext ==
  ASSUME adapter' = adapter
  PROVE  Zone' = ZoneOf(records')
<1>1. (Zone = ZoneOf(records))'
  BY ZoneIs, PTL
<1>2. ZoneOf(records)' = ZoneOf(records')
  BY DEF ZoneOf, ServingIn, Serves
<1> QED
  BY <1>1, <1>2

LEMMA ZoneStays ==
  ASSUME UNCHANGED <<adapter, records>>
  PROVE  Zone' = Zone
BY ZoneNext, ZoneIs

LEMMA ChangingStays ==
  ASSUME UNCHANGED <<adapter, request>>, plan'.goal = plan.goal, plan'.key = plan.key,
         stage' = stage \/ {stage, stage'} \subseteq {"calls", "failed"}
  PROVE  Changing' = Changing
<1>1. Goal(plan)' = Goal(plan)
  BY DEF Goal, GoalKey
<1> QED
  BY <1>1 DEF Changing

LEMMA NotChanging ==
  /\ stage \notin {"calls", "failed"} => Changing = <<>>
  /\ stage' \notin {"calls", "failed"} => Changing' = <<>>
  /\ stage \in {"calls", "failed"} =>
       Changing # <<>> /\ Changing.old = request.id /\ Changing.goal = Goal(plan)
<1>1. \A old, goal : [old |-> old, goal |-> goal] # <<>>
  <2> SUFFICES ASSUME NEW old, NEW goal PROVE [old |-> old, goal |-> goal] # <<>>
    OBVIOUS
  <2> DEFINE r == [old |-> old, goal |-> goal]
  <2>1. DOMAIN r = {"old", "goal"} /\ DOMAIN <<>> = {}
    OBVIOUS
  <2> HIDE DEF r
  <2>2. r # <<>>
    BY <2>1
  <2> QED BY <2>2 DEF r
<1> QED
  BY <1>1 DEF Changing

\* Steps before and after an attempt.
LEMMA QuietSteps ==
  ASSUME Ask \/ ReadItem \/ Admit \/ Retry
  PROVE  Stuttering
<1>1. UNCHANGED <<adapter, records, result, disturbed>>
  BY DEF Ask, ReadItem, Admit, Retry
<1>2. stage \notin {"calls", "failed"} /\ stage' \notin {"calls", "failed"}
  BY DEF Ask, ReadItem, Admit, Retry, FirstStage
<1> QED
  BY <1>1, <1>2, ZoneStays, NotChanging DEF Stuttering

LEMMA RefusingSteps ==
  ASSUME Kept, RefuseItem \/ RefuseRequest
  PROVE  Change!Refuse
<1>1. /\ UNCHANGED <<adapter, records, disturbed>> /\ stage \in {"batched", "received"}
      /\ stage' = "done" /\ result'.answer = "error"
  BY TurnedAway DEF TurnAway
<1>2. disturbed' \in BOOLEAN
  BY <1>1, KeptTypes
<1> QED
  BY <1>1, <1>2, ZoneStays, NotChanging, ChangeRefuses

LEMMA Answers ==
  ASSUME NEW p
  PROVE  /\ Allowed(p) => AnswerTo(p).answer = "none"
         /\ ~ Allowed(p) => AnswerTo(p).answer = "error"
BY DEF AnswerTo, Nothing

\* The records a change aims at are those of the set, or new.
LEMMA GoalIsNew ==
  ASSUME Kept, NEW view, RequestOK(request), NEW p, PlanMade(p, view)
  PROVE  DOMAIN Goal(p) \cap DOMAIN Zone \subseteq request.id
<1>1. DOMAIN Zone \subseteq 1..issued /\ issued \in Nat /\ Zone = ZoneOf(records)
  <2>1. ViewOK(records) /\ issued \in Nat
    BY KeptView
  <2>2. DOMAIN ZoneOf(records) \subseteq DOMAIN records
    BY DEF ZoneOf, ServingIn
  <2> QED BY <2>1, <2>2, ZoneIs DEF ViewOK
<1>2. CASE adapter # "huawei"
  <2>1. SinglePlan(p, view)
    BY <1>2 DEF PlanMade
  <2>2. /\ PlanShape(p)
        /\ \A i, j \in DOMAIN p.goal : p.goal[i].id = p.goal[j].id => i = j
        /\ \A i \in DOMAIN p.goal : p.goal[i].id \in request.id \cup (issued + 1..LastID(p.goal))
    BY <2>1 DEF SinglePlan
  <2>3. \A id \in DOMAIN Goal(p) : \E i \in DOMAIN p.goal : p.goal[i].id = id
    BY <1>2, <2>2, SingleGoal
  <2>4. LastID(p.goal) \in Int
    BY <1>1, <2>2, SeqFacts DEF PlanShape, LastID
  <2> DEFINE old == request.id
             goal == DOMAIN Goal(p)
             zone == DOMAIN Zone
             new == issued + 1..LastID(p.goal)
  <2>5. \A id \in goal : id \in old \/ id \in new
    BY <2>2, <2>3
  <2>6. \A id \in new : id \notin 1..issued
    BY <1>1, <2>4
  <2>7. zone \subseteq 1..issued
    BY <1>1
  <2> HIDE DEF old, goal, zone, new
  <2>8. goal \cap zone \subseteq old
    BY <2>5, <2>6, <2>7
  <2> QED BY <2>8 DEF old, goal, zone
<1>3. CASE adapter = "huawei"
  <2>1. CASE request.kind = "create"
    <3>1. p.key.id = issued + 1 /\ p.goal # <<>>
      BY <1>3, <2>1 DEF PlanMade, HuaweiCreates
    <3>2. DOMAIN Goal(p) = {issued + 1}
      BY <1>3, <3>1, HuaweiGoal
    <3>3. issued + 1 \notin 1..issued
      BY <1>1
    <3> QED BY <1>1, <3>2, <3>3
  <2>2. CASE request.kind = "update"
    <3>1. request.id = {p.key.id} /\ p.goal # <<>>
      BY <1>3, <2>2 DEF PlanMade, HuaweiUpdates
    <3> QED BY <1>3, <3>1, HuaweiGoal
  <2>3. CASE request.kind = "delete"
    <3>1. p.goal = <<>>
      BY <1>3, <2>3 DEF PlanMade, HuaweiDeletes
    <3> QED BY <1>3, <3>1, HuaweiGoal
  <2> QED BY <2>1, <2>2, <2>3 DEF RequestOK
<1> QED
  BY <1>2, <1>3

LEMMA BeginningSteps ==
  ASSUME Kept, Underway, Begin
  PROVE  Change!Start \/ Change!Refuse
<1>1. stage = "asked" /\ UNCHANGED <<adapter, records, request>>
  BY BeginParts
<1>2. PICK view \in Views :
         /\ plan' = PlanFrom(view)
         /\ ~ Allowed(plan') => stage' = "done"
         /\ Allowed(plan') => stage' = "calls"
         /\ result' = AnswerTo(plan')
         /\ disturbed' = (view \notin {records} /\ adapter # "huawei")
  BY BeginParts
<1>3. Changing = <<>> /\ Zone' = Zone /\ disturbed' \in BOOLEAN
  BY <1>1, <1>2, NotChanging, ZoneStays
<1>4. CASE ~ Allowed(plan')
  BY <1>2, <1>3, <1>4, Answers, NotChanging, ChangeRefuses
<1>5. CASE Allowed(plan')
  <2> DEFINE p == plan'
  <2>1. p = PlanFrom(view) /\ Allowed(p)
    BY <1>2, <1>5
  <2>2. request.kind # "delete" => PassedOn(request)
    BY <1>1 DEF Kept, RequestKept
  <2>3. RequestOK(request) /\ ViewOK(view) /\ issued \in Nat /\ adapter \in Adapters
    BY <1>1, ViewsOK, KeptView DEF Kept, RequestKept
  <2> HIDE DEF p
  <2>4. PlanMade(p, view)
    BY <2>1, <2>2, <2>3, PlansMade
  <2>5. DOMAIN Goal(p) \cap DOMAIN Zone \subseteq request.id
    BY <2>3, <2>4, GoalIsNew
  <2>6. ~ disturbed' => request.id \subseteq DOMAIN Zone
    BY <1>1, <1>2, <2>1, <2>2, PlanOnTrack
  <2>7. Changing' # <<>> /\ Changing'.old = request.id /\ Changing'.goal = Goal(p)
    <3>1. (stage \in {"calls", "failed"} => Changing # <<>> /\ Changing.old = request.id /\ Changing.goal = Goal(plan))'
      BY NotChanging, PTL
    <3>2. Goal(plan)' = Goal(plan')
      BY <1>1 DEF Goal, GoalKey
    <3> QED BY <1>1, <1>2, <1>5, <3>1, <3>2 DEF p
  <2>8. result'.answer = "none"
    BY <1>2, <1>5, Answers
  <2> QED BY <1>3, <2>5, <2>6, <2>7, <2>8, ChangeStarts
<1> QED
  BY <1>4, <1>5

\* A call is done, whether its reply arrives or not.
LEMMA CallingSteps ==
  ASSUME Kept, Underway, CallDone \/ ReplyLost
  PROVE  Stuttering \/ Change!Write \/ Change!Remove \/ Change!Interfere
<1>1. /\ Called /\ ~ CallRefused(Head(plan.calls)) /\ records' = P!Applied(records, Head(plan.calls))
      /\ stage' = stage \/ stage' = "failed"
      /\ plan' = plan \/ plan' = [plan EXCEPT !.calls = Tail(@)]
  BY DEF CallDone, ReplyLost, Put
<1>2. stage = "calls" /\ plan.calls # <<>> /\ PlanShape(plan) /\ UNCHANGED <<adapter, request, result, disturbed>>
  BY <1>1, CalledParts DEF PlanKept
<1>3. plan'.goal = plan.goal /\ plan'.key = plan.key
  <2> DEFINE p == plan
             q == plan'
  <2>1. PlanShape(p) /\ p.calls # <<>> /\ (q = p \/ q = [p EXCEPT !.calls = Tail(@)])
    BY <1>1, <1>2
  <2> HIDE DEF p, q
  <2>2. q.goal = p.goal /\ q.key = p.key
    BY <2>1, RestOfPlan
  <2> QED BY <2>2 DEF p, q
<1>4. Changing' = Changing
  BY <1>1, <1>2, <1>3, ChangingStays
<1>5. Changing # <<>> /\ Changing.old = request.id /\ Changing.goal = Goal(plan)
  BY <1>2, NotChanging
<1>6. Zone = ZoneOf(records) /\ Zone' = ZoneOf(records')
  BY <1>2, ZoneIs, ZoneNext
<1>7. CASE disturbed
  <2>1. disturbed' = TRUE
    BY <1>2, <1>7, KeptTypes
  <2> QED BY <1>2, <1>4, <2>1, ChangeInterferes
<1>8. CASE ~ disturbed
  <2>1. ZoneStep(Zone, Changing.goal, Changing.old, Zone')
    <3> DEFINE new == records'
    <3>1. new = P!Applied(records, Head(plan.calls))
      BY <1>1
    <3> HIDE DEF new
    <3>2. ZoneStep(ZoneOf(records), Goal(plan), request.id, ZoneOf(new))
      BY <1>1, <1>8, <3>1, CallOnTrack
    <3> QED BY <1>5, <1>6, <3>2 DEF new
  <2>2. CASE Zone' = Zone
    BY <1>2, <1>4, <2>2 DEF Stuttering
  <2>3. CASE \E id \in DOMAIN Changing.goal : Zone' = With(Zone, id, Changing.goal[id])
    BY <1>2, <1>4, <1>5, <2>3, ChangeWrites
  <2>4. CASE InPlace(Zone, Changing.goal)
             /\ \E id \in Changing.old : id \notin DOMAIN Changing.goal /\ Zone' = Without(Zone, id)
    BY <1>2, <1>4, <1>5, <2>4, ChangeRemoves
  <2> QED BY <2>1, <2>2, <2>3, <2>4 DEF ZoneStep
<1> QED
  BY <1>7, <1>8

LEMMA FailingSteps ==
  ASSUME CallFails \/ Unconfirmed \/ ReadFails
  PROVE  Stuttering
<1>1. UNCHANGED <<adapter, records, request, plan, result, disturbed>> /\ stage = "calls" /\ stage' \in {"calls", "failed"}
  BY DEF CallFails, Called, Unconfirmed, ReadFails, Reading
<1> QED
  BY <1>1, ZoneStays, ChangingStays DEF Stuttering

\* The answer to the client.
LEMMA AnsweringSteps ==
  ASSUME Kept, Underway, Confirmed \/ Report
  PROVE  Change!Finish
<1>1. /\ UNCHANGED <<adapter, records, request, plan, disturbed>>
      /\ stage \in {"calls", "failed"} /\ stage' = "done" /\ result'.answer \in {"ok", "error"}
      /\ result'.answer = "ok" => stage = "calls" /\ plan.calls = <<>>
  BY DEF Confirmed, Reading, Report
<1>2. Changing # <<>> /\ Changing.old = request.id /\ Changing.goal = Goal(plan) /\ Changing' = <<>> /\ Zone' = Zone
  BY <1>1, NotChanging, ZoneStays
<1>3. ASSUME result'.answer = "ok", ~ disturbed
      PROVE  InPlace(Zone, Changing.goal) /\ Gone(Zone, Changing.goal, Changing.old)
  <2>1. stage = "calls" /\ plan.calls = <<>>
    BY <1>1, <1>3
  <2>2. PICK w, d : Left(plan.calls, ZoneOf(records), Goal(plan), request.id, w, d)
    BY <1>3, <2>1 DEF Underway, OnTrack
  <2> DEFINE z == Zone
             goal == Changing.goal
             old == Changing.old
  <2>3. Left(<<>>, z, goal, old, w, d)
    BY <1>2, <2>1, <2>2, ZoneIs
  <2> HIDE DEF z, goal, old
  <2>4. InPlace(z, goal) /\ Gone(z, goal, old)
    BY <2>3, NoneLeft
  <2> QED BY <2>4 DEF z, goal, old
<1> QED
  BY <1>1, <1>2, <1>3, ChangeFinishes

LEMMA OthersSteps ==
  ASSUME Kept, Settle \/ Interfere
  PROVE  Stuttering \/ Change!Interfere
<1>1. CASE Settle
  <2>1. UNCHANGED <<adapter, request, stage, plan, result, disturbed>>
    BY <1>1, SettleParts
  <2>2. Zone' = Zone
    BY <1>1, <2>1, SettleZone, ZoneIs, ZoneNext
  <2> QED BY <2>1, <2>2, ChangingStays DEF Stuttering
<1>2. CASE Interfere
  <2>1. UNCHANGED <<adapter, request, stage, plan, result>> /\ disturbed' = TRUE
    BY <1>2, InterfereParts
  <2> QED BY <2>1, ChangingStays, ChangeInterferes
<1> QED
  BY <1>1, <1>2

LEMMA StutteringSteps ==
  ASSUME UNCHANGED vars
  PROVE  Stuttering
BY ZoneStays, ChangingStays DEF vars, Stuttering

LEMMA ChangeSteps ==
  ASSUME Kept, Underway, [Next]_vars
  PROVE  [Change!Next]_(Change!vars)
<1>1. Stuttering \/ Change!Start \/ Change!Refuse \/ Change!Write \/ Change!Remove \/ Change!Finish \/ Change!Interfere
  BY Zenon, QuietSteps, RefusingSteps, BeginningSteps, CallingSteps, FailingSteps, AnsweringSteps, OthersSteps,
     StutteringSteps DEF Next
<1>2. Stuttering => UNCHANGED Change!vars
  BY ChangeStutters
<1> QED
  BY <1>1, <1>2, Zenon DEF Change!Next

LEMMA ChangeInit ==
  ASSUME Init
  PROVE  Change!Init
<1>1. stage = "idle" /\ result.answer = "none" /\ disturbed = FALSE
  BY DEF Init, Nothing
<1> QED
  BY <1>1 DEF Change!Init

\* Whatever adapter is in use, whatever the zone and the request are, and
\* however calls and reads go: no step of a mutation does to the zone what
\* RecordSetChange does not allow.  New records are written first, old ones are
\* removed only when all the new ones are served, no other record is touched,
\* and success is answered only when all of it is done.
THEOREM ImplementsChange == Spec => Implements
<1>1. Init => Change!Init
  BY ChangeInit
<1>2. Kept /\ Underway /\ [Next]_vars => [Change!Next]_(Change!vars)
  BY ChangeSteps
<1> QED
  BY <1>1, <1>2, AlwaysKept, AlwaysUnderway, PTL DEF Spec, Implements, Change!Spec

\* What RecordSetChange's own theorems say, said of a mutation.
Promise ==
  INSTANCE RecordSetChangeProofs WITH
    None <- <<>>,
    zone <- [id \in DOMAIN Served |-> Serves(Served[id])],
    change <- IF stage \in {"calls", "failed"} THEN [old |-> request.id, goal |-> Goal(plan)] ELSE <<>>,
    answer <- result.answer

\* At no time of a mutation, wherever it stops, has the zone lost a record of
\* the set while one that shall replace it is missing, unless someone else has
\* written or the list was old.
THEOREM NoGapInTheZone == Spec => []Promise!NoGap
<1>1. Promise!Spec => []Promise!NoGap
  BY Promise!NoGapAlways
<1>2. Implements => Promise!Spec
  BY DEF Implements, Change!Spec, Promise!Spec, Change!Init, Promise!Init, Change!Next, Promise!Next, Change!vars, Promise!vars,
     Change!Start, Promise!Start, Change!Refuse, Promise!Refuse, Change!Write, Promise!Write, Change!Remove, Promise!Remove,
     Change!Finish, Promise!Finish, Change!Interfere, Promise!Interfere, Change!Written, Promise!Written,
     Change!Complete, Promise!Complete
<1> QED
  BY <1>1, <1>2, ImplementsChange, PTL

---------------------------------------------------------------------------
(* What a mutation of a record set of Huawei Cloud asks for. *)

\* What the adapter makes sure of before it plans.
LEMMA HuaweiCreateChecks ==
  ASSUME NEW x, NEW sets, NEW y, y = P!Normalized(x), NEW p, p = Huawei!CreatePlan(x, sets, issued), Allowed(p)
  PROVE  ~ Huawei!Objection(y, NoStatus)
<1> DEFINE z == Huawei!Normalized(x)
           bad == ~ Huawei!Normalizable(x) \/ Huawei!Objection(z, NoStatus) \/ Huawei!CannotBeSent(z)
<1>1. ~ Allowed(Huawei!Refuse("validation"))
  BY DEF Huawei!Refuse, Allowed
<1>2. \E q : p = IF bad THEN Huawei!Refuse("validation") ELSE q
  BY Zenon DEF Huawei!CreatePlan, NoStatus
<1>3. ~ bad
  <2> HIDE DEF bad
  <2> QED BY <1>1, <1>2
<1>4. z = y
  BY SameRequest
<1> QED
  BY <1>3, <1>4, Zenon

LEMMA HuaweiUpdateChecks ==
  ASSUME NEW x, NEW set, NEW sets, NEW y, y = P!Normalized(x), NEW p, p = Huawei!UpdatePlan(x, set, sets, issued),
         Allowed(p)
  PROVE  /\ ~ Huawei!Objection(y, Huawei!StatusOf(set))
         /\ ~ Huawei!LineChanges(Huawei!RoutingOf(set), Huawei!RoutingOf(y))
<1> DEFINE z == Huawei!Normalized(x)
           default == set.ext.default # None
           bad == ~ Huawei!Normalizable(x) \/ Huawei!Objection(z, Huawei!StatusOf(set))
           now == Huawei!RoutingOf(set)
           id == HuaweiIDOf(set)
           moves == Huawei!LineChanges(now, Huawei!RoutingOf(z))
           q == IF Huawei!CannotBeSent(z) THEN Huawei!Refuse("validation")
                ELSE Huawei!Mutate(HuaweiUpdateCalls(id, set, z, now), z.entries,
                                   Huawei!KeyFor(id, z, HuaweiLineOf(now)), "", {})
<1>1. ~ Allowed(Huawei!Refuse("validation")) /\ ~ Allowed(Huawei!Refuse("unsupported"))
  BY DEF Huawei!Refuse, Allowed
<1>2. p = IF default THEN Huawei!Refuse("unsupported") ELSE IF bad THEN Huawei!Refuse("validation")
          ELSE IF moves THEN Huawei!Refuse("unsupported") ELSE q
  BY Zenon DEF Huawei!UpdatePlan, HuaweiUpdateCalls, HuaweiSwitches, HuaweiSwitch, HuaweiChanged, HuaweiFields, OneCall,
               HuaweiLineOf, HuaweiIDOf
<1>3. ~ bad /\ ~ moves
  <2> HIDE DEF default, bad, moves, q
  <2> QED BY <1>1, <1>2
<1>4. z = y
  BY SameRequest
<1> QED
  BY <1>3, <1>4, Zenon

\* All the entries have the same routing, and the status is one the provider
\* can be asked for.
LEMMA HuaweiOneRouting ==
  ASSUME adapter = "huawei", NEW y, EntriesOK(y.type, y.entries), NEW status, ~ Huawei!Objection(y, status)
  PROVE  /\ \A i \in DOMAIN y.entries : y.entries[i].ext = Huawei!RoutingOf(y)
         /\ Huawei!RoutingOf(y) \in Routing \cup {None}
         /\ Huawei!StatusOf(y) \in {NoStatus, status, "ENABLE", "DISABLE"}
<1> DEFINE es == y.entries
           S == Huawei!Routings(y)
           f == [i \in DOMAIN es |-> es[i].ext]
<1>1. DOMAIN es = 1..Len(es) /\ Len(es) \in Nat
  BY SeqFacts DEF EntriesOK
<1>2. ~ Many(Cardinality(S))
  <2>1. ~ (Huawei!Cardinality(Huawei!Routings(y)) > 1)
    BY PTL DEF Huawei!Objection
  <2>2. ~ Many(Huawei!Cardinality(S))
    BY <2>1, Zenon DEF Many
  <2> QED BY <2>2, SameCardinality, Zenon
<1>3. \A s : s \in S <=> \E i \in DOMAIN es : s = es[i].ext
  BY Zenon DEF Huawei!Routings
<1>4. \A s, t \in S : s = t
  <2> DEFINE n == Len(es)
  <2>1. n \in Nat /\ \A s \in S : \E i \in 1..n : s = f[i]
    BY <1>1, <1>3
  <2> HIDE DEF S, f, es, n
  <2> QED BY <1>2, <2>1, AtMostOne
<1>5. Huawei!RoutingOf(y) \in Routing \cup {None} /\ \E i \in DOMAIN es : Huawei!RoutingOf(y) = es[i].ext
  BY HuaweiRouting
<1>6. \A i \in DOMAIN es : es[i].ext = Huawei!RoutingOf(y)
  <2>1. Huawei!RoutingOf(y) \in S /\ \A i \in DOMAIN es : es[i].ext \in S
    BY <1>3, <1>5, Zenon
  <2> HIDE DEF S
  <2> QED BY <1>4, <2>1
<1>7. ~ (Huawei!StatusOf(y) \notin {"", status, "ENABLE", "DISABLE"})
  BY PTL DEF Huawei!Objection
<1> QED
  BY <1>5, <1>6, <1>7, Zenon DEF NoStatus

\* The status that a set shows while nothing is pending.
SwitchedTo(enabled) == IF enabled THEN "ENABLE" ELSE "DISABLE"

\* A set of the provider is what the request asks for, whatever is pending.
RoutedAs(line, weight, wanted) ==
  wanted # None => (wanted.line = NoLine \/ line = wanted.line) /\ (wanted.weight = None \/ weight = wanted.weight)
SwitchedAs(enabled, x) == x.ext # None => x.ext.status \in {NoStatus, SwitchedTo(enabled)}
HoldsValues(r, x) ==
  /\ r.name = x.name /\ r.type = x.type /\ r.ttl = x.ttl
  /\ DOMAIN r.values = DOMAIN x.entries
  /\ \A i \in DOMAIN x.entries :
       /\ r.values[i].text.word = x.entries[i].text.word /\ r.values[i].num = x.entries[i].num
       /\ RoutedAs(r.line, r.weight, x.entries[i].ext)
HuaweiFits(r, x) == HoldsValues(r, x) /\ SwitchedAs(r.enabled, x)

LEMMA SameHolding ==
  ASSUME NEW r, NEW s, s.name = r.name, s.type = r.type, s.ttl = r.ttl, s.values = r.values, s.line = r.line,
         s.weight = r.weight, NEW x, HoldsValues(r, x)
  PROVE  HoldsValues(s, x)
BY DEF HoldsValues

LEMMA ValuesAre ==
  ASSUME NEW y, NEW values, values = Huawei!Values(y)
  PROVE  /\ DOMAIN values = DOMAIN y.entries
         /\ \A i \in DOMAIN y.entries :
              values[i].text.word = y.entries[i].text.word /\ values[i].num = y.entries[i].num
<1>1. values = [i \in DOMAIN y.entries |->
                  [text |-> IF y.type \in {"TXT", "CAA"} THEN Huawei!Quoted(y.entries[i].text) ELSE y.entries[i].text,
                   num |-> y.entries[i].num]]
  BY Zenon DEF Huawei!Values
<1>2. ASSUME NEW i \in DOMAIN y.entries
      PROVE  values[i].text.word = y.entries[i].text.word /\ values[i].num = y.entries[i].num
  <2> DEFINE e == y.entries[i]
             v == values[i]
             type == y.type
  <2>1. v = [text |-> IF type \in {"TXT", "CAA"} THEN Huawei!Quoted(e.text) ELSE e.text, num |-> e.num]
    BY <1>1
  <2> HIDE DEF v, e, type
  <2>2. v.text.word = e.text.word /\ v.num = e.num
    BY <2>1, HuaweiValue
  <2> QED BY <2>2 DEF v, e
<1> QED
  BY <1>1, <1>2

\* The set that holds the values of the input, under a routing that fits.
LEMMA Holding ==
  ASSUME NEW x, InputOK(x), NEW y, y = P!Normalized(x), NEW r, r.name = y.name, r.type = y.type, r.ttl = y.ttl,
         r.values = Huawei!Values(y), NEW routing, \A i \in DOMAIN y.entries : y.entries[i].ext = routing,
         RoutedAs(r.line, r.weight, routing)
  PROVE  HoldsValues(r, x)
<1>1. /\ y.name = x.name /\ y.type = x.type /\ y.ttl = x.ttl /\ DOMAIN y.entries = DOMAIN x.entries
      /\ \A i \in DOMAIN x.entries :
           /\ y.entries[i].text.word = x.entries[i].text.word /\ y.entries[i].num = x.entries[i].num
           /\ y.entries[i].ext = x.entries[i].ext
  BY NormalizedInput
<1> DEFINE values == r.values
<1>2. values = Huawei!Values(y)
  OBVIOUS
<1> HIDE DEF values
<1>3. /\ DOMAIN values = DOMAIN y.entries
      /\ \A i \in DOMAIN y.entries :
           values[i].text.word = y.entries[i].text.word /\ values[i].num = y.entries[i].num
  BY <1>2, ValuesAre
<1> QED
  BY <1>1, <1>3 DEF HoldsValues, values

LEMMA MergedWeights ==
  ASSUME NEW now, NEW wanted, wanted # None, wanted.weight # None
  PROVE  Huawei!MergedWeight(now, wanted) = wanted.weight
BY Zenon DEF Huawei!MergedWeight

\* What a creation adds.
LEMMA HuaweiNewFits ==
  ASSUME adapter = "huawei", NEW x, InputOK(x), NEW y, y = P!Normalized(x), ~ Huawei!Objection(y, NoStatus),
         NEW routing, routing = Huawei!RoutingOf(y), NEW w, w = HuaweiNew(y, routing)
  PROVE  HuaweiFits(w, x)
<1> DEFINE values == Huawei!Values(y)
           line == HuaweiLineOf(routing)
           weight == Huawei!MergedWeight(None, routing)
           enabled == Huawei!StatusOf(y) # "DISABLE"
           status == Huawei!StatusOf(y)
<1>1. w = [name |-> y.name, type |-> y.type, ttl |-> y.ttl, values |-> values, line |-> line, weight |-> weight,
           enabled |-> enabled, phase |-> "PENDING_CREATE", system |-> FALSE]
  BY Zenon DEF HuaweiNew
<1>2. y.type = x.type /\ EntriesOK(x.type, y.entries) /\ y.ext = x.ext
  BY NormalizedInput
<1>3. /\ \A i \in DOMAIN y.entries : y.entries[i].ext = routing
      /\ status \in {NoStatus, "ENABLE", "DISABLE"}
  BY <1>2, HuaweiOneRouting
<1>4. RoutedAs(line, weight, routing)
  <2>1. routing # None => line = routing.line
    BY Zenon DEF HuaweiLineOf
  <2> HIDE DEF line
  <2> QED BY <2>1, MergedWeights, Zenon DEF RoutedAs
<1>5. SwitchedAs(enabled, x)
  <2>1. x.ext # None => status = x.ext.status
    BY <1>2, Zenon DEF Huawei!StatusOf
  <2>2. status = "DISABLE" => SwitchedTo(enabled) = "DISABLE"
    BY Zenon DEF SwitchedTo
  <2>3. status = "ENABLE" => SwitchedTo(enabled) = "ENABLE"
    <3>1. "ENABLE" # "DISABLE"
      OBVIOUS
    <3> QED BY <3>1, Zenon DEF SwitchedTo
  <2> HIDE DEF status, enabled
  <2> QED BY <1>3, <2>1, <2>2, <2>3, Zenon DEF SwitchedAs
<1> HIDE DEF values, line, weight, enabled, status
<1>6. /\ w.name = y.name /\ w.type = y.type /\ w.ttl = y.ttl /\ w.values = values /\ w.line = line
      /\ w.weight = weight
  BY <1>1
<1>7. w.enabled = enabled
  BY <1>1
<1>8. HoldsValues(w, x)
  <2>1. w.values = Huawei!Values(y)
    BY <1>6 DEF values
  <2>2. RoutedAs(w.line, w.weight, routing)
    BY <1>4, <1>6
  <2> QED BY <1>3, <1>6, <2>1, <2>2, Holding
<1>9. SwitchedAs(w.enabled, x)
  BY <1>5, <1>7, Zenon
<1> QED
  BY <1>8, <1>9, Zenon DEF HuaweiFits

\* What an update writes of the weight, and what it does not write.
LEMMA HuaweiBodyKeeps ==
  ASSUME NEW y, NEW values, NEW weight, NEW f,
         f = [name |-> y.name, type |-> y.type, ttl |-> y.ttl, values |-> values, phase |-> "PENDING_UPDATE"],
         NEW b, b = IF weight = None THEN f ELSE Huawei!WithField(f, "weight", weight)
  PROVE  /\ b.values = values /\ {"line", "enabled"} \cap DOMAIN b = {}
         /\ weight # None => "weight" \in DOMAIN b /\ b.weight = weight
BY DEF Huawei!WithField

LEMMA HuaweiChangedFields ==
  ASSUME NEW y, NEW now, NEW w, w = HuaweiChanged(y, now), NEW weight,
         weight = Huawei!MergedWeight(now, Huawei!RoutingOf(y))
  PROVE  /\ w.name = y.name /\ w.type = y.type /\ w.ttl = y.ttl /\ w.values = Huawei!Values(y)
         /\ {"name", "type", "ttl", "values"} \subseteq DOMAIN w
         /\ {"line", "enabled"} \cap DOMAIN w = {}
         /\ weight # None => "weight" \in DOMAIN w /\ w.weight = weight
<1> DEFINE values == Huawei!Values(y)
           f == [name |-> y.name, type |-> y.type, ttl |-> y.ttl, values |-> values, phase |-> "PENDING_UPDATE"]
<1>1. w = IF weight = None THEN f ELSE Huawei!WithField(f, "weight", weight)
  BY Zenon DEF HuaweiChanged, HuaweiFields
<1>2. f = [name |-> y.name, type |-> y.type, ttl |-> y.ttl, values |-> values, phase |-> "PENDING_UPDATE"]
  OBVIOUS
<1> HIDE DEF values, f
<1>3. /\ w.name = y.name /\ w.type = y.type /\ w.ttl = y.ttl
      /\ {"name", "type", "ttl", "values", "phase"} \subseteq DOMAIN w
  BY <1>1, <1>2, HuaweiBody
<1>4. /\ w.values = values /\ {"line", "enabled"} \cap DOMAIN w = {}
      /\ weight # None => "weight" \in DOMAIN w /\ w.weight = weight
  BY <1>1, <1>2, HuaweiBodyKeeps
<1> QED
  BY <1>3, <1>4 DEF values

\* A record set that an update has written.
LEMMA HuaweiChangeHolds ==
  ASSUME adapter = "huawei", NEW x, InputOK(x), NEW y, y = P!Normalized(x), NEW status, ~ Huawei!Objection(y, status),
         NEW now, ~ Huawei!LineChanges(now, Huawei!RoutingOf(y)), NEW w, w = HuaweiChanged(y, now),
         NEW r, RecordOK(adapter, r), r.line = HuaweiLineOf(now), NEW new, new = P!Overlay(w, r)
  PROVE  HoldsValues(new, x) /\ new.enabled = r.enabled
<1> DEFINE routing == Huawei!RoutingOf(y)
           weight == Huawei!MergedWeight(now, routing)
<1>1. DOMAIN r = {"name", "type", "ttl", "values", "line", "weight", "enabled", "phase", "system"}
  BY DEF RecordOK, RecordFields
<1>2. /\ w.name = y.name /\ w.type = y.type /\ w.ttl = y.ttl /\ w.values = Huawei!Values(y)
      /\ {"name", "type", "ttl", "values"} \subseteq DOMAIN w
      /\ {"line", "enabled"} \cap DOMAIN w = {}
      /\ weight # None => "weight" \in DOMAIN w /\ w.weight = weight
  <2>1. weight = Huawei!MergedWeight(now, Huawei!RoutingOf(y))
    OBVIOUS
  <2> HIDE DEF weight
  <2> QED BY <2>1, HuaweiChangedFields
<1>3. \A f \in DOMAIN r : new[f] = IF f \in DOMAIN w THEN w[f] ELSE r[f]
  BY OverlayFields
<1>4. y.type = x.type /\ EntriesOK(x.type, y.entries)
  BY NormalizedInput
<1>5. \A i \in DOMAIN y.entries : y.entries[i].ext = routing
  BY <1>4, HuaweiOneRouting
<1>6. routing # None => routing.line = NoLine \/ HuaweiLineOf(now) = routing.line
  BY Zenon DEF Huawei!LineChanges, HuaweiLineOf, NoLine
<1>7. routing # None /\ routing.weight # None => weight = routing.weight
  BY MergedWeights
<1> HIDE DEF weight, routing
<1>8. /\ new.name = y.name /\ new.type = y.type /\ new.ttl = y.ttl /\ new.values = Huawei!Values(y)
      /\ new.line = r.line /\ (weight # None => new.weight = weight)
  BY <1>1, <1>2, <1>3
<1>9. new.enabled = r.enabled
  <2>1. "enabled" \in DOMAIN r /\ "enabled" \notin DOMAIN w
    BY <1>1, <1>2
  <2> QED BY <2>1, <1>3, Zenon
<1>10. RoutedAs(new.line, new.weight, routing)
  <2>1. routing # None /\ routing.weight # None => new.weight = routing.weight
    BY <1>7, <1>8
  <2> QED BY <1>6, <1>8, <2>1, Zenon DEF RoutedAs
<1>11. HoldsValues(new, x)
  BY <1>5, <1>8, <1>10, Holding
<1> QED
  BY <1>9, <1>11, Zenon

\* And switched.
LEMMA HuaweiSwitchHolds ==
  ASSUME NEW x, NEW status, NEW w, w = HuaweiSwitch(status), NEW r, RecordOK("huawei", r), HoldsValues(r, x),
         status \in {"ENABLE", "DISABLE"}, x.ext # None => x.ext.status = status,
         NEW new, new = P!Overlay(w, r)
  PROVE  HuaweiFits(new, x)
<1> DEFINE enabled == status = "ENABLE"
           phase == IF status = "ENABLE" THEN "PENDING_ENABLE" ELSE "PENDING_DISABLE"
<1>1. w = [enabled |-> enabled, phase |-> phase]
  BY Zenon DEF HuaweiSwitch
<1>2. DOMAIN r = {"name", "type", "ttl", "values", "line", "weight", "enabled", "phase", "system"}
  BY DEF RecordOK, RecordFields
<1>3. \A f \in DOMAIN r : new[f] = IF f \in DOMAIN w THEN w[f] ELSE r[f]
  BY OverlayFields
<1>4. SwitchedAs(enabled, x)
  <2>1. status = "DISABLE" => SwitchedTo(enabled) = "DISABLE"
    <3>1. "ENABLE" # "DISABLE"
      OBVIOUS
    <3> QED BY <3>1, Zenon DEF SwitchedTo
  <2>2. status = "ENABLE" => SwitchedTo(enabled) = "ENABLE"
    BY Zenon DEF SwitchedTo
  <2> HIDE DEF enabled
  <2> QED BY <2>1, <2>2, Zenon DEF SwitchedAs
<1> HIDE DEF enabled, phase
<1>5. DOMAIN w = {"enabled", "phase"} /\ w.enabled = enabled
  BY <1>1
<1>6. /\ new.name = r.name /\ new.type = r.type /\ new.ttl = r.ttl /\ new.values = r.values
      /\ new.line = r.line /\ new.weight = r.weight
  BY <1>2, <1>3, <1>5
<1>7. new.enabled = enabled
  <2>1. "enabled" \in DOMAIN r /\ "enabled" \in DOMAIN w
    BY <1>2, <1>5
  <2> QED BY <2>1, <1>3, <1>5, Zenon
<1>8. HoldsValues(new, x)
  BY <1>6, SameHolding
<1>9. SwitchedAs(new.enabled, x)
  BY <1>4, <1>7, Zenon
<1> QED
  BY <1>8, <1>9, Zenon DEF HuaweiFits

\* The calls that are left of a plan make the set, as it is in the zone, what
\* the request asks for.
HuaweiAims(p, zone, x) ==
  LET id == p.key.id IN
  \/ p.calls = <<>> /\ (id \in DOMAIN zone => HuaweiFits(zone[id], x))
  \/ \E c : p.calls = <<c>> /\ c.id = id /\ c.op = "add" /\ HuaweiFits(c.with, x)
  \/ \E c : /\ p.calls = <<c>> /\ c.id = id /\ c.op = "set"
            /\ id \in DOMAIN zone => HuaweiFits(P!Overlay(c.with, zone[id]), x)
  \/ \E c, d : /\ p.calls = <<c, d>> /\ c.id = id /\ c.op = "set" /\ d.id = id /\ d.op = "set"
               /\ id \in DOMAIN zone => HuaweiFits(P!Overlay(d.with, P!Overlay(c.with, zone[id])), x)

LEMMA HuaweiCreateAims ==
  ASSUME adapter = "huawei", NEW x, InputOK(x), ~ Huawei!Objection(P!Normalized(x), NoStatus), NEW p,
         HuaweiCreation(p, x), NEW zone
  PROVE  HuaweiAims(p, zone, x)
<1> DEFINE y == P!Normalized(x)
           routing == Huawei!RoutingOf(y)
           w == HuaweiNew(y, routing)
           calls == OneCall("add", NextID, w)
           key == Huawei!KeyFor(NextID, y, HuaweiLineOf(routing))
           es == y.entries
<1>1. p = P!Mutate(calls, es, key, NoStatus, {})
  BY Zenon DEF HuaweiCreation
<1>2. HuaweiFits(w, x)
  BY HuaweiNewFits
<1>3. PICK c : calls = <<c>> /\ c.op = "add" /\ c.id = NextID /\ c.with = w
  BY OneCallFacts
<1>4. key.id = NextID
  BY HuaweiKey
<1> HIDE DEF w, calls, key, es
<1>5. p.calls = calls /\ p.key = key
  BY <1>1, PlanFields
<1> QED
  BY <1>2, <1>3, <1>4, <1>5, Zenon DEF HuaweiAims

\* What a set at rest shows of its status: none where the provider has stopped.
LEMMA RestingShows ==
  ASSUME NEW r, r.phase \in Phases \ Huawei!Pendings
  PROVE  /\ Huawei!ShownStatus(r) \in {NoStatus, SwitchedTo(r.enabled)}
         /\ r.phase = NoStatus => Huawei!ShownStatus(r) = SwitchedTo(r.enabled)
         /\ r.phase # NoStatus => Huawei!ProviderStatus(r) \in Huawei!Stops
<1>1. r.phase = NoStatus \/ r.phase \in Huawei!Stops
  BY DEF Phases, NoStatus
<1>2. CASE r.phase = NoStatus
  <2> DEFINE phase == r.phase
             enabled == r.enabled
             provider == IF enabled THEN "ACTIVE" ELSE "DISABLE"
             shown == IF provider \in {"DISABLE", "PENDING_DISABLE"} THEN "DISABLE"
                      ELSE IF provider = "ACTIVE" THEN "ENABLE" ELSE ""
  <2>1. Huawei!ProviderStatus(r) = provider
    BY <1>2, Zenon DEF Huawei!ProviderStatus, NoStatus
  <2>2. Huawei!ShownStatus(r) = shown
    <3> HIDE DEF provider
    <3> QED BY <2>1, Zenon DEF Huawei!ShownStatus
  <2>3. shown = SwitchedTo(enabled)
    BY DEF SwitchedTo
  <2> QED BY <1>2, <2>2, <2>3, Zenon
<1>3. CASE r.phase \in Huawei!Stops
  <2>1. Huawei!ProviderStatus(r) = r.phase /\ r.phase # NoStatus
    <3>1. r.phase # ""
      BY <1>3 DEF Huawei!Stops
    <3> QED BY <3>1, Zenon DEF Huawei!ProviderStatus, NoStatus
  <2>2. r.phase \notin {"DISABLE", "PENDING_DISABLE"} /\ r.phase # "ACTIVE"
    BY <1>3 DEF Huawei!Stops
  <2>3. Huawei!ShownStatus(r) = NoStatus
    BY <2>1, <2>2, Zenon DEF Huawei!ShownStatus, NoStatus
  <2> QED BY <1>3, <2>1, <2>3, Zenon
<1> QED
  BY <1>1, <1>2, <1>3

LEMMA RawShows ==
  ASSUME NEW id, NEW r
  PROVE  Huawei!RawSet(id, r).ext.status = Huawei!ShownStatus(r)
<1> DEFINE status == Huawei!ShownStatus(r)
           provider == Huawei!ProviderStatus(r)
           default == IF r.system THEN TRUE ELSE None
           entries == Huawei!EntriesOf(r)
           ext == [status |-> status, provider |-> provider, default |-> default]
<1>1. Huawei!RawSet(id, r) =
        [id |-> {id}, name |-> r.name, type |-> r.type, ttl |-> r.ttl, entries |-> entries, ext |-> ext, fingerprint |-> None]
  BY Zenon DEF Huawei!RawSet
<1>2. ext.status = status
  OBVIOUS
<1> HIDE DEF entries, ext, status
<1>3. Huawei!RawSet(id, r).ext = ext
  BY <1>1
<1> QED
  BY <1>2, <1>3 DEF status

\* The status that an update compares with.
LEMMA CurrentStatus ==
  ASSUME NEW view, NEW id, view[id].phase \in Phases \ Huawei!Pendings, NEW set, HuaweiLists(set, view, id)
  PROVE  Huawei!StatusOf(set) \in {NoStatus, SwitchedTo(view[id].enabled)}
<1>1. set.ext.status \in {NoStatus, SwitchedTo(view[id].enabled)}
  <2> DEFINE r == view[id]
  <2>1. set.ext = Huawei!RawSet(id, r).ext /\ r.phase \in Phases \ Huawei!Pendings
    BY DEF HuaweiLists
  <2> HIDE DEF r
  <2>2. /\ Huawei!ShownStatus(r) \in {NoStatus, SwitchedTo(r.enabled)}
        /\ Huawei!RawSet(id, r).ext.status = Huawei!ShownStatus(r)
    BY <2>1, RestingShows, RawShows
  <2>3. set.ext.status \in {NoStatus, SwitchedTo(r.enabled)}
    BY <2>1, <2>2, Zenon
  <2> QED BY <2>3 DEF r
<1> QED
  BY <1>1, Zenon DEF Huawei!StatusOf, NoStatus

\* The calls of an update, of a set at rest.
LEMMA HuaweiSwitchesAim ==
  ASSUME NEW x, NEW y, y.ext = x.ext, NEW set, NEW id, NEW r, RecordOK("huawei", r), HoldsValues(r, x),
         Huawei!StatusOf(set) \in {NoStatus, SwitchedTo(r.enabled)},
         Huawei!StatusOf(y) \in {NoStatus, Huawei!StatusOf(set), "ENABLE", "DISABLE"},
         NEW s, s = HuaweiSwitches(id, set, y)
  PROVE  \/ s = <<>> /\ HuaweiFits(r, x)
         \/ \E d : s = <<d>> /\ d.op = "set" /\ d.id = id /\ HuaweiFits(P!Overlay(d.with, r), x)
<1> DEFINE status == Huawei!StatusOf(y)
           current == Huawei!StatusOf(set)
           w == HuaweiSwitch(status)
           one == OneCall("set", id, w)
<1>1. s = IF status \in {"ENABLE", "DISABLE"} /\ status # current THEN one ELSE <<>>
  BY Zenon DEF HuaweiSwitches, Huawei!ShouldSetStatus
<1>2. x.ext # None => x.ext.status = status
  BY Zenon DEF Huawei!StatusOf
<1> HIDE DEF status, current
<1>3. PICK d : one = <<d>> /\ d.op = "set" /\ d.id = id /\ d.with = w
  BY OneCallFacts
<1>4. CASE status \in {"ENABLE", "DISABLE"} /\ status # current
  <2>1. HuaweiFits(P!Overlay(w, r), x)
    BY <1>2, <1>4, HuaweiSwitchHolds
  <2> HIDE DEF one, w
  <2> QED BY <1>1, <1>3, <1>4, <2>1, Zenon
<1>5. CASE ~ (status \in {"ENABLE", "DISABLE"} /\ status # current)
  <2>1. status \in {NoStatus, SwitchedTo(r.enabled)}
    BY <1>5, Zenon DEF status, current
  <2>2. HuaweiFits(r, x)
    BY <1>2, <2>1, Zenon DEF HuaweiFits, SwitchedAs
  <2> HIDE DEF one
  <2> QED BY <1>1, <1>5, <2>2, Zenon
<1> QED
  BY <1>4, <1>5, Zenon

LEMMA HuaweiChangeAims ==
  ASSUME adapter = "huawei", NEW view, ViewOK(view), NEW set, SetOK(set), NEW vid, HuaweiLists(set, view, vid),
         view[vid].phase \notin Huawei!Pendings, NEW x, InputOK(x), NEW y, y = P!Normalized(x),
         ~ Huawei!Objection(y, Huawei!StatusOf(set)), ~ Huawei!LineChanges(Huawei!RoutingOf(set), Huawei!RoutingOf(y)),
         NEW p, HuaweiChange(p, x, set)
  PROVE  HuaweiAims(p, view, x) /\ p.key.id = vid
<1> DEFINE now == Huawei!RoutingOf(set)
           id == HuaweiIDOf(set)
           r == view[vid]
           w == HuaweiChanged(y, now)
           one == OneCall("set", id, w)
           s == HuaweiSwitches(id, set, y)
           calls == HuaweiUpdateCalls(id, set, y, now)
           key == Huawei!KeyFor(id, y, HuaweiLineOf(now))
           es == y.entries
           new == P!Overlay(w, r)
<1>1. p = P!Mutate(calls, es, key, NoStatus, {})
  BY Zenon DEF HuaweiChange
<1>2. id = vid /\ vid \in DOMAIN view
  BY DEF HuaweiIDOf, HuaweiLists
<1>3. RecordOK(adapter, r)
  BY <1>2 DEF ViewOK
<1>4. r.line = HuaweiLineOf(now)
  BY HuaweiListedLine
<1>5. HoldsValues(new, x) /\ new.enabled = r.enabled
  <2> HIDE DEF r, w, new, now
  <2>1. /\ w = HuaweiChanged(y, now) /\ new = P!Overlay(w, r) /\ ~ Huawei!LineChanges(now, Huawei!RoutingOf(y))
    BY Zenon DEF w, new, now
  <2> QED BY <1>3, <1>4, <2>1, HuaweiChangeHolds
<1>6. RecordOK("huawei", new)
  <2> HIDE DEF r, w, new, now
  <2>1. now \in Routing \cup {None}
    BY HuaweiRouting DEF SetOK, now
  <2>2. /\ w.phase \in Phases /\ ValuesOK(w.values) /\ "line" \notin DOMAIN w
        /\ "weight" \in DOMAIN w => w.weight \in Weights
    <3>1. y.type = x.type /\ EntriesOK(x.type, y.entries)
      BY NormalizedInput
    <3>2. w = HuaweiChanged(y, now)
      BY DEF w
    <3> QED BY <2>1, <3>1, <3>2, HuaweiChangedOK
  <2>3. DOMAIN new = DOMAIN r /\ \A f \in DOMAIN r : new[f] = IF f \in DOMAIN w THEN w[f] ELSE r[f]
    BY OverlayFields DEF new
  <2> QED BY <1>3, <2>2, <2>3 DEF RecordOK, RecordFields
<1>7. Huawei!StatusOf(set) \in {NoStatus, SwitchedTo(r.enabled)}
  <2>1. r.phase \in Phases \ Huawei!Pendings
    BY <1>3 DEF RecordOK
  <2> QED BY <2>1, CurrentStatus
<1>8. y.ext = x.ext /\ y.type = x.type /\ EntriesOK(x.type, y.entries)
  BY NormalizedInput
<1>9. Huawei!StatusOf(y) \in {NoStatus, Huawei!StatusOf(set), "ENABLE", "DISABLE"}
  BY <1>8, HuaweiOneRouting
<1>10. \/ s = <<>> /\ HuaweiFits(new, x)
       \/ \E d : s = <<d>> /\ d.op = "set" /\ d.id = id /\ HuaweiFits(P!Overlay(d.with, new), x)
  <2>1. Huawei!StatusOf(set) \in {NoStatus, SwitchedTo(new.enabled)}
    BY <1>5, <1>7, Zenon
  <2>2. s = HuaweiSwitches(id, set, y)
    OBVIOUS
  <2> HIDE DEF s, new, id
  <2> QED BY <1>5, <1>6, <1>8, <1>9, <2>1, <2>2, HuaweiSwitchesAim
<1>11. PICK c : one = <<c>> /\ c.op = "set" /\ c.id = id /\ c.with = w
  BY OneCallFacts
<1>12. calls = one \o s
  BY DEF HuaweiUpdateCalls
<1>13. key.id = id
  BY HuaweiKey
<1>14. new = P!Overlay(c.with, r)
  BY <1>11
<1> HIDE DEF w, calls, key, es, one, s, new, id
<1>15. p.calls = calls /\ p.key = key
  BY <1>1, PlanFields
<1>16. p.key.id = vid
  BY <1>2, <1>13, <1>15
<1>17. CASE s = <<>> /\ HuaweiFits(new, x)
  <2>1. calls = <<c>>
    BY <1>11, <1>12, <1>17
  <2> QED BY <1>2, <1>11, <1>13, <1>14, <1>15, <1>16, <1>17, <2>1, Zenon DEF HuaweiAims
<1>18. ASSUME NEW d, s = <<d>>, d.op = "set", d.id = id, HuaweiFits(P!Overlay(d.with, new), x)
       PROVE  HuaweiAims(p, view, x)
  <2>1. calls = <<c, d>>
    BY <1>11, <1>12, <1>18, TwoCalls
  <2> QED BY <1>2, <1>11, <1>13, <1>14, <1>15, <1>16, <1>18, <2>1, Zenon DEF HuaweiAims
<1> QED
  BY <1>10, <1>16, <1>17, <1>18, Zenon

\* A last read of a set that nothing is pending of.
LEMMA HuaweiShown ==
  ASSUME adapter = "huawei", NEW view, ViewOK(view), Huawei!Readable(view), NEW p, NEW x, InputOK(x),
         p.key.id \in DOMAIN view => HuaweiFits(view[p.key.id], x), NEW set \in Huawei!FinalSets(p, Huawei!Sets(view))
  PROVE  Shows(set, x)
<1>1. set \in Huawei!Sets(view) /\ set.id = {p.key.id} /\ set.ext.provider \notin Huawei!Pendings
  BY DEF Huawei!FinalSets
<1>2. PICK id : HuaweiLists(set, view, id)
  BY <1>1, HuaweiSets
<1> DEFINE r == view[id]
<1>3. id = p.key.id /\ id \in DOMAIN view
  BY <1>1, <1>2 DEF HuaweiLists
<1>4. HoldsValues(r, x) /\ SwitchedAs(r.enabled, x)
  BY <1>3, Zenon DEF HuaweiFits
<1>5. RecordOK("huawei", r)
  BY <1>3 DEF ViewOK
<1>6. /\ set.name = r.name /\ set.type = r.type /\ set.ttl = r.ttl
      /\ set.ext = Huawei!RawSet(id, r).ext
      /\ DOMAIN set.entries = DOMAIN r.values
      /\ \A i \in DOMAIN r.values : set.entries[i] = P!NormalEntry(r.type, Huawei!EntriesOf(r)[i])
  BY <1>2 DEF HuaweiLists
<1> HIDE DEF r
<1>7. set.name = x.name /\ set.type = x.type /\ set.ttl = x.ttl /\ DOMAIN set.entries = DOMAIN x.entries
  BY <1>4, <1>6 DEF HoldsValues
<1>8. Len(set.entries) = Len(x.entries)
  <2>1. IsSeq(x.entries)
    BY DEF InputOK, EntriesOK
  <2>2. SetOK(set)
    BY <1>1, HuaweiSets
  <2>3. IsSeq(set.entries)
    BY <2>2 DEF SetOK, EntriesOK
  <2> QED BY <1>7, <2>1, <2>3 DEF IsSeq
<1>9. ASSUME NEW i \in DOMAIN x.entries
      PROVE  Asked(set.entries[i], x.entries[i])
  <2> DEFINE e == Huawei!EntriesOf(r)[i]
             n == P!NormalEntry(r.type, e)
             type == r.type
             wanted == x.entries[i]
             own == e.ext
             line == r.line
             weight == r.weight
  <2>1. i \in DOMAIN r.values
    BY <1>4 DEF HoldsValues
  <2>2. /\ e.text = r.values[i].text /\ e.num = r.values[i].num
        /\ own = IF line = NoLine /\ weight = None THEN None ELSE [line |-> line, weight |-> weight]
    <3>1. /\ e = [id |-> None, text |-> r.values[i].text, num |-> r.values[i].num, ext |-> own]
          /\ own = IF r.line = "" /\ r.weight = None THEN None ELSE [line |-> r.line, weight |-> r.weight]
      BY <1>5, <2>1, HuaweiEntries, Zenon
    <3>2. own = IF line = NoLine /\ weight = None THEN None ELSE [line |-> line, weight |-> weight]
      BY <3>1, Zenon DEF NoLine
    <3>3. e = [id |-> None, text |-> r.values[i].text, num |-> r.values[i].num, ext |-> own]
      BY <3>1, Zenon
    <3> HIDE DEF e, own, line, weight
    <3> QED BY <3>2, <3>3
  <2>3. RoutedAs(line, weight, wanted.ext) /\ r.values[i].text.word = wanted.text.word /\ r.values[i].num = wanted.num
    BY <1>4 DEF HoldsValues
  <2>4. n.ext = own /\ n.text.word = e.text.word /\ n.num = IF type \in {"CNAME", "NS"} THEN None ELSE e.num
    <3> HIDE DEF e
    <3> QED BY NormalEntryFacts
  <2>5. type \in {"CNAME", "NS"} => wanted.num = None
    <3>1. type = x.type
      BY <1>6, <1>7
    <3> QED BY <3>1 DEF InputOK, EntriesOK
  <2>6. wanted.ext \in Routing \cup {None}
    BY DEF InputOK, EntriesOK, EntryOK
  <2>7. set.entries[i] = n
    BY <1>6, <2>1
  <2>8. Fits(own, wanted.ext)
    <3> HIDE DEF own, wanted
    <3>1. CASE wanted.ext # None
      <4> DEFINE v == wanted.ext
      <4>1. v \in Routing
        BY <2>6, <3>1
      <4>2. v.line \in Lines /\ v.weight \in Weights /\ DOMAIN v = {"line", "weight"}
        BY <4>1 DEF Routing
      <4>3. (v.line = NoLine \/ line = v.line) /\ (v.weight = None \/ weight = v.weight)
        BY <2>3, <3>1 DEF RoutedAs
      <4>4. CASE own = [line |-> line, weight |-> weight]
        <5> HIDE DEF v, line, weight
        <5>1. own.line = line /\ own.weight = weight
          BY <4>4
        <5>2. Fits(own, v)
          BY <4>2, <4>3, <5>1 DEF Fits
        <5> QED BY <5>2 DEF v
      <4>5. CASE line = NoLine /\ weight = None
        <5> HIDE DEF v, line, weight
        <5>1. v.line = NoLine /\ v.weight = None
          BY <4>3, <4>5
        <5>2. Fits(own, v)
          BY <4>2, <5>1 DEF Fits
        <5> QED BY <5>2 DEF v
      <4> QED BY <2>2, <4>4, <4>5, Zenon
    <3> QED BY <3>1 DEF Fits
  <2> HIDE DEF n, e, own, wanted, type
  <2>9. Asked(n, wanted)
    BY <2>2, <2>3, <2>4, <2>5, <2>8, AskedParts
  <2> QED BY <2>7, <2>9 DEF wanted
<1>10. StatusFits(x, set.ext.status) \/ set.ext.provider \in Huawei!Stops
  <2>1. set.ext.provider = Huawei!ProviderStatus(r) /\ set.ext.status = Huawei!ShownStatus(r)
    BY <1>6, RawStatus, RawShows
  <2>2. r.phase \in Phases \ Huawei!Pendings
    BY <1>1, <1>5, <2>1, RestingStatus DEF RecordOK
  <2>3. CASE r.phase = NoStatus
    <3>1. set.ext.status = SwitchedTo(r.enabled)
      BY <2>1, <2>2, <2>3, RestingShows
    <3> QED BY <1>4, <3>1, Zenon DEF StatusFits, SwitchedAs
  <2>4. CASE r.phase # NoStatus
    BY <2>1, <2>2, <2>4, RestingShows
  <2> QED BY <2>3, <2>4
<1>11. \A i \in DOMAIN x.entries : \E j \in DOMAIN set.entries : Asked(set.entries[j], x.entries[i])
  BY <1>7, <1>9
<1>12. adapter # "cloudflare"
  OBVIOUS
<1> QED
  BY <1>7, <1>8, <1>10, <1>11, <1>12, Zenon DEF Shows

\* The same record, but for its phase.
Alike(r, s) == DOMAIN s = DOMAIN r /\ \A f \in DOMAIN r : f # "phase" => s[f] = r[f]

LEMMA AlikeFits ==
  ASSUME NEW r, DOMAIN r = RecordFields.huawei, NEW s, Alike(r, s), NEW x, HuaweiFits(r, x)
  PROVE  HuaweiFits(s, x)
<1>1. DOMAIN r = {"name", "type", "ttl", "values", "line", "weight", "enabled", "phase", "system"}
  BY DEF RecordFields
<1>2. /\ s.name = r.name /\ s.type = r.type /\ s.ttl = r.ttl /\ s.values = r.values /\ s.line = r.line
      /\ s.weight = r.weight
  BY <1>1 DEF Alike
<1>3. s.enabled = r.enabled
  <2>1. "enabled" \in DOMAIN r /\ "enabled" # "phase"
    BY <1>1
  <2> QED BY <2>1, Zenon DEF Alike
<1>4. HoldsValues(r, x) /\ SwitchedAs(r.enabled, x)
  BY Zenon DEF HuaweiFits
<1>5. HoldsValues(s, x)
  BY <1>2, <1>4, SameHolding
<1> QED
  BY <1>3, <1>4, <1>5, Zenon DEF HuaweiFits

LEMMA AlikeOverlay ==
  ASSUME NEW w, NEW r, NEW s, Alike(r, s), NEW a, a = P!Overlay(w, r), NEW b, b = P!Overlay(w, s)
  PROVE  Alike(a, b) /\ DOMAIN a = DOMAIN r
<1>1. DOMAIN a = DOMAIN r /\ \A f \in DOMAIN r : a[f] = IF f \in DOMAIN w THEN w[f] ELSE r[f]
  BY OverlayFields
<1>2. DOMAIN b = DOMAIN s /\ \A f \in DOMAIN s : b[f] = IF f \in DOMAIN w THEN w[f] ELSE s[f]
  BY OverlayFields
<1>3. Alike(a, b)
  BY <1>1, <1>2, Zenon DEF Alike
<1> QED
  BY <1>1, <1>3, Zenon

LEMMA RestedAlike ==
  ASSUME NEW r
  PROVE  Alike(r, Rested(r)) /\ Alike(r, r) /\ \A phase : Alike(r, InPhase(r, phase))
BY DEF Alike, Rested, InPhase

\* What is left to do of a set, of which the zone shows something else now.
LEMMA AimsAlike ==
  ASSUME NEW p, NEW zone, NEW x, HuaweiAims(p, zone, x), NEW new, NEW id, id = p.key.id,
         id \in DOMAIN new => id \in DOMAIN zone /\ Alike(zone[id], new[id]) /\ DOMAIN zone[id] = RecordFields.huawei
  PROVE  HuaweiAims(p, new, x)
<1> DEFINE r == zone[id]
           s == new[id]
<1>1. CASE p.calls = <<>> /\ (id \in DOMAIN zone => HuaweiFits(r, x))
  <2>1. id \in DOMAIN new => HuaweiFits(s, x)
    <3> HIDE DEF r, s
    <3>1. id \in DOMAIN new => id \in DOMAIN zone /\ Alike(r, s) /\ DOMAIN r = RecordFields.huawei
      BY DEF r, s
    <3> QED BY <1>1, <3>1, AlikeFits
  <2> QED BY <1>1, <2>1, Zenon DEF HuaweiAims
<1>2. ASSUME NEW c, p.calls = <<c>>, c.id = id, c.op = "add", HuaweiFits(c.with, x)
      PROVE  HuaweiAims(p, new, x)
  BY <1>2, Zenon DEF HuaweiAims
<1>3. ASSUME NEW c, p.calls = <<c>>, c.id = id, c.op = "set", id \in DOMAIN zone => HuaweiFits(P!Overlay(c.with, r), x)
      PROVE  HuaweiAims(p, new, x)
  <2> DEFINE w == c.with
             a == P!Overlay(w, r)
             b == P!Overlay(w, s)
  <2>1. id \in DOMAIN new => HuaweiFits(b, x)
    <3> HIDE DEF r, s, w
    <3>1. id \in DOMAIN new => id \in DOMAIN zone /\ Alike(r, s) /\ DOMAIN r = RecordFields.huawei
      BY DEF r, s
    <3>2. id \in DOMAIN zone => HuaweiFits(a, x)
      BY <1>3 DEF w
    <3>3. Alike(r, s) => Alike(a, b) /\ DOMAIN a = DOMAIN r
      BY AlikeOverlay
    <3> HIDE DEF a, b
    <3> QED BY <3>1, <3>2, <3>3, AlikeFits
  <2> QED BY <1>3, <2>1, Zenon DEF HuaweiAims
<1>4. ASSUME NEW c, NEW d, p.calls = <<c, d>>, c.id = id, c.op = "set", d.id = id, d.op = "set",
             id \in DOMAIN zone => HuaweiFits(P!Overlay(d.with, P!Overlay(c.with, r)), x)
      PROVE  HuaweiAims(p, new, x)
  <2> DEFINE w == c.with
             v == d.with
             a == P!Overlay(w, r)
             b == P!Overlay(w, s)
             e == P!Overlay(v, a)
             f == P!Overlay(v, b)
  <2>1. id \in DOMAIN new => HuaweiFits(f, x)
    <3> HIDE DEF r, s, w, v
    <3>1. id \in DOMAIN new => id \in DOMAIN zone /\ Alike(r, s) /\ DOMAIN r = RecordFields.huawei
      BY DEF r, s
    <3>2. id \in DOMAIN zone => HuaweiFits(e, x)
      BY <1>4 DEF w, v
    <3>3. Alike(r, s) => Alike(a, b) /\ DOMAIN a = DOMAIN r
      BY AlikeOverlay
    <3> HIDE DEF a, b
    <3>4. Alike(a, b) => Alike(e, f) /\ DOMAIN e = DOMAIN a
      BY AlikeOverlay
    <3> HIDE DEF e, f
    <3> QED BY <3>1, <3>2, <3>3, <3>4, AlikeFits
  <2> QED BY <1>4, <2>1, Zenon DEF HuaweiAims
<1> QED
  BY <1>1, <1>2, <1>3, <1>4, Zenon DEF HuaweiAims

\* A call done.
LEMMA AimsCalled ==
  ASSUME NEW p, p.calls # <<>>, NEW zone, NEW x, HuaweiAims(p, zone, x), NEW c, c = Head(p.calls),
         c.op = "set" => c.id \in DOMAIN zone, NEW new, new = P!Applied(zone, c), NEW q, q.calls = Tail(p.calls), q.key = p.key
  PROVE  HuaweiAims(q, new, x)
<1> DEFINE id == p.key.id
           calls == p.calls
           r == zone[id]
<1> HIDE DEF id, calls, r
<1>1. ASSUME NEW a, calls = <<a>>
      PROVE  c = a /\ q.calls = <<>>
  <2>1. Head(<<a>>) = a /\ Tail(<<a>>) = <<>>
    OBVIOUS
  <2> QED BY <1>1, <2>1 DEF calls
<1>2. ASSUME NEW a, NEW b, calls = <<a, b>>
      PROVE  c = a /\ q.calls = <<b>>
  BY <1>2, TwoCalls DEF calls
<1>3. ASSUME calls = <<c>>, c.id = id, c.op = "add", HuaweiFits(c.with, x)
      PROVE  HuaweiAims(q, new, x)
  <2>1. new = With(zone, c.id, c.with)
    BY <1>3, AppliedParts
  <2>2. new[id] = c.with
    BY <1>3, <2>1 DEF With
  <2> QED BY <1>1, <1>3, <2>2, Zenon DEF HuaweiAims, id
<1>4. ASSUME c.id = id, c.op = "set"
      PROVE  id \in DOMAIN zone /\ new[id] = P!Overlay(c.with, r)
  <2>1. new = [i \in DOMAIN zone |-> IF i = c.id THEN P!Overlay(c.with, zone[i]) ELSE zone[i]]
    BY <1>4, AppliedParts
  <2> QED BY <1>4, <2>1 DEF r
<1>5. ASSUME calls = <<c>>, c.id = id, c.op = "set", id \in DOMAIN zone => HuaweiFits(P!Overlay(c.with, r), x)
      PROVE  HuaweiAims(q, new, x)
  <2>1. HuaweiFits(new[id], x)
    BY <1>4, <1>5, Zenon
  <2> QED BY <1>1, <1>5, <2>1, Zenon DEF HuaweiAims, id
<1>6. ASSUME NEW d, calls = <<c, d>>, c.id = id, c.op = "set", d.id = id, d.op = "set",
             id \in DOMAIN zone => HuaweiFits(P!Overlay(d.with, P!Overlay(c.with, r)), x)
      PROVE  HuaweiAims(q, new, x)
  <2>1. HuaweiFits(P!Overlay(d.with, new[id]), x)
    BY <1>4, <1>6, Zenon
  <2>2. q.calls = <<d>>
    BY <1>2, <1>6, Zenon
  <2> QED BY <1>6, <2>1, <2>2, Zenon DEF HuaweiAims, id
<1>7. \/ calls = <<>> /\ (id \in DOMAIN zone => HuaweiFits(r, x))
      \/ \E a : calls = <<a>> /\ a.id = id /\ a.op = "add" /\ HuaweiFits(a.with, x)
      \/ \E a : /\ calls = <<a>> /\ a.id = id /\ a.op = "set"
                /\ id \in DOMAIN zone => HuaweiFits(P!Overlay(a.with, r), x)
      \/ \E a, d : /\ calls = <<a, d>> /\ a.id = id /\ a.op = "set" /\ d.id = id /\ d.op = "set"
                   /\ id \in DOMAIN zone => HuaweiFits(P!Overlay(d.with, P!Overlay(a.with, r)), x)
  BY Zenon DEF HuaweiAims, id, calls, r
<1>8. calls # <<>>
  BY DEF calls
<1> QED
  BY <1>1, <1>2, <1>3, <1>5, <1>6, <1>7, <1>8, Zenon

---------------------------------------------------------------------------
(* What a plan aims at is what the request asks for. *)

SingleAiming(p, x) ==
  /\ Aims(p, x)
  /\ adapter = "aliyun" => StatusFits(x, p.status)
  /\ adapter = "tencent" => StatusAimed(p, x)
  /\ adapter = "cloudflare" => OptionsFit(x, p.key)

LEMMA AliyunPromises ==
  ASSUME adapter = "aliyun", issued \in Nat, NEW view, ViewOK(view), NEW x, InputOK(x), NEW p, Allowed(p)
  PROVE  /\ CreateRequest(x) /\ p = Aliyun!CreatePlan(x, Aliyun!Sets(view), issued) => SingleAiming(p, x)
         /\ \A set \in Aliyun!Sets(view) : set.id = request.id =>
              (p = Aliyun!UpdatePlan(x, set, Aliyun!Sets(view), issued) => SingleAiming(p, x))
<1> DEFINE y == P!Normalized(x)
           es == P!WithIDs(y.entries, issued)
           sets == Aliyun!Sets(view)
<1>1. ASSUME CreateRequest(x), p = Aliyun!CreatePlan(x, sets, issued)
      PROVE  SingleAiming(p, x)
  <2> DEFINE route == Aliyun!WantedRoute(y, AliyunNoRoute)
             calls == AliyunCreateCalls(y, route, es)
  <2>1. /\ ~ Aliyun!Objection(y, AliyunNoRoute)
        /\ p = P!Mutate(calls, Aliyun!Finalized(es, route), Aliyun!KeyFor(y, route), route.status, {})
    BY <1>1, AliyunCreateSame
  <2>2. Wanted(x, y, es, request.id)
    BY <1>1, CreateWanted
  <2> HIDE DEF y, es, calls
  <2>3. Aims(p, x) /\ StatusFits(x, p.status)
    BY <2>1, <2>2, AliyunAims
  <2> QED BY <2>3 DEF SingleAiming
<1>2. ASSUME NEW set \in sets, set.id = request.id, p = Aliyun!UpdatePlan(x, set, sets, issued)
      PROVE  SingleAiming(p, x)
  <2> DEFINE fallback == Aliyun!RouteOf(set)
             route == Aliyun!WantedRoute(y, fallback)
             calls == Aliyun!UpdateCalls(set, y, es, route)
  <2>1. /\ ~ Aliyun!Objection(y, fallback) /\ ~ P!Repeats(x) /\ P!Strays(x, set) = {}
        /\ p = P!Mutate(calls, Aliyun!Finalized(es, route), Aliyun!KeyFor(y, route), route.status, {})
    BY <1>2, AliyunUpdateSame
  <2>2. PICK m : Lists(set, view, m)
    BY <1>2, AliyunSets DEF AliyunLists
  <2>3. Wanted(x, y, es, request.id)
    BY <1>2, <2>1, <2>2, UpdateWanted
  <2> HIDE DEF y, es, calls, fallback
  <2>4. Aims(p, x) /\ StatusFits(x, p.status)
    BY <2>1, <2>3, AliyunAims
  <2> QED BY <2>4 DEF SingleAiming
<1> QED
  BY <1>1, <1>2

LEMMA TencentPromises ==
  ASSUME adapter = "tencent", issued \in Nat, NEW view, ViewOK(view), NEW x, InputOK(x), NEW p, Allowed(p)
  PROVE  /\ CreateRequest(x) /\ p = Tencent!CreatePlan(x, Tencent!Sets(view), issued) => SingleAiming(p, x)
         /\ \A set \in Tencent!Sets(view) : set.id = request.id =>
              (p = Tencent!UpdatePlan(x, set, Tencent!Sets(view), issued) => SingleAiming(p, x))
<1> DEFINE y == P!Normalized(x)
           es == P!WithIDs(y.entries, issued)
           sets == Tencent!Sets(view)
<1>1. ASSUME CreateRequest(x), p = Tencent!CreatePlan(x, sets, issued)
      PROVE  SingleAiming(p, x)
  <2> DEFINE route == Tencent!WantedRoute(y, TencentNoRoute)
             calls == Flattened(TencentAdds(y, route, es))
             set == TencentNoSet(y)
  <2>1. /\ ~ Tencent!Objection(y, TencentNoRoute)
        /\ p = P!Mutate(calls, Tencent!Expected(set, es, route), Tencent!KeyFor(y, route), NoStatus, {})
    BY <1>1, TencentCreateSame
  <2>2. Wanted(x, y, es, request.id)
    BY <1>1, CreateWanted
  <2> HIDE DEF y, es, calls, set
  <2>3. Aims(p, x) /\ StatusAimed(p, x)
    BY <2>1, <2>2, TencentAims
  <2> QED BY <2>3 DEF SingleAiming
<1>2. ASSUME NEW set \in sets, set.id = request.id, p = Tencent!UpdatePlan(x, set, sets, issued)
      PROVE  SingleAiming(p, x)
  <2> DEFINE fallback == Tencent!RouteOf(set)
             route == Tencent!WantedRoute(y, fallback)
             calls == Tencent!UpdateCalls(set, y, es, route)
             gone == TencentGone(x, set)
  <2>1. /\ ~ Tencent!Objection(y, fallback) /\ ~ P!Repeats(x) /\ P!Strays(x, set) = {}
        /\ p = P!Mutate(calls, Tencent!Expected(set, es, route), Tencent!KeyFor(y, route), NoStatus, gone)
    BY <1>2, TencentUpdateSame
  <2>2. PICK m : Lists(set, view, m)
    BY <1>2, TencentSets DEF TencentLists
  <2>3. Wanted(x, y, es, request.id)
    BY <1>2, <2>1, <2>2, UpdateWanted
  <2> HIDE DEF y, es, calls, fallback, gone
  <2>4. Aims(p, x) /\ StatusAimed(p, x)
    BY <2>1, <2>3, TencentAims
  <2> QED BY <2>4 DEF SingleAiming
<1> QED
  BY <1>1, <1>2

LEMMA CloudflarePromises ==
  ASSUME adapter = "cloudflare", issued \in Nat, NEW view, ViewOK(view), NEW x, InputOK(x), NEW p, Allowed(p)
  PROVE  /\ CreateRequest(x) /\ p = Cloudflare!CreatePlan(x, Cloudflare!Sets(view), issued) => SingleAiming(p, x)
         /\ \A set \in Cloudflare!Sets(view) : set.id = request.id =>
              (p = Cloudflare!UpdatePlan(x, set, Cloudflare!Sets(view), issued) => SingleAiming(p, x))
<1> DEFINE y == P!Normalized(x)
           es == P!WithIDs(y.entries, issued)
           sets == Cloudflare!Sets(view)
<1>1. ASSUME CreateRequest(x), p = Cloudflare!CreatePlan(x, sets, issued)
      PROVE  SingleAiming(p, x)
  <2> DEFINE fallback == CloudflareDefaults(x)
             options == Cloudflare!WantedOptions(y, fallback)
             calls == Flattened(CloudflareAdds(y, options, es))
  <2>1. p = P!Mutate(calls, es, CloudflareKey(y, options), NoStatus, {})
    BY <1>1, CloudflareCreateSame
  <2>2. Wanted(x, y, es, request.id)
    BY <1>1, CreateWanted
  <2>3. options = Cloudflare!WantedOptions(y, fallback)
    OBVIOUS
  <2> HIDE DEF y, es, calls, fallback, options
  <2>4. Aims(p, x) /\ OptionsFit(x, p.key)
    BY <2>1, <2>2, <2>3, CloudflareAims
  <2> QED BY <2>4 DEF SingleAiming
<1>2. ASSUME NEW set \in sets, set.id = request.id, p = Cloudflare!UpdatePlan(x, set, sets, issued)
      PROVE  SingleAiming(p, x)
  <2> DEFINE fallback == set.ext
             options == Cloudflare!WantedOptions(y, fallback)
             calls == Cloudflare!UpdateCalls(set, y, es, options)
  <2>1. /\ ~ P!Repeats(x) /\ P!Strays(x, set) = {}
        /\ p = P!Mutate(calls, es, CloudflareKey(y, options), NoStatus, {})
    BY <1>2, CloudflareUpdateSame
  <2>2. PICK m : Lists(set, view, m)
    BY <1>2, CloudflareSets DEF CloudflareLists
  <2>3. Wanted(x, y, es, request.id)
    BY <1>2, <2>1, <2>2, UpdateWanted
  <2>4. options = Cloudflare!WantedOptions(y, fallback)
    OBVIOUS
  <2> HIDE DEF y, es, calls, fallback, options
  <2>5. Aims(p, x) /\ OptionsFit(x, p.key)
    BY <2>1, <2>3, <2>4, CloudflareAims
  <2> QED BY <2>5 DEF SingleAiming
<1> QED
  BY <1>1, <1>2

LEMMA HuaweiPromises ==
  ASSUME adapter = "huawei", NEW view, ViewOK(view), Huawei!Readable(view), NEW x, InputOK(x), NEW p, Allowed(p)
  PROVE  /\ p = Huawei!CreatePlan(x, Huawei!Sets(view), issued) => \A zone : HuaweiAims(p, zone, x)
         /\ \A set \in Huawei!Sets(view) :
              /\ p = Huawei!UpdatePlan(x, set, Huawei!Sets(view), issued)
              /\ \A id \in set.id : id \in DOMAIN view /\ view[id].phase \notin Huawei!Pendings
              => HuaweiAims(p, view, x) /\ p.key.id \in DOMAIN view
<1> DEFINE y == P!Normalized(x)
           sets == Huawei!Sets(view)
<1>1. ASSUME p = Huawei!CreatePlan(x, sets, issued), NEW zone
      PROVE  HuaweiAims(p, zone, x)
  <2>1. ~ Huawei!Objection(y, NoStatus)
    BY <1>1, HuaweiCreateChecks
  <2>2. HuaweiCreation(p, x)
    BY <1>1, HuaweiPlanned
  <2> QED BY <2>1, <2>2, HuaweiCreateAims
<1>2. ASSUME NEW set \in sets, p = Huawei!UpdatePlan(x, set, sets, issued),
             \A id \in set.id : id \in DOMAIN view /\ view[id].phase \notin Huawei!Pendings
      PROVE  HuaweiAims(p, view, x) /\ p.key.id \in DOMAIN view
  <2>1. PICK vid : HuaweiLists(set, view, vid)
    BY <1>2, HuaweiSets
  <2>2. SetOK(set)
    BY <1>2, HuaweiSets
  <2>3. vid \in DOMAIN view /\ view[vid].phase \notin Huawei!Pendings
    BY <1>2, <2>1 DEF HuaweiLists
  <2>4. HuaweiChange(p, x, set)
    BY <1>2, HuaweiPlanned
  <2>5. ~ Huawei!Objection(y, Huawei!StatusOf(set)) /\ ~ Huawei!LineChanges(Huawei!RoutingOf(set), Huawei!RoutingOf(y))
    BY <1>2, HuaweiUpdateChecks
  <2>6. y = P!Normalized(x)
    OBVIOUS
  <2> HIDE DEF y
  <2>7. HuaweiAims(p, view, x) /\ p.key.id = vid
    BY <2>1, <2>2, <2>3, <2>4, <2>5, <2>6, HuaweiChangeAims
  <2> QED BY <2>3, <2>7
<1> QED
  BY <1>1, <1>2

\* What an attempt is on the way to, unless Huawei Cloud's sets are written by
\* others meanwhile; and what has been returned with success.
Coming ==
  (stage = "calls" /\ request.kind # "delete") =>
    /\ InputOK(request.input)
    /\ adapter = "huawei" => disturbed = TRUE \/ HuaweiAims(plan, records, request.input)
    /\ adapter # "huawei" => SingleAiming(plan, request.input)
Returned ==
  result.set # None =>
    /\ stage = "done" /\ result.answer = "ok"
    /\ (adapter = "huawei" => ~ disturbed) => Shows(result.set, request.desired)
Promising == Coming /\ Returned

LEMMA PlanPromises ==
  ASSUME Kept, Underway, stage = "asked", request.kind # "delete", NEW view \in Views, NEW p, p = PlanFrom(view),
         Allowed(p)
  PROVE  /\ InputOK(request.input)
         /\ adapter = "huawei" => HuaweiAims(p, records, request.input)
         /\ adapter # "huawei" => SingleAiming(p, request.input)
<1> DEFINE x == request.input
<1>1. ViewOK(view) /\ issued \in Nat /\ adapter \in Adapters /\ RequestOK(request) /\ PassedOn(request) /\ InputOK(x)
      /\ x = request.input
  BY ViewsOK, KeptView, PassedInput DEF Kept, RequestKept
<1>2. /\ Readable(view)
      /\ request.kind = "create" => p = CreatePlan(Sets(view))
      /\ request.kind # "create" =>
           \E set \in Sets(view) :
              /\ set.id = request.id /\ P!Matches(request.expected, set)
              /\ p = IF request.kind = "update" THEN UpdatePlan(set, Sets(view)) ELSE DeletePlan(set)
  BY PlanFromParts
<1>3. request.kind = "create" => CreateRequest(x)
  BY <1>1, CreateIsNew
<1>4. request.kind # "create" => request.kind = "update"
  BY <1>1 DEF RequestOK
<1> HIDE DEF x
<1>5. CASE adapter = "aliyun"
  <2>1. request.kind = "create" => p = Aliyun!CreatePlan(x, Aliyun!Sets(view), issued)
    BY <1>1, <1>2, <1>5 DEF CreatePlan, Sets
  <2>2. request.kind = "update" =>
          \E set \in Aliyun!Sets(view) : set.id = request.id /\ p = Aliyun!UpdatePlan(x, set, Aliyun!Sets(view), issued)
    BY <1>1, <1>2, <1>5 DEF UpdatePlan, Sets
  <2> QED BY <1>1, <1>3, <1>4, <1>5, <2>1, <2>2, AliyunPromises
<1>6. CASE adapter = "tencent"
  <2>1. request.kind = "create" => p = Tencent!CreatePlan(x, Tencent!Sets(view), issued)
    BY <1>1, <1>2, <1>6 DEF CreatePlan, Sets
  <2>2. request.kind = "update" =>
          \E set \in Tencent!Sets(view) : set.id = request.id /\ p = Tencent!UpdatePlan(x, set, Tencent!Sets(view), issued)
    BY <1>1, <1>2, <1>6 DEF UpdatePlan, Sets
  <2> QED BY <1>1, <1>3, <1>4, <1>6, <2>1, <2>2, TencentPromises
<1>7. CASE adapter = "cloudflare"
  <2>1. request.kind = "create" => p = Cloudflare!CreatePlan(x, Cloudflare!Sets(view), issued)
    BY <1>1, <1>2, <1>7 DEF CreatePlan, Sets
  <2>2. request.kind = "update" =>
          \E set \in Cloudflare!Sets(view) : set.id = request.id /\ p = Cloudflare!UpdatePlan(x, set, Cloudflare!Sets(view), issued)
    BY <1>1, <1>2, <1>7 DEF UpdatePlan, Sets
  <2> QED BY <1>1, <1>3, <1>4, <1>7, <2>1, <2>2, CloudflarePromises
<1>8. CASE adapter = "huawei"
  <2>1. Huawei!Readable(view)
    BY <1>2, <1>8 DEF Readable
  <2>2. CASE request.kind = "create"
    <3>1. p = Huawei!CreatePlan(x, Huawei!Sets(view), issued)
      BY <1>1, <1>2, <1>8, <2>2 DEF CreatePlan, Sets
    <3> QED BY <1>1, <1>8, <2>1, <3>1, HuaweiPromises
  <2>3. CASE request.kind = "update"
    <3>1. PICK set \in Sets(view) : set.id = request.id /\ P!Matches(request.expected, set) /\ p = UpdatePlan(set, Sets(view))
      BY <1>2, <2>3
    <3>2. set \in Huawei!Sets(view) /\ p = Huawei!UpdatePlan(x, set, Huawei!Sets(view), issued)
      BY <1>1, <1>8, <3>1 DEF UpdatePlan, Sets
    <3>3. AtRest(request.expected)
      BY <1>8, <2>3 DEF Underway
    <3>4. \A id \in set.id : id \in DOMAIN view /\ view[id].phase \notin Huawei!Pendings
      BY <1>1, <1>2, <1>8, <3>1, <3>3, HuaweiRests
    <3>5. HuaweiAims(p, view, x) /\ p.key.id \in DOMAIN view
      BY <1>1, <1>8, <2>1, <3>2, <3>4, HuaweiPromises
    <3>6. PICK ids : view = [id \in DOMAIN records \cap ids |-> records[id]]
      BY <1>8 DEF Views
    <3> DEFINE id == p.key.id
    <3>7. id \in DOMAIN records => id \in DOMAIN view /\ Alike(view[id], records[id]) /\ DOMAIN view[id] = RecordFields.huawei
      <4>1. id \in DOMAIN view /\ view[id] = records[id]
        BY <3>5, <3>6
      <4>2. DOMAIN view[id] = RecordFields.huawei
        BY <1>1, <1>8, <4>1 DEF ViewOK, RecordOK
      <4>3. Alike(view[id], view[id])
        BY RestedAlike
      <4> QED BY <4>1, <4>2, <4>3
    <3>8. id = p.key.id
      OBVIOUS
    <3> HIDE DEF id
    <3>9. HuaweiAims(p, records, x)
      BY <3>5, <3>7, <3>8, AimsAlike
    <3> QED BY <1>1, <1>8, <3>9
  <2> QED BY <1>4, <2>2, <2>3
<1> QED
  BY <1>5, <1>6, <1>7, <1>8, <1>1, AdaptersAssumption

\* The last read shows it.
LEMMA ReadsShow ==
  ASSUME Kept, Coming, stage = "calls", plan.calls = <<>>, request.kind # "delete", NEW view \in Views, Readable(view),
         NEW set \in FinalSets(Sets(view)), adapter = "huawei" => ~ disturbed
  PROVE  Shows(set, request.input)
<1> DEFINE x == request.input
           p == plan
<1>1. ViewOK(view) /\ issued \in Nat /\ adapter \in Adapters /\ InputOK(x)
  BY ViewsOK, KeptView DEF Coming
<1>2. adapter # "huawei" => SingleAiming(p, x)
  BY DEF Coming
<1>3. CASE adapter = "aliyun"
  <2>1. Aims(p, x) /\ StatusFits(x, p.status)
    BY <1>2, <1>3 DEF SingleAiming
  <2>2. set \in Aliyun!FinalSets(p, Aliyun!Sets(view))
    BY <1>3 DEF FinalSets, Sets
  <2> HIDE DEF x, p
  <2>3. Shows(set, x)
    BY <1>3, <2>1, <2>2, AliyunShown
  <2> QED BY <2>3 DEF x
<1>4. CASE adapter = "tencent"
  <2>1. Aims(p, x) /\ StatusAimed(p, x)
    BY <1>2, <1>4 DEF SingleAiming
  <2>2. set \in Tencent!FinalSets(p, Tencent!Sets(view))
    BY <1>4 DEF FinalSets, Sets
  <2> HIDE DEF x, p
  <2>3. Shows(set, x)
    BY <1>1, <1>4, <2>1, <2>2, TencentShown
  <2> QED BY <2>3 DEF x
<1>5. CASE adapter = "cloudflare"
  <2>1. Aims(p, x) /\ OptionsFit(x, p.key)
    BY <1>2, <1>5 DEF SingleAiming
  <2>2. set \in Cloudflare!FinalSets(p, Cloudflare!Sets(view))
    BY <1>5 DEF FinalSets, Sets
  <2> HIDE DEF x, p
  <2>3. Shows(set, x)
    BY <1>1, <1>5, <2>1, <2>2, CloudflareShown
  <2> QED BY <2>3 DEF x
<1>6. CASE adapter = "huawei"
  <2>1. HuaweiAims(p, records, x)
    BY <1>6 DEF Coming
  <2>2. Huawei!Readable(view)
    BY <1>6 DEF Readable
  <2>3. set \in Huawei!FinalSets(p, Huawei!Sets(view))
    BY <1>6 DEF FinalSets, Sets
  <2>4. PICK ids : view = [id \in DOMAIN records \cap ids |-> records[id]]
    BY <1>6 DEF Views
  <2>5. p.calls = <<>>
    OBVIOUS
  <2> HIDE DEF x, p
  <2>6. \A c, d : <<>> # <<c>> /\ <<>> # <<c, d>>
    OBVIOUS
  <2>7. p.key.id \in DOMAIN records => HuaweiFits(records[p.key.id], x)
    BY <2>1, <2>5, <2>6, Zenon DEF HuaweiAims
  <2>8. p.key.id \in DOMAIN view => HuaweiFits(view[p.key.id], x)
    <3>1. p.key.id \in DOMAIN view => p.key.id \in DOMAIN records /\ view[p.key.id] = records[p.key.id]
      BY <2>4
    <3> QED BY <2>7, <3>1, Zenon
  <2>9. Shows(set, x)
    BY <1>1, <1>6, <2>2, <2>3, <2>8, HuaweiShown
  <2> QED BY <2>9 DEF x
<1> QED
  BY <1>1, <1>3, <1>4, <1>5, <1>6, AdaptersAssumption

\* And so does its form that the service shows.
LEMMA ShownShows ==
  ASSUME NEW set, SetOK(set), NEW x, InputOK(x), Shows(set, x)
  PROVE  Shows(Shown(set), x)
<1> DEFINE shown == Shown(set)
           es == set.entries
<1>1. /\ SetOK(shown) /\ shown.name = set.name /\ shown.type = set.type /\ shown.ttl = set.ttl /\ shown.ext = set.ext
      /\ DOMAIN shown.entries = DOMAIN es
      /\ \A i \in DOMAIN es : shown.entries[i] = P!NormalEntry(set.type, es[i])
  BY ShownSet
<1> HIDE DEF shown
<1>2. set.type = x.type /\ (x.type \in {"CNAME", "NS"} => \A i \in DOMAIN x.entries : x.entries[i].num = None)
  BY DEF Shows, InputOK, EntriesOK
<1>3. ASSUME NEW i \in DOMAIN x.entries
      PROVE  \E j \in DOMAIN shown.entries : Asked(shown.entries[j], x.entries[i])
  <2>1. PICK j \in DOMAIN es : Asked(es[j], x.entries[i])
    BY DEF Shows
  <2> DEFINE e == es[j]
             n == P!NormalEntry(set.type, e)
             w == x.entries[i]
             type == set.type
  <2>2. n.ext = e.ext /\ n.text.word = e.text.word /\ n.num = IF type \in {"CNAME", "NS"} THEN None ELSE e.num
    <3> HIDE DEF e
    <3> QED BY NormalEntryFacts
  <2>3. e.text.word = w.text.word /\ e.num = w.num /\ Fits(e.ext, w.ext)
    BY <2>1, AskedParts
  <2>4. type \in {"CNAME", "NS"} => w.num = None
    BY <1>2
  <2>5. shown.entries[j] = n /\ j \in DOMAIN shown.entries
    BY <1>1
  <2> HIDE DEF n, e, w, type
  <2>6. Asked(n, w)
    BY <2>2, <2>3, <2>4, AskedParts
  <2> QED BY <2>5, <2>6 DEF w
<1>4. Len(shown.entries) = Len(x.entries)
  <2>1. IsSeq(shown.entries) /\ IsSeq(es) /\ Len(es) = Len(x.entries)
    BY <1>1 DEF SetOK, EntriesOK, Shows
  <2>2. Len(shown.entries) = Len(es)
    BY <1>1, <2>1 DEF IsSeq
  <2> QED BY <2>1, <2>2
<1>5. shown.name = x.name /\ shown.type = x.type /\ shown.ttl = x.ttl
  BY <1>1 DEF Shows
<1>6. IF adapter = "cloudflare" THEN OptionsFit(x, shown.ext)
      ELSE StatusFits(x, shown.ext.status) \/ (adapter = "huawei" /\ shown.ext.provider \in Huawei!Stops)
  BY <1>1, Zenon DEF Shows
<1>7. Shows(shown, x)
  BY <1>3, <1>4, <1>5, <1>6, Zenon DEF Shows
<1> QED
  BY <1>7 DEF shown

LEMMA FinalsListed ==
  ASSUME NEW sets, NEW set \in FinalSets(sets)
  PROVE  set \in sets
BY Zenon DEF FinalSets, Aliyun!FinalSets, Tencent!FinalSets, Cloudflare!FinalSets, Huawei!FinalSets

---------------------------------------------------------------------------
(* It is kept by every step. *)

LEMMA SamePromises ==
  ASSUME adapter' = adapter
  PROVE  /\ \A x : InputOK(x)' <=> InputOK(x)
         /\ \A p, x : SingleAiming(p, x)' <=> SingleAiming(p, x)
         /\ \A set, x : Shows(set, x)' <=> Shows(set, x)
<1>1. \A x : InputOK(x)' <=> InputOK(x)
  BY SameState
<1>2. \A p, x : Aims(p, x)' <=> Aims(p, x)
  BY DEF Aims
<1>3. \A p, x : SingleAiming(p, x)' <=> SingleAiming(p, x)
  BY <1>2 DEF SingleAiming
<1>4. \A e, w : Asked(e, w)' <=> Asked(e, w)
  BY DEF Asked
<1>5. \A set, x : Shows(set, x)' <=> Shows(set, x)
  BY <1>4, Zenon DEF Shows
<1> QED
  BY <1>1, <1>3, <1>5

\* Nothing is asked for or returned by a step that only goes on.
LEMMA ReturnedStays ==
  ASSUME Returned, UNCHANGED <<adapter, request, result, disturbed>>, stage' = stage
  PROVE  Returned'
BY SamePromises DEF Returned

\* Nothing is returned before the end.
LEMMA NothingReturned ==
  ASSUME result'.set = None
  PROVE  Returned'
BY DEF Returned

LEMMA NotReturned ==
  ASSUME Returned, stage # "done" \/ result.answer # "ok", result' = result
  PROVE  Returned'
BY DEF Returned

LEMMA NothingComing ==
  ASSUME stage' # "calls"
  PROVE  Coming'
BY DEF Coming

LEMMA ComingStays ==
  ASSUME Coming, stage = "calls", UNCHANGED <<adapter, request>>,
         adapter = "huawei" /\ request.kind # "delete" /\ ~ disturbed' =>
           ~ disturbed /\ (HuaweiAims(plan, records, request.input) => HuaweiAims(plan', records', request.input)),
         adapter # "huawei" /\ request.kind # "delete" =>
           (SingleAiming(plan, request.input) => SingleAiming(plan', request.input)),
         disturbed' \in BOOLEAN, disturbed \in BOOLEAN
  PROVE  Coming'
<1>1. ASSUME request.kind # "delete"
      PROVE  /\ InputOK(request.input)'
             /\ adapter = "huawei" => disturbed' = TRUE \/ HuaweiAims(plan', records', request.input)
             /\ adapter # "huawei" => SingleAiming(plan', request.input)
  <2>1. /\ InputOK(request.input)
        /\ adapter = "huawei" => disturbed = TRUE \/ HuaweiAims(plan, records, request.input)
        /\ adapter # "huawei" => SingleAiming(plan, request.input)
    BY <1>1 DEF Coming
  <2>2. InputOK(request.input)'
    BY <2>1, SamePromises
  <2> QED BY <1>1, <2>1, <2>2
<1>2. HuaweiAims(plan, records, request.input)' <=> HuaweiAims(plan', records', request.input)
  BY DEF HuaweiAims
<1>3. SingleAiming(plan, request.input)' <=> SingleAiming(plan', request.input)
  BY SamePromises
<1> QED
  BY <1>1, <1>2, <1>3 DEF Coming

LEMMA PromisingInit ==
  ASSUME Init
  PROVE  Promising
<1>1. stage = "idle" /\ result.set = None
  BY DEF Init, Nothing
<1> QED
  BY <1>1 DEF Promising, Coming, Returned

LEMMA PromisingBegin ==
  ASSUME Kept, Underway, Promising, Begin
  PROVE  Promising'
<1>1. stage = "asked" /\ UNCHANGED <<adapter, records, request>>
  BY BeginParts
<1>2. PICK view \in Views :
         /\ plan' = PlanFrom(view)
         /\ ~ Allowed(plan') => stage' = "done"
         /\ Allowed(plan') => stage' = "calls"
         /\ result' = AnswerTo(plan')
  BY BeginParts
<1>3. Returned'
  <2>1. result'.set = None
    BY <1>2 DEF AnswerTo, Nothing
  <2> QED BY <2>1, NothingReturned
<1>4. Coming'
  <2>1. ASSUME stage' = "calls", request.kind # "delete"
        PROVE  /\ InputOK(request.input)'
               /\ adapter = "huawei" => HuaweiAims(plan', records', request.input)
               /\ adapter # "huawei" => SingleAiming(plan', request.input)
    <3> DEFINE p == plan'
    <3>1. p = PlanFrom(view) /\ Allowed(p)
      BY <1>2, <2>1
    <3> HIDE DEF p
    <3>2. /\ InputOK(request.input)
          /\ adapter = "huawei" => HuaweiAims(p, records, request.input)
          /\ adapter # "huawei" => SingleAiming(p, request.input)
      BY <1>1, <2>1, <3>1, PlanPromises
    <3>3. InputOK(request.input)'
      BY <1>1, <3>2, SamePromises
    <3> QED BY <1>1, <3>2, <3>3 DEF p
  <2>2. HuaweiAims(plan, records, request.input)' <=> HuaweiAims(plan', records', request.input)
    BY <1>1 DEF HuaweiAims
  <2>3. SingleAiming(plan, request.input)' <=> SingleAiming(plan', request.input)
    BY <1>1, SamePromises
  <2> QED BY <1>1, <2>1, <2>2, <2>3 DEF Coming
<1> QED
  BY <1>3, <1>4 DEF Promising

LEMMA SameAiming ==
  ASSUME NEW p, NEW q, q.key = p.key, q.goal = p.goal, q.status = p.status, NEW x, SingleAiming(p, x)
  PROVE  SingleAiming(q, x)
<1>1. Aims(q, x)
  BY DEF SingleAiming, Aims
<1>2. /\ adapter = "aliyun" => StatusFits(x, q.status)
      /\ adapter = "tencent" => StatusAimed(q, x)
      /\ adapter = "cloudflare" => OptionsFit(x, q.key)
  BY DEF SingleAiming, StatusAimed
<1> QED
  BY <1>1, <1>2 DEF SingleAiming

LEMMA PromisingCallDone ==
  ASSUME Kept, Promising, CallDone
  PROVE  Promising'
<1> DEFINE p == plan
           q == plan'
           c == Head(plan.calls)
           new == records'
           x == request.input
<1>1. /\ stage = "calls" /\ p.calls # <<>> /\ PlanKept /\ CallOK(c, issued)
      /\ UNCHANGED <<adapter, request, result, disturbed>> /\ stage' = stage
      /\ ~ CallRefused(c) /\ new = P!Applied(records, c) /\ q = [p EXCEPT !.calls = Tail(@)]
  BY CalledParts DEF CallDone, Put
<1>2. PlanShape(p) /\ c = Head(p.calls)
  BY <1>1 DEF PlanKept
<1> HIDE DEF p, q, c, new, x
<1>3. q.calls = Tail(p.calls) /\ q.key = p.key /\ q.goal = p.goal /\ q.status = p.status
  BY <1>1, <1>2, RestOfPlan
<1>4. c.op = "set" => c.id \in DOMAIN records
  BY <1>1, FoundIfNotRefused
<1>5. HuaweiAims(p, records, x) => HuaweiAims(q, new, x)
  BY <1>1, <1>2, <1>3, <1>4, AimsCalled
<1>6. SingleAiming(p, x) => SingleAiming(q, x)
  BY <1>3, SameAiming
<1>7. disturbed \in BOOLEAN
  BY KeptTypes
<1>8. Coming'
  BY <1>1, <1>5, <1>6, <1>7, ComingStays DEF Promising, p, q, new, x
<1>9. Returned'
  BY <1>1, ReturnedStays DEF Promising
<1> QED
  BY <1>8, <1>9 DEF Promising

LEMMA PromisingConfirmed ==
  ASSUME Kept, Promising, Confirmed
  PROVE  Promising'
<1>1. /\ stage = "calls" /\ plan.calls = <<>> /\ stage' = "done"
      /\ UNCHANGED <<adapter, request, disturbed>>
  BY DEF Confirmed, Reading
<1>2. PICK view \in Views :
         /\ Readable(view)
         /\ IF request.kind = "delete" THEN result' = [answer |-> "ok", set |-> None]
            ELSE \E set \in FinalSets(Sets(view)) : result' = [answer |-> "ok", set |-> Shown(set)]
  BY DEF Confirmed
<1>3. Coming'
  BY <1>1, NothingComing
<1>4. CASE request.kind = "delete"
  <2>1. result'.set = None
    BY <1>2, <1>4
  <2> QED BY <1>3, <2>1, NothingReturned DEF Promising
<1>5. CASE request.kind # "delete"
  <2>1. PICK set \in FinalSets(Sets(view)) : result' = [answer |-> "ok", set |-> Shown(set)]
    BY <1>2, <1>5
  <2>2. PassedOn(request) /\ InputOK(request.input)
    BY <1>1, <1>5, PassedInput DEF Kept, RequestKept
  <2>3. SetOK(set)
    BY <1>2, <2>1, FinalsListed, SetsOK, KeptView, ViewsOK
  <2>4. ASSUME adapter = "huawei" => ~ disturbed
        PROVE  Shows(Shown(set), request.desired)
    <3>1. Shows(set, request.input)
      BY <1>1, <1>2, <1>5, <2>4, ReadsShow DEF Promising
    <3>2. Shows(Shown(set), request.input)
      BY <2>2, <2>3, <3>1, ShownShows
    <3> QED BY <2>2, <3>2, PassedShows
  <2>5. result'.answer = "ok" /\ result'.set = Shown(set)
    BY <2>1
  <2> DEFINE shown == Shown(set)
  <2> HIDE DEF shown
  <2>6. (adapter = "huawei" => ~ disturbed)' => Shows(result.set, request.desired)'
    BY <1>1, <2>4, <2>5, SamePromises DEF shown
  <2>7. Returned'
    BY <1>1, <2>5, <2>6 DEF Returned
  <2> QED BY <1>3, <2>7 DEF Promising
<1> QED
  BY <1>4, <1>5

\* The final reads go on.
LEMMA PromisingUnconfirmed ==
  ASSUME Kept, Promising, Unconfirmed
  PROVE  Promising'
<1>1. /\ stage = "calls" /\ UNCHANGED <<adapter, records, request, plan, disturbed, result>>
      /\ stage' = stage \/ stage' = "failed"
  BY DEF Unconfirmed, Reading
<1>2. disturbed \in BOOLEAN
  BY KeptTypes
<1>3. Coming'
  <2>1. CASE stage' = stage
    BY <1>1, <1>2, <2>1, ComingStays DEF Promising
  <2>2. CASE stage' = "failed"
    BY <2>2, NothingComing
  <2> QED BY <1>1, <2>1, <2>2
<1>4. Returned'
  BY <1>1, NotReturned DEF Promising
<1> QED
  BY <1>3, <1>4 DEF Promising

\* Huawei Cloud completes a change: of the set, nothing but the phase.
LEMMA PromisingSettle ==
  ASSUME Kept, Promising, Settle
  PROVE  Promising'
<1>1. /\ adapter = "huawei"
      /\ UNCHANGED <<adapter, request, stage, plan, result, disturbed>>
      /\ \E id \in DOMAIN records :
           \/ records' = Without(records, id)
           \/ \E phase : records' = [records EXCEPT ![id] = InPhase(@, phase)]
  BY SettleParts
<1> DEFINE id == plan.key.id
           p == plan
           x == request.input
           new == records'
<1>2. id \in DOMAIN new => id \in DOMAIN records /\ Alike(records[id], new[id]) /\ DOMAIN records[id] = RecordFields.huawei
  <2>1. ASSUME id \in DOMAIN new
        PROVE  id \in DOMAIN records /\ (new[id] = records[id] \/ \E phase : new[id] = InPhase(records[id], phase))
    BY <1>1, <2>1 DEF Without
  <2>2. id \in DOMAIN records => DOMAIN records[id] = RecordFields.huawei
    BY <1>1, KeptView DEF ViewOK, RecordOK
  <2> QED BY <2>1, <2>2, RestedAlike
<1>3. id = p.key.id
  OBVIOUS
<1> HIDE DEF id, p, x, new
<1>4. HuaweiAims(p, records, x) => HuaweiAims(p, new, x)
  BY <1>2, <1>3, AimsAlike
<1>5. disturbed \in BOOLEAN
  BY KeptTypes
<1>6. Coming'
  <2>1. CASE stage = "calls"
    BY <1>1, <1>4, <1>5, <2>1, ComingStays DEF Promising, p, x, new
  <2>2. CASE stage # "calls"
    BY <1>1, <2>2, NothingComing
  <2> QED BY <2>1, <2>2
<1>7. Returned'
  BY <1>1, ReturnedStays DEF Promising
<1> QED
  BY <1>6, <1>7 DEF Promising

LEMMA PromisingInterfere ==
  ASSUME Kept, Promising, Interfere
  PROVE  Promising'
<1>1. /\ stage \in {"batched", "received", "asked", "calls"} /\ disturbed' = TRUE
      /\ UNCHANGED <<adapter, request, stage, plan, result>>
  BY InterfereParts DEF Interfere
<1>2. disturbed \in BOOLEAN
  BY KeptTypes
<1>3. Coming'
  <2>1. CASE stage = "calls"
    BY <1>1, <1>2, <2>1, ComingStays DEF Promising
  <2>2. CASE stage # "calls"
    BY <1>1, <2>2, NothingComing
  <2> QED BY <2>1, <2>2
<1>4. Returned'
  BY <1>1, NotReturned DEF Promising
<1> QED
  BY <1>3, <1>4 DEF Promising

\* The steps that end an attempt, or come before one.
LEMMA PromisingOthers ==
  ASSUME Kept, Promising,
         \/ Ask \/ ReadItem \/ RefuseItem \/ Admit \/ RefuseRequest
         \/ CallFails \/ ReplyLost \/ ReadFails \/ Report \/ Retry
  PROVE  Promising'
<1>1. stage' # "calls"
  BY TurnedAway DEF Ask, ReadItem, Admit, TurnAway, CallFails, ReplyLost, ReadFails, Report, Retry, FirstStage
<1>2. \/ result'.set = None
      \/ result' = result /\ (stage # "done" \/ result.answer # "ok")
  <2>1. CASE Ask \/ ReadItem \/ Admit
    <3>1. result' = result /\ stage \in {"idle", "batched", "received"}
      BY <2>1, Zenon DEF Ask, ReadItem, Admit
    <3> QED BY <3>1
  <2>2. CASE RefuseItem \/ RefuseRequest \/ Report
    <3>1. result' = [answer |-> "error", set |-> None]
      BY <2>2, Zenon, TurnedAway DEF TurnAway, Report
    <3> QED BY <3>1
  <2>3. CASE CallFails \/ ReplyLost
    <3>1. result' = result /\ stage = "calls"
      BY <2>3, Zenon DEF CallFails, ReplyLost, Called
    <3> QED BY <3>1
  <2>4. CASE ReadFails
    <3>1. result' = result /\ stage = "calls"
      BY <2>4, Zenon DEF ReadFails, Reading
    <3> QED BY <3>1
  <2>5. CASE Retry
    <3>1. result' = result /\ result.answer = "error"
      BY <2>5, Zenon DEF Retry
    <3> QED BY <3>1
  <2> QED BY <2>1, <2>2, <2>3, <2>4, <2>5
<1>3. Coming'
  BY <1>1, NothingComing
<1>4. Returned'
  BY <1>2, NothingReturned, NotReturned DEF Promising
<1> QED
  BY <1>3, <1>4 DEF Promising

LEMMA PromisingStutter ==
  ASSUME Kept, Promising, UNCHANGED vars
  PROVE  Promising'
<1>1. UNCHANGED <<adapter, records, request, stage, plan, result, disturbed>>
  BY DEF vars
<1>2. disturbed \in BOOLEAN
  BY KeptTypes
<1>3. Coming'
  <2>1. CASE stage = "calls"
    BY <1>1, <1>2, <2>1, ComingStays DEF Promising
  <2>2. CASE stage # "calls"
    BY <1>1, <2>2, NothingComing
  <2> QED BY <2>1, <2>2
<1>4. Returned'
  BY <1>1, ReturnedStays DEF Promising
<1> QED
  BY <1>3, <1>4 DEF Promising

LEMMA PromisingNext ==
  ASSUME Kept, Underway, Promising, [Next]_vars
  PROVE  Promising'
BY Zenon, PromisingBegin, PromisingCallDone, PromisingConfirmed, PromisingUnconfirmed, PromisingSettle, PromisingInterfere,
   PromisingOthers, PromisingStutter DEF Next

LEMMA PromiseShown ==
  ASSUME Promising
  PROVE  SuccessShowsTheRequest
BY ShownParts DEF Promising, Returned

\* Success is never reported with a record set that is not the one asked for:
\* for every adapter, zone and request, whichever calls fail, whatever others
\* write meanwhile and however old the lists are.  (With Huawei Cloud, whose last
\* read is not compared with the request, as long as no one else writes; and the
\* status is not the one asked for where the change has ended in ERROR, or the
\* provider has taken the set out of service.)
THEOREM SuccessAlwaysShows == Spec => []SuccessShowsTheRequest
<1>1. Init => Promising
  BY PromisingInit
<1>2. Kept /\ Underway /\ Promising /\ [Next]_vars => Promising'
  BY PromisingNext
<1>3. Promising => SuccessShowsTheRequest
  BY PromiseShown
<1> QED
  BY <1>1, <1>2, <1>3, AlwaysKept, AlwaysUnderway, PTL DEF Spec

---------------------------------------------------------------------------
(* A listed set sent back as it is. *)

\* The request is for the set as it was listed, and shown.
Sees(q, set) ==
  /\ q.kind = "update" /\ q.id = set.id /\ q.expected = set.fingerprint
  /\ q.desired = InputOf(set) /\ Shown(set) = set

LEMMA SeesSame ==
  ASSUME NEW q, NEW r, r.kind = q.kind, r.id = q.id, r.expected = q.expected, r.desired = q.desired
  PROVE  \A set : Sees(q, set) => Sees(r, set)
BY Zenon DEF Sees

\* What is passed on to the adapter is then the set as the adapter lists it.
LEMMA SeenInput ==
  ASSUME NEW set, SetOK(set), NEW q, Sees(q, set), PassedOn(q)
  PROVE  q.input = InputOf(set)
<1> DEFINE x == q.desired
           es == set.entries
<1>1. x = InputOf(set) /\ q.input = P!Normalized(x)
  BY DEF Sees, PassedOn
<1>2. /\ x = [name |-> x.name, type |-> x.type, ttl |-> x.ttl, entries |-> es, ext |-> x.ext]
      /\ x.type = set.type
  BY <1>1 DEF InputOf
<1>3. IsSeq(es)
  BY DEF SetOK, EntriesOK
<1>4. \A i \in DOMAIN es : es[i] = P!NormalEntry(set.type, es[i])
  <2>1. \A i \in DOMAIN es : Shown(set).entries[i] = P!NormalEntry(set.type, es[i])
    BY ShownSet
  <2> QED BY <2>1 DEF Sees
<1> HIDE DEF x, es
<1>5. [i \in DOMAIN es |-> P!NormalEntry(x.type, es[i])] = es
  <2>1. es = [i \in DOMAIN es |-> es[i]]
    BY <1>3, SeqFacts
  <2>2. [i \in DOMAIN es |-> P!NormalEntry(x.type, es[i])] = [i \in DOMAIN es |-> es[i]]
    BY <1>2, <1>4
  <2> QED BY <2>1, <2>2
<1>6. P!NormalEntries(x) = es
  BY <1>2, <1>5 DEF P!NormalEntries
<1>7. P!Normalized(x) = x
  BY <1>2, <1>6 DEF P!Normalized
<1> QED
  BY <1>1, <1>7

\* An unedited update is a request for the set as it was listed.
LEMMA EchoRequests ==
  ASSUME NEW set, SetOK(set), NEW r \in Requests(set), r.echo
  PROVE  r.batch = FALSE /\ Sees(r, set)
<1> DEFINE shown == Shown(set)
           f == shown.fingerprint
           inputs == Inputs(shown)
           about == [kind |-> "update", id |-> set.id, expected |-> f, desired |-> None,
                     input |-> None, echo |-> FALSE, batch |-> FALSE, item |-> None]
           same(x) == shown = set /\ x = InputOf(set)
<1>1. \/ \E x \in inputs : r = [about EXCEPT !.desired = x, !.echo = same(x)]
      \/ \E x \in inputs :
            r = [about EXCEPT !.kind = "create", !.id = {}, !.expected = None, !.desired = Copy(x)]
      \/ r = [about EXCEPT !.kind = "delete"]
      \/ \E ttl \in TTLs : r = [about EXCEPT !.batch = TRUE, !.item = [seen |-> InputOf(shown), ttl |-> ttl]]
  BY Zenon DEF Requests
<1>2. r.echo # FALSE
  OBVIOUS
<1> HIDE DEF inputs, f, same, shown
<1>3. PICK x \in inputs : r = [about EXCEPT !.desired = x, !.echo = same(x)]
  <2>1. ~ \E x \in inputs :
            r = [about EXCEPT !.kind = "create", !.id = {}, !.expected = None, !.desired = Copy(x)]
    BY <1>2
  <2>2. r # [about EXCEPT !.kind = "delete"]
    BY <1>2
  <2>3. ~ \E ttl \in TTLs : r = [about EXCEPT !.batch = TRUE, !.item = [seen |-> InputOf(shown), ttl |-> ttl]]
    BY <1>2
  <2> HIDE DEF about
  <2> QED BY <1>1, <2>1, <2>2, <2>3
<1>4. /\ r.kind = "update" /\ r.id = set.id /\ r.expected = f /\ r.batch = FALSE
      /\ r.desired = x /\ r.echo = same(x)
  BY <1>3
<1>5. shown = set /\ x = InputOf(set)
  BY <1>4, Zenon DEF same
<1> QED
  BY <1>4, <1>5 DEF Sees, f, shown

\* Records of Huawei Cloud that are the same are listed alike.
LEMMA SameRaw ==
  ASSUME NEW id, NEW r, NEW s, s.name = r.name, s.type = r.type, s.ttl = r.ttl, s.values = r.values, s.line = r.line,
         s.weight = r.weight, s.enabled = r.enabled, s.phase = r.phase, s.system = r.system
  PROVE  Huawei!RawSet(id, s) = Huawei!RawSet(id, r)
<1>1. Huawei!EntriesOf(s) = Huawei!EntriesOf(r)
  BY Zenon DEF Huawei!EntriesOf
<1>2. Huawei!ProviderStatus(s) = Huawei!ProviderStatus(r)
  BY Zenon DEF Huawei!ProviderStatus
<1>3. Huawei!ShownStatus(s) = Huawei!ShownStatus(r)
  BY <1>2, Zenon DEF Huawei!ShownStatus
<1> QED
  BY <1>1, <1>2, <1>3, Zenon DEF Huawei!RawSet

LEMMA AlikeFields ==
  ASSUME NEW r, DOMAIN r = RecordFields.huawei, NEW s, Alike(r, s)
  PROVE  /\ s.name = r.name /\ s.type = r.type /\ s.ttl = r.ttl /\ s.values = r.values /\ s.line = r.line
         /\ s.weight = r.weight /\ s.enabled = r.enabled /\ s.system = r.system
         /\ Rested(s) = Rested(r) /\ \A phase : InPhase(s, phase) = InPhase(r, phase)
<1>1. DOMAIN r = {"name", "type", "ttl", "values", "line", "weight", "enabled", "phase", "system"}
  BY DEF RecordFields
<1>2. \A f \in DOMAIN r : f # "phase" => s[f] = r[f]
  BY Zenon DEF Alike
<1>3. s["enabled"] = r["enabled"] /\ s["system"] = r["system"]
  <2>1. "enabled" \in DOMAIN r /\ "enabled" # "phase" /\ "system" \in DOMAIN r /\ "system" # "phase"
    BY <1>1
  <2> QED BY <1>2, <2>1, Zenon
<1>4. \A phase : InPhase(s, phase) = InPhase(r, phase)
  <2>1. \A a, phase : InPhase(a, phase) = [f \in DOMAIN a |-> IF f = "phase" THEN phase ELSE a[f]]
    BY DEF InPhase
  <2>2. DOMAIN s = DOMAIN r
    BY Zenon DEF Alike
  <2> QED BY <1>2, <2>1, <2>2
<1>5. Rested(s) = Rested(r)
  <2>1. \A a : Rested(a) = InPhase(a, NoStatus)
    BY Zenon DEF Rested, InPhase
  <2> QED BY <1>4, <2>1
<1> QED
  BY <1>1, <1>2, <1>3, <1>4, <1>5

LEMMA PhaseOf ==
  ASSUME NEW r, "phase" \in DOMAIN r, NEW phase
  PROVE  InPhase(r, phase).phase = phase
BY DEF InPhase

LEMMA GivenAlike ==
  ASSUME adapter = "huawei", NEW r, DOMAIN r = RecordFields.huawei, Given(adapter, r), NEW s, Alike(r, s)
  PROVE  Given(adapter, s)
<1>1. s.values = r.values /\ s.type = r.type
  BY AlikeFields
<1> QED
  BY <1>1, Zenon DEF Given

\* A set of Huawei Cloud, as it was listed when nothing was pending.
OwnSet(zone, id, phase) == P!Listed(Huawei!RawSet(id, InPhase(zone[id], phase)))

\* The phases a set goes through while it is sent back.
Resting == Phases \ Huawei!Pendings
Calm == {NoStatus, "PENDING_UPDATE"} \cup Huawei!Stops

LEMMA CalmPhases ==
  /\ "PENDING_DELETE" \notin Calm /\ "PENDING_UPDATE" \in Calm /\ Resting \subseteq Calm
  /\ {NoStatus} \cup Halts \subseteq Calm /\ Calm \ Huawei!Pendings = Resting
  /\ \A phase \in Resting : phase = "" \/ phase \in Huawei!Stops
<1>1. "PENDING_DELETE" \notin Huawei!Stops /\ "PENDING_UPDATE" \in Huawei!Pendings
      /\ Huawei!Stops \cap Huawei!Pendings = {} /\ NoStatus \notin Huawei!Pendings
  BY DEF Huawei!Stops, Huawei!Pendings, NoStatus
<1> QED
  BY <1>1, HaltsAssumption DEF Calm, Resting, Phases, NoStatus

\* The zone of Huawei Cloud while a set is sent back: at most the same is
\* written once more.
Restated(zone, q, calls) ==
  /\ \A id \in DOMAIN zone : zone[id].phase \in Calm
  /\ \E id \in DOMAIN zone, phase \in Resting :
       /\ q.id = {id} /\ Sees(q, OwnSet(zone, id, phase))
       /\ \A c \in Items(calls) : c.id = id /\ Restates(c, zone[id])

\* What the zone serves, of any view of its records.
ServedOf(view) ==
  IF adapter # "huawei" THEN view
  ELSE [id \in {i \in DOMAIN view : view[i].phase # "PENDING_DELETE"} |-> Rested(view[id])]

LEMMA ServedIs ==
  Served = ServedOf(records)
BY ServedParts DEF ServedOf

\* A step that changes nothing but the phase.
LEMMA RestatedAlike ==
  ASSUME adapter = "huawei", NEW zone, ViewOK(zone), AllGiven(zone), NEW q, NEW calls, Restated(zone, q, calls),
         NEW new, DOMAIN new = DOMAIN zone,
         \A id \in DOMAIN zone : Alike(zone[id], new[id]) /\ new[id].phase \in Calm,
         NEW rest, Items(rest) \subseteq Items(calls)
  PROVE  Restated(new, q, rest) /\ AllGiven(new) /\ ServedOf(new) = ServedOf(zone)
<1>1. \A id \in DOMAIN zone : DOMAIN zone[id] = RecordFields.huawei
  BY DEF ViewOK, RecordOK
<1>2. \A id \in DOMAIN zone :
         Rested(new[id]) = Rested(zone[id]) /\ \A phase : InPhase(new[id], phase) = InPhase(zone[id], phase)
  BY <1>1, AlikeFields
<1>3. AllGiven(new)
  BY <1>1, GivenAlike DEF AllGiven
<1>4. ServedOf(new) = ServedOf(zone)
  <2>1. "PENDING_DELETE" \notin Calm
    BY CalmPhases
  <2>2. /\ {i \in DOMAIN new : new[i].phase # "PENDING_DELETE"} = DOMAIN zone
        /\ {i \in DOMAIN zone : zone[i].phase # "PENDING_DELETE"} = DOMAIN zone
    BY <2>1, Zenon DEF Restated
  <2> QED BY <1>2, <2>2 DEF ServedOf
<1>5. PICK id \in DOMAIN zone, phase \in Resting :
         /\ q.id = {id} /\ Sees(q, OwnSet(zone, id, phase))
         /\ \A c \in Items(calls) : c.id = id /\ Restates(c, zone[id])
  BY DEF Restated
<1>6. OwnSet(new, id, phase) = OwnSet(zone, id, phase)
  BY <1>2, Zenon DEF OwnSet
<1>7. ASSUME NEW c \in Items(rest) PROVE c.id = id /\ Restates(c, new[id])
  <2>1. c.id = id /\ Restates(c, zone[id]) /\ Alike(zone[id], new[id])
    BY <1>5
  <2> QED BY <2>1 DEF Restates, Alike
<1>8. Restated(new, q, rest)
  BY <1>5, <1>6, <1>7 DEF Restated
<1> QED
  BY <1>3, <1>4, <1>8

LEMMA RestatesAlike ==
  ASSUME NEW r, DOMAIN r = RecordFields.huawei, NEW c, Restates(c, r), NEW new, new = P!Overlay(c.with, r)
  PROVE  Alike(r, new) /\ new.phase = "PENDING_UPDATE"
<1>1. DOMAIN new = DOMAIN r /\ \A f \in DOMAIN r : new[f] = IF f \in DOMAIN c.with THEN c.with[f] ELSE r[f]
  BY OverlayFields
<1>2. "phase" \in DOMAIN r
  BY DEF RecordFields
<1>3. Alike(r, new)
  BY <1>1 DEF Restates, Alike
<1> QED
  BY <1>1, <1>2, <1>3 DEF Restates

\* A call of the plan.
LEMMA RestatedCall ==
  ASSUME adapter = "huawei", NEW zone, ViewOK(zone), AllGiven(zone), NEW q, NEW calls, Restated(zone, q, calls),
         NEW c \in Items(calls), NEW new, new = P!Applied(zone, c), NEW rest, Items(rest) \subseteq Items(calls)
  PROVE  Restated(new, q, rest) /\ AllGiven(new) /\ ServedOf(new) = ServedOf(zone)
<1>1. PICK id \in DOMAIN zone : c.id = id /\ Restates(c, zone[id])
  BY DEF Restated
<1>2. new = [i \in DOMAIN zone |-> IF i = id THEN P!Overlay(c.with, zone[i]) ELSE zone[i]]
  BY <1>1, AppliedParts DEF Restates
<1>3. DOMAIN zone[id] = RecordFields.huawei
  BY DEF ViewOK, RecordOK
<1>4. Alike(zone[id], new[id]) /\ new[id].phase = "PENDING_UPDATE"
  BY <1>1, <1>2, <1>3, RestatesAlike
<1>5. ASSUME NEW i \in DOMAIN zone PROVE Alike(zone[i], new[i]) /\ new[i].phase \in Calm
  <2>1. CASE i = id
    BY <1>4, <2>1, CalmPhases
  <2>2. CASE i # id
    <3>1. new[i] = zone[i] /\ zone[i].phase \in Calm
      BY <1>2, <2>2 DEF Restated
    <3> QED BY <3>1, RestedAlike
  <2> QED BY <2>1, <2>2
<1>6. DOMAIN new = DOMAIN zone
  BY <1>2
<1> QED
  BY <1>5, <1>6, RestatedAlike

\* What is pending is done.
LEMMA RestatedSettles ==
  ASSUME adapter = "huawei", NEW zone, ViewOK(zone), AllGiven(zone), NEW q, NEW calls, Restated(zone, q, calls),
         NEW id \in DOMAIN zone, NEW phase \in {NoStatus} \cup Halts,
         NEW new, DOMAIN new = DOMAIN zone, new[id] = InPhase(zone[id], phase),
         \A i \in DOMAIN zone : i # id => new[i] = zone[i]
  PROVE  Restated(new, q, calls) /\ AllGiven(new) /\ ServedOf(new) = ServedOf(zone)
<1>2. "phase" \in DOMAIN zone[id]
  BY DEF ViewOK, RecordOK, RecordFields
<1>3. ASSUME NEW i \in DOMAIN zone PROVE Alike(zone[i], new[i]) /\ new[i].phase \in Calm
  <2>1. CASE i = id
    <3>1. new[id].phase = phase
      BY <1>2, PhaseOf
    <3> QED BY <2>1, <3>1, RestedAlike, CalmPhases
  <2>2. CASE i # id
    <3>1. new[i] = zone[i] /\ zone[i].phase \in Calm
      BY <2>2 DEF Restated
    <3> QED BY <3>1, RestedAlike
  <2> QED BY <2>1, <2>2
<1>4. Items(calls) \subseteq Items(calls)
  OBVIOUS
<1> QED
  BY <1>3, <1>4, RestatedAlike

\* The plan of a set of Huawei Cloud that is sent back.
LEMMA OwnSetAtRest ==
  ASSUME NEW zone, NEW id, DOMAIN zone[id] = RecordFields.huawei, NEW phase, zone[id].phase = phase
  PROVE  OwnSet(zone, id, phase) = P!Listed(Huawei!RawSet(id, zone[id]))
<1> DEFINE r == zone[id]
           s == InPhase(zone[id], phase)
<1>1. DOMAIN r = RecordFields.huawei /\ s = InPhase(r, phase) /\ r.phase = phase
  OBVIOUS
<1> HIDE DEF r, s
<1>2. Alike(r, s) /\ s.phase = phase
  BY <1>1, RestedAlike, PhaseOf DEF RecordFields
<1>3. Huawei!RawSet(id, s) = Huawei!RawSet(id, r)
  BY <1>1, <1>2, AlikeFields, SameRaw
<1> QED
  BY <1>3, Zenon DEF OwnSet, r, s

\* A set is listed with the provider's status of it, and its fingerprint too.
LEMMA ListedExt ==
  ASSUME NEW id, NEW r, NEW set, set = P!Listed(Huawei!RawSet(id, r))
  PROVE  /\ set.ext.provider = Huawei!ProviderStatus(r)
         /\ set.fingerprint.ext.provider = Huawei!ProviderStatus(r)
<1> DEFINE raw == Huawei!RawSet(id, r)
           N == P!Normalized(raw)
<1>1. raw.ext.provider = Huawei!ProviderStatus(r)
  BY RawStatus
<1>2. raw = [id |-> raw.id, name |-> raw.name, type |-> raw.type, ttl |-> raw.ttl,
             entries |-> raw.entries, ext |-> raw.ext, fingerprint |-> raw.fingerprint]
  <2> DEFINE e == Huawei!EntriesOf(r)
             x == [status |-> Huawei!ShownStatus(r), provider |-> Huawei!ProviderStatus(r),
                   default |-> IF r.system THEN TRUE ELSE None]
  <2>1. raw = [id |-> {id}, name |-> r.name, type |-> r.type, ttl |-> r.ttl, entries |-> e, ext |-> x,
               fingerprint |-> None]
    BY Zenon DEF Huawei!RawSet
  <2> HIDE DEF e, x, raw
  <2> QED BY <2>1
<1>3. set = [N EXCEPT !.fingerprint = P!Digest(N)]
  BY DEF P!Listed
<1> HIDE DEF raw
<1>4. P!Digest(N).ext = raw.ext
  BY <1>2, DigestExt
<1>5. N = [raw EXCEPT !.entries = P!NormalEntries(raw)]
  BY DEF P!Normalized
<1>6. N.ext = raw.ext /\ "fingerprint" \in DOMAIN N
  BY <1>2, <1>5
<1> HIDE DEF N
<1>7. set.ext = raw.ext /\ set.fingerprint = P!Digest(N)
  BY <1>3, <1>6
<1> QED
  BY <1>1, <1>4, <1>7

\* A set at rest that shows the status it was listed with is in that phase again.
LEMMA SamePhase ==
  ASSUME NEW r, "phase" \in DOMAIN r, r.phase \in Resting, NEW phase \in Resting,
         Huawei!ProviderStatus(r) = Huawei!ProviderStatus(InPhase(r, phase))
  PROVE  r.phase = phase
<1> DEFINE s == InPhase(r, phase)
<1>1. s.phase = phase
  BY PhaseOf
<1> HIDE DEF s
<1>2. "ACTIVE" \notin Huawei!Stops /\ "DISABLE" \notin Huawei!Stops
  BY DEF Huawei!Stops
<1>3. Huawei!ProviderStatus(r) = Huawei!ProviderStatus(s)
  BY DEF s
<1>4. (r.phase = "" \/ r.phase \in Huawei!Stops) /\ (phase = "" \/ phase \in Huawei!Stops)
  BY CalmPhases
<1> QED
  BY <1>1, <1>2, <1>3, <1>4 DEF Huawei!ProviderStatus

LEMMA RestatedPlan ==
  ASSUME adapter = "huawei", Kept, Underway, stage = "asked", AllGiven(records), Restated(records, request, <<>>),
         NEW view \in Views, NEW p, p = PlanFrom(view), Allowed(p)
  PROVE  Restated(records, request, p.calls)
<1>1. PICK id \in DOMAIN records, phase \in Resting : request.id = {id} /\ Sees(request, OwnSet(records, id, phase))
  BY DEF Restated
<1> DEFINE r == records[id]
           sets == Sets(view)
           x == request.input
           own == OwnSet(records, id, phase)
<1>2. request.kind = "update" /\ PassedOn(request)
  BY <1>1 DEF Sees, Kept, RequestKept
<1>3. ViewOK(view) /\ ViewOK(records) /\ issued \in Nat /\ adapter \in Adapters
  BY ViewsOK, KeptView
<1>4. id \in DOMAIN view /\ view[id] = r /\ \A i \in DOMAIN view : i = id
  <2>1. view = [i \in DOMAIN records \cap request.id |-> records[i]]
    BY <1>2 DEF Views
  <2> QED BY <1>1, <2>1
<1>5. PICK set \in Sets(view) : set.id = request.id /\ P!Matches(request.expected, set) /\ p = UpdatePlan(set, sets)
  BY <1>2, PlanFromParts
<1>6. Readable(view) /\ Huawei!Readable(view)
  BY PlanFromParts DEF Readable
<1>7. DOMAIN r = RecordFields.huawei /\ "phase" \in DOMAIN r
  BY <1>3 DEF ViewOK, RecordOK, RecordFields
<1>8. set = P!Listed(Huawei!RawSet(id, r))
  <2>1. PICK i \in DOMAIN view : set = P!Listed(Huawei!RawSet(i, view[i]))
    BY <1>5, SameListed DEF Sets, Huawei!Sets
  <2> QED BY <1>4, <2>1
<1>9. r.phase = phase
  <2>1. AtRest(request.expected)
    BY <1>2 DEF Underway
  <2>2. r.phase \notin Huawei!Pendings
    BY <1>1, <1>3, <1>4, <1>5, <1>6, <2>1, HuaweiRests
  <2>3. r.phase \in Resting
    BY <2>2, CalmPhases DEF Restated
  <2>4. request.expected = own.fingerprint
    BY <1>1 DEF Sees
  <2>5. own.fingerprint.ext.provider = Huawei!ProviderStatus(InPhase(r, phase))
    BY ListedExt DEF OwnSet
  <2>6. P!Digest(P!Normalized(set)) = request.expected
    BY <1>5 DEF P!Matches
  <2>7. SetOK(set)
    BY <1>3, <1>5, <1>6, SetsOK
  <2>8. P!Digest(P!Normalized(set)).ext = set.ext
    BY <2>7, DigestExt DEF SetOK
  <2>9. set.ext.provider = Huawei!ProviderStatus(r)
    BY <1>8, ListedExt
  <2>10. Huawei!ProviderStatus(r) = Huawei!ProviderStatus(InPhase(r, phase))
    BY <2>4, <2>5, <2>6, <2>8, <2>9
  <2> HIDE DEF r
  <2> QED BY <1>7, <2>3, <2>10, SamePhase
<1>10. own = set
  BY <1>7, <1>8, <1>9, OwnSetAtRest
<1>11. x = InputOf(set) /\ request.expected = set.fingerprint
  <2>1. SetOK(set) /\ Sees(request, set)
    BY <1>1, <1>3, <1>5, <1>6, <1>10, SetsOK
  <2> QED BY <1>2, <2>1, SeenInput DEF Sees
<1>12. p = Huawei!UpdatePlan(x, set, sets, issued)
  BY <1>5 DEF UpdatePlan
<1>13. P!Matches(set.fingerprint, set) /\ Given(adapter, r) /\ HuaweiRead(set, id, r) /\ r = view[id]
  BY <1>4, <1>5, <1>8, <1>11 DEF AllGiven, HuaweiRead
<1> HIDE DEF r, sets, x, own
<1>14. PICK c : p.calls = <<c>> /\ c.id = id /\ Restates(c, r)
  BY <1>3, <1>4, <1>6, <1>11, <1>12, <1>13, HuaweiEchoes
<1>15. Items(p.calls) = {c}
  BY <1>14, SinglesOK
<1> QED
  BY <1>1, <1>14, <1>15 DEF Restated, r

\* The plan of a set of single records.
LEMMA SingleEchoes ==
  ASSUME adapter # "huawei", Kept, stage = "asked", AllGiven(records), before = records,
         NEW own \in Sets(records), Sees(request, own), NEW view \in Views, NEW p, p = PlanFrom(view), Allowed(p)
  PROVE  p.calls = <<>>
<1> DEFINE sets == Sets(view)
           x == request.input
<1>1. request.kind = "update" /\ PassedOn(request)
  BY DEF Sees, Kept, RequestKept
<1>2. ViewOK(view) /\ issued \in Nat /\ adapter \in Adapters
  BY ViewsOK, KeptView
<1>3. view = records
  BY DEF Views
<1>4. Readable(view)
  BY PlanFromParts
<1>5. PICK set \in Sets(view) : set.id = request.id /\ P!Matches(request.expected, set) /\ p = UpdatePlan(set, sets)
  BY <1>1, PlanFromParts
<1>6. set = own
  <2>1. own \in Sets(view) /\ set.id = own.id
    BY <1>3, <1>5 DEF Sees
  <2> QED BY <1>2, <1>5, <2>1, SingleByID
<1>7. x = InputOf(set) /\ P!Matches(set.fingerprint, set) /\ AllGiven(view)
  <2>1. SetOK(set) /\ Sees(request, set)
    BY <1>2, <1>4, <1>5, <1>6, SetsOK
  <2> QED BY <1>1, <1>3, <1>5, <2>1, SeenInput DEF Sees
<1>8. CASE adapter = "aliyun"
  <2>1. p = Aliyun!UpdatePlan(x, set, sets, issued) /\ set \in Aliyun!Sets(view) /\ Aliyun!Readable(view)
    BY <1>4, <1>5, <1>8 DEF UpdatePlan, Sets, Readable
  <2> HIDE DEF sets, x
  <2> QED BY <1>2, <1>7, <1>8, <2>1, AliyunEchoes
<1>9. CASE adapter = "tencent"
  <2>1. p = Tencent!UpdatePlan(x, set, sets, issued) /\ set \in Tencent!Sets(view) /\ Tencent!Readable(view)
    BY <1>4, <1>5, <1>9 DEF UpdatePlan, Sets, Readable
  <2> HIDE DEF sets, x
  <2> QED BY <1>2, <1>7, <1>9, <2>1, TencentEchoes
<1>10. CASE adapter = "cloudflare"
  <2>1. p = Cloudflare!UpdatePlan(x, set, sets, issued) /\ set \in Cloudflare!Sets(view)
    BY <1>4, <1>5, <1>10 DEF UpdatePlan, Sets
  <2> HIDE DEF sets, x
  <2> QED BY <1>2, <1>7, <1>10, <2>1, CloudflareEchoes
<1> QED
  BY <1>2, <1>8, <1>9, <1>10, AdaptersAssumption

\* The calls that are still to be made.
Calls == IF stage = "calls" THEN plan.calls ELSE <<>>

\* While a set is sent back, with no one else writing, the zone serves what it
\* did when the request was sent.  The adapters for single records have nothing
\* to call; Huawei Cloud is asked to write what is there.
Untouched ==
  /\ request.batch = FALSE /\ base = ServedOf(records) /\ AllGiven(records)
  /\ adapter = "huawei" => Restated(records, request, Calls)
  /\ adapter # "huawei" =>
       before = records /\ Calls = <<>> /\ \E set \in Sets(records) : Sees(request, set)
Echoing ==
  /\ stage = "idle" => request = None /\ before = records /\ base = ServedOf(records) /\ AllGiven(records)
  /\ (stage # "idle" /\ interferences = 0) => (request.echo => Untouched)

\* The same, said of the state after a step.
LEMMA EchoNext ==
  ASSUME adapter' = adapter
  PROVE  /\ \A view : ServedOf(view)' = ServedOf(view) /\ (AllGiven(view)' <=> AllGiven(view))
         /\ \A view : Sets(view)' = Sets(view)
BY Zenon DEF ServedOf, AllGiven, Sets

LEMMA EchoStays ==
  ASSUME adapter' = adapter, stage' # "idle",
         (interferences' = 0 /\ request'.echo) =>
           /\ request'.batch = FALSE /\ base' = ServedOf(records') /\ AllGiven(records')
           /\ adapter = "huawei" => Restated(records', request', Calls')
           /\ adapter # "huawei" =>
                before' = records' /\ Calls' = <<>> /\ \E set \in Sets(records') : Sees(request', set)
  PROVE  Echoing'
<1>1. /\ ServedOf(records)' = ServedOf(records') /\ (AllGiven(records)' <=> AllGiven(records'))
      /\ Sets(records)' = Sets(records')
  BY Zenon DEF ServedOf, AllGiven, Sets
<1>2. Restated(records, request, Calls)' <=> Restated(records', request', Calls')
  BY DEF Restated, OwnSet
<1>3. (\E set \in Sets(records) : Sees(request, set))' <=> \E set \in Sets(records') : Sees(request', set)
  BY <1>1
<1>4. ASSUME interferences' = 0, request'.echo PROVE Untouched'
  BY <1>1, <1>2, <1>3, <1>4 DEF Untouched
<1> QED
  BY <1>4 DEF Echoing

LEMMA EchoInit ==
  ASSUME Init
  PROVE  Echoing
<1>1. adapter \in Adapters /\ records \in Zones[adapter] /\ stage = "idle" /\ request = None /\ before = records
  BY DEF Init
<1>2. base = ServedOf(records)
  BY ServedIs DEF Init
<1>3. AllGiven(records)
  BY <1>1, GivenAssumption DEF AllGiven
<1> QED
  BY <1>1, <1>2, <1>3 DEF Echoing

LEMMA EchoAsk ==
  ASSUME Kept, Underway, Echoing, Ask
  PROVE  Echoing'
<1>1. /\ stage = "idle" /\ Readable(records) /\ stage' = FirstStage(request')
      /\ UNCHANGED <<adapter, records, before, base>>
  BY DEF Ask
<1>2. PICK set \in Sets(records) : request' \in Requests(set)
  BY DEF Ask
<1>3. stage' \in {"batched", "received"} /\ Calls' = <<>>
  BY <1>1 DEF FirstStage, Calls
<1>6. ViewOK(records) /\ SetOK(set)
  BY <1>1, <1>2, KeptView, SetsOK
<1>4. before = records /\ base = ServedOf(records) /\ AllGiven(records)
  BY <1>1 DEF Echoing
<1>5. ASSUME request'.echo
      PROVE  /\ request'.batch = FALSE /\ Sees(request', set)
             /\ adapter = "huawei" => Restated(records', request', Calls')
  <2>1. request'.batch = FALSE /\ Sees(request', set)
    BY <1>2, <1>5, <1>6, EchoRequests
  <2>2. ASSUME adapter = "huawei" PROVE Restated(records', request', Calls')
    <3>1. PICK id \in DOMAIN records : set = P!Listed(Huawei!RawSet(id, records[id]))
      BY <1>2, <2>2, SameListed DEF Sets, Huawei!Sets
    <3>2. \A i \in DOMAIN records : records[i].phase \in Resting
      BY <1>1, <1>6, <2>2 DEF Underway, Resting, ViewOK, RecordOK
    <3>3. DOMAIN records[id] = RecordFields.huawei
      BY <2>2, KeptView DEF ViewOK, RecordOK
    <3>4. OwnSet(records, id, records[id].phase) = set
      BY <3>1, <3>3, OwnSetAtRest
    <3>5. set.id = {id}
      <4>1. ViewOK(records) /\ Huawei!Readable(records)
        BY <1>1, <2>2, KeptView DEF Readable
      <4>2. HuaweiLists(set, records, id)
        BY <2>2, <3>1, <4>1, HuaweiReads DEF HuaweiRead
      <4> QED BY <4>2 DEF HuaweiLists
    <3>6. Items(<<>>) = {}
      BY EmptyIsSeq
    <3>7. request'.id = {id}
      BY <2>1, <3>5 DEF Sees
    <3>8. Restated(records, request', <<>>)
      <4>1. \A i \in DOMAIN records : records[i].phase \in Calm
        BY <3>2, CalmPhases
      <4> QED BY <2>1, <3>2, <3>4, <3>6, <3>7, <4>1 DEF Restated
    <3> QED BY <1>1, <1>3, <3>8
  <2> QED BY <2>1, <2>2
<1> QED
  BY <1>1, <1>2, <1>3, <1>4, <1>5, EchoStays

LEMMA RestatedLess ==
  ASSUME NEW zone, NEW q, NEW calls, Restated(zone, q, calls), NEW rest, Items(rest) \subseteq Items(calls)
  PROVE  Restated(zone, q, rest)
BY DEF Restated

\* A step that leaves the zone and the request alone.
LEMMA EchoQuiet ==
  ASSUME Echoing, stage # "idle", stage' # "idle", UNCHANGED <<adapter, records, before, request, interferences>>,
         base' = base \/ base' = ServedOf(records), Calls' \in {Calls, <<>>}
  PROVE  Echoing'
<1>1. ASSUME interferences = 0, request.echo
      PROVE  /\ request.batch = FALSE /\ base' = ServedOf(records) /\ AllGiven(records)
             /\ adapter = "huawei" => Restated(records, request, Calls')
             /\ adapter # "huawei" =>
                  before = records /\ Calls' = <<>> /\ \E set \in Sets(records) : Sees(request, set)
  <2>1. Untouched
    BY <1>1 DEF Echoing
  <2>2. Items(<<>>) = {}
    BY EmptyIsSeq
  <2>3. Items(Calls') \subseteq Items(Calls)
    BY <2>2
  <2>4. adapter = "huawei" => Restated(records, request, Calls')
    BY <2>1, <2>3, RestatedLess DEF Untouched
  <2>5. adapter # "huawei" => Calls' = <<>>
    BY <2>1 DEF Untouched
  <2> QED BY <2>1, <2>4, <2>5 DEF Untouched
<1> QED
  BY <1>1, EchoStays

LEMMA EchoEnds ==
  ASSUME Kept, Echoing, RefuseItem \/ RefuseRequest \/ CallFails \/ Confirmed \/ Unconfirmed \/ ReadFails \/ Report \/ Retry
  PROVE  Echoing'
<1>1. stage # "idle" /\ stage' # "idle" /\ UNCHANGED <<adapter, records, before, request, interferences>>
  BY TurnedAway DEF TurnAway, CallFails, Called, Confirmed, Unconfirmed, ReadFails, Reading, Report, Retry, FirstStage
<1>2. base' = base \/ base' = ServedOf(records)
  BY ServedIs, TurnedAway DEF TurnAway, CallFails, Called, Confirmed, Unconfirmed, ReadFails, Reading, Report, Retry
<1>3. stage' # "calls" \/ (stage = "calls" /\ plan' = plan)
  BY TurnedAway DEF TurnAway, CallFails, Called, Confirmed, Unconfirmed, ReadFails, Reading, Report, Retry, FirstStage
<1>4. Calls' \in {Calls, <<>>}
  BY <1>3 DEF Calls
<1> QED
  BY <1>1, <1>2, <1>4, EchoQuiet

LEMMA EchoReadItem ==
  ASSUME Kept, Echoing, ReadItem
  PROVE  Echoing'
<1>1. stage = "batched" /\ stage' = "received" /\ UNCHANGED <<adapter, interferences>>
  BY DEF ReadItem
<1>2. \E x, expected : request' = [request EXCEPT !.desired = x, !.expected = expected]
  BY DEF ReadItem
<1>3. RequestOK(request) /\ request.batch
  BY <1>1 DEF Kept, RequestKept
<1>4. request = [kind |-> request.kind, id |-> request.id, expected |-> request.expected,
                 desired |-> request.desired, input |-> request.input,
                 echo |-> request.echo, batch |-> request.batch, item |-> request.item]
  BY <1>3 DEF RequestOK
<1> DEFINE echo == request.echo
           next == request'.echo
<1>5. next = echo
  BY <1>2, <1>4
<1>6. ~ (interferences = 0 /\ request.echo)
  BY <1>1, <1>3 DEF Echoing, Untouched
<1>7. ~ (interferences' = 0 /\ request'.echo)
  BY <1>1, <1>5, <1>6, Zenon
<1> QED
  BY <1>1, <1>7, EchoStays

\* The request as it is passed on is for the same set.
LEMMA EchoAdmit ==
  ASSUME Kept, Echoing, Admit
  PROVE  Echoing'
<1>1. /\ stage = "received" /\ stage' = "asked" /\ UNCHANGED <<adapter, records, before, base, interferences>>
      /\ request.kind = "delete" => request' = request
      /\ request.kind # "delete" =>
            request' = [kind |-> request.kind, id |-> request.id, expected |-> request.expected,
                        desired |-> request.desired, input |-> P!Normalized(request.desired),
                        echo |-> request.echo, batch |-> request.batch, item |-> request.item]
  BY AdmitParts
<1> DEFINE q == request
           r == request'
<1>2. /\ r.kind = q.kind /\ r.id = q.id /\ r.expected = q.expected /\ r.desired = q.desired
      /\ r.batch = q.batch
  <2>1. CASE q.kind = "delete"
    BY <1>1, <2>1
  <2>2. CASE q.kind # "delete"
    BY <1>1, <2>2
  <2> QED BY <2>1, <2>2
<1>3. r.echo = q.echo
  <2>1. CASE q.kind = "delete"
    BY <1>1, <2>1
  <2>2. CASE q.kind # "delete"
    <3> DEFINE x == P!Normalized(q.desired)
               e == q.echo
    <3>1. r = [kind |-> q.kind, id |-> q.id, expected |-> q.expected, desired |-> q.desired, input |-> x,
               echo |-> e, batch |-> q.batch, item |-> q.item]
      BY <1>1, <2>2
    <3> HIDE DEF q, r, x, e
    <3>2. r.echo = e
      BY <3>1
    <3> QED BY <3>2 DEF e
  <2> QED BY <2>1, <2>2
<1>4. Calls = <<>> /\ Calls' = <<>>
  BY <1>1 DEF Calls
<1> HIDE DEF q, r
<1>5. \A set : Sees(q, set) => Sees(r, set)
  BY <1>2, SeesSame
<1>6. ASSUME interferences = 0, r.echo
      PROVE  /\ r.batch = FALSE /\ base = ServedOf(records) /\ AllGiven(records)
             /\ adapter = "huawei" => Restated(records, r, Calls')
             /\ adapter # "huawei" =>
                  before = records /\ Calls' = <<>> /\ \E set \in Sets(records) : Sees(r, set)
  <2>1. q.echo
    BY <1>3, <1>6, Zenon
  <2>2. Untouched
    BY <1>1, <1>6, <2>1 DEF Echoing, q
  <2>3. adapter = "huawei" => Restated(records, q, <<>>)
    BY <1>4, <2>2 DEF Untouched, q
  <2>4. adapter = "huawei" => Restated(records, r, <<>>)
    BY <1>2, <1>5, <2>3 DEF Restated
  <2> QED BY <1>2, <1>4, <1>5, <2>2, <2>4 DEF Untouched, q
<1> QED
  BY <1>1, <1>6, EchoStays DEF r

LEMMA EchoBegin ==
  ASSUME Kept, Underway, Echoing, Begin
  PROVE  Echoing'
<1>1. stage = "asked" /\ UNCHANGED <<adapter, records, before, request, base, interferences>>
  BY BeginParts
<1>2. PICK view \in Views :
         /\ plan' = PlanFrom(view)
         /\ ~ Allowed(plan') => stage' = "done"
         /\ Allowed(plan') => stage' = "calls"
  BY BeginParts
<1>3. CASE ~ Allowed(plan')
  <2>1. stage' = "done" /\ Calls' = <<>>
    BY <1>2, <1>3 DEF Calls
  <2> QED BY <1>1, <2>1, EchoQuiet
<1>4. CASE Allowed(plan')
  <2>1. stage' = "calls" /\ Calls' = plan'.calls /\ Calls = <<>>
    BY <1>1, <1>2, <1>4 DEF Calls
  <2> DEFINE p == plan'
  <2>2. p = PlanFrom(view) /\ Allowed(p) /\ Calls' = p.calls
    BY <1>2, <1>4, <2>1
  <2> HIDE DEF p
  <2>3. ASSUME interferences = 0, request.echo
        PROVE  /\ request.batch = FALSE /\ base = ServedOf(records) /\ AllGiven(records)
               /\ adapter = "huawei" => Restated(records, request, p.calls)
               /\ adapter # "huawei" =>
                    before = records /\ p.calls = <<>> /\ \E set \in Sets(records) : Sees(request, set)
    <3>1. Untouched
      BY <1>1, <2>3 DEF Echoing
    <3>2. adapter = "huawei" => Restated(records, request, p.calls)
      BY <1>1, <2>1, <2>2, <3>1, RestatedPlan DEF Untouched
    <3>3. adapter # "huawei" => p.calls = <<>>
      <4>1. SUFFICES ASSUME adapter # "huawei" PROVE p.calls = <<>>
        OBVIOUS
      <4>2. PICK set \in Sets(records) : Sees(request, set)
        BY <3>1, <4>1 DEF Untouched
      <4> QED BY <1>1, <2>2, <3>1, <4>1, <4>2, SingleEchoes DEF Untouched
    <3> QED BY <3>1, <3>2, <3>3 DEF Untouched
  <2> QED BY <1>1, <2>1, <2>2, <2>3, EchoStays
<1> QED
  BY <1>3, <1>4

\* A call, whose reply may be lost.
LEMMA EchoCalled ==
  ASSUME Kept, Echoing, CallDone \/ ReplyLost
  PROVE  Echoing'
<1> DEFINE c == Head(plan.calls)
           new == records'
           rest == Calls'
<1>1. /\ Called /\ new = P!Applied(records, c) /\ before' = records
      /\ (stage' = stage /\ plan' = [plan EXCEPT !.calls = Tail(@)]) \/ stage' = "failed"
  BY DEF CallDone, ReplyLost, Put
<1>2. /\ stage = "calls" /\ plan.calls # <<>> /\ PlanKept
      /\ UNCHANGED <<adapter, request, base, interferences>>
  BY <1>1, CalledParts
<1>3. c \in Items(Calls) /\ Items(rest) \subseteq Items(Calls) /\ Calls # <<>>
  <2>1. PlanShape(plan) /\ Calls = plan.calls
    BY <1>2 DEF PlanKept, Calls
  <2>2. c \in Items(plan.calls)
    BY <1>2, <2>1, TailIsSeq DEF PlanShape
  <2>3. CASE stage' = "failed"
    BY <1>2, <2>1, <2>2, <2>3, EmptyIsSeq DEF Calls
  <2>4. CASE stage' = stage /\ plan' = [plan EXCEPT !.calls = Tail(@)]
    <3> DEFINE p == plan
               q == plan'
    <3>1. PlanShape(p) /\ p.calls # <<>> /\ q = [p EXCEPT !.calls = Tail(@)]
      BY <1>2, <2>1, <2>4
    <3>2. rest = q.calls
      BY <1>2, <2>4 DEF Calls
    <3> HIDE DEF p, q, c, rest
    <3>3. Items(q.calls) \subseteq Items(p.calls)
      BY <3>1, RestOfPlan
    <3> QED BY <1>2, <2>1, <2>2, <3>2, <3>3 DEF p
  <2> QED BY <1>1, <2>3, <2>4
<1>4. stage' # "idle"
  BY <1>1, <1>2
<1>5. ASSUME interferences = 0, request.echo
      PROVE  /\ request.batch = FALSE /\ base = ServedOf(new) /\ AllGiven(new)
             /\ adapter = "huawei" /\ Restated(new, request, rest)
  <2>1. Untouched
    BY <1>2, <1>5 DEF Echoing
  <2>2. adapter = "huawei"
    BY <1>3, <2>1 DEF Untouched
  <2>3. ViewOK(records) /\ AllGiven(records) /\ Restated(records, request, Calls)
    BY <2>1, <2>2, KeptView DEF Untouched
  <2> HIDE DEF c, new, rest
  <2>4. Restated(new, request, rest) /\ AllGiven(new) /\ ServedOf(new) = ServedOf(records)
    BY <1>1, <1>3, <2>2, <2>3, RestatedCall
  <2> QED BY <2>1, <2>2, <2>4 DEF Untouched
<1> QED
  BY <1>2, <1>4, <1>5, EchoStays

LEMMA EchoSettle ==
  ASSUME Kept, Echoing, Settle
  PROVE  Echoing'
<1>1. adapter = "huawei" /\ stage # "idle" /\ UNCHANGED <<adapter, request, stage, plan, base, interferences>>
  BY SettleParts DEF Settle
<1>2. PICK id \in DOMAIN records :
         \/ records[id].phase = "PENDING_DELETE" /\ records' = Without(records, id)
         \/ /\ records[id].phase # "PENDING_DELETE"
            /\ \E phase \in {NoStatus} \cup Halts : records' = [records EXCEPT ![id] = InPhase(@, phase)]
  BY SettleParts
<1>3. Calls' = Calls
  BY <1>1 DEF Calls
<1>4. ASSUME interferences = 0, request.echo
      PROVE  /\ request.batch = FALSE /\ base = ServedOf(records') /\ AllGiven(records')
             /\ Restated(records', request, Calls)
  <2>1. Untouched
    BY <1>1, <1>4 DEF Echoing
  <2>2. ViewOK(records) /\ AllGiven(records) /\ Restated(records, request, Calls)
    BY <1>1, <2>1, KeptView DEF Untouched
  <2>3. records[id].phase # "PENDING_DELETE"
    BY <2>2, CalmPhases DEF Restated
  <2> DEFINE new == records'
  <2>6. PICK phase \in {NoStatus} \cup Halts : new = [records EXCEPT ![id] = InPhase(@, phase)]
    BY <1>2, <2>3
  <2>4. /\ DOMAIN new = DOMAIN records /\ new[id] = InPhase(records[id], phase)
        /\ \A i \in DOMAIN records : i # id => new[i] = records[i]
    BY <2>6
  <2> HIDE DEF new
  <2>5. Restated(new, request, Calls) /\ AllGiven(new) /\ ServedOf(new) = ServedOf(records)
    BY <1>1, <2>2, <2>4, RestatedSettles
  <2> QED BY <2>1, <2>5 DEF Untouched, new
<1> QED
  BY <1>1, <1>3, <1>4, EchoStays

LEMMA EchoInterfere ==
  ASSUME Kept, Echoing, Interfere
  PROVE  Echoing'
<1>1. stage # "idle" /\ UNCHANGED <<adapter, stage>> /\ interferences' = interferences + 1
  BY InterfereParts DEF Interfere
<1>2. interferences' # 0
  <2>1. interferences \in 0..MaxInterferences /\ MaxInterferences \in Nat
    BY KeptTypes, BoundsAssumption
  <2> QED BY <1>1, <2>1
<1> QED
  BY <1>1, <1>2, EchoStays

LEMMA EchoStutter ==
  ASSUME Echoing, UNCHANGED vars
  PROVE  Echoing'
<1>1. UNCHANGED <<adapter, records, before, request, stage, plan, base, interferences>>
  BY DEF vars
<1>2. CASE stage = "idle"
  <2>1. ServedOf(records)' = ServedOf(records) /\ (AllGiven(records)' <=> AllGiven(records))
    BY <1>1, Zenon DEF ServedOf, AllGiven
  <2> QED BY <1>1, <1>2, <2>1 DEF Echoing
<1>3. CASE stage # "idle"
  <2>1. Calls' = Calls
    BY <1>1 DEF Calls
  <2> QED BY <1>1, <1>3, <2>1, EchoQuiet
<1> QED
  BY <1>2, <1>3

LEMMA EchoingNext ==
  ASSUME Kept, Underway, Echoing, [Next]_vars
  PROVE  Echoing'
BY Zenon, EchoAsk, EchoReadItem, EchoAdmit, EchoEnds, EchoBegin, EchoCalled, EchoSettle, EchoInterfere, EchoStutter DEF Next

\* What is served is all that the property speaks of.
LEMMA EchoUnchanged ==
  ASSUME Echoing
  PROVE  EchoChangesNothing
<1>1. SUFFICES ASSUME request # None, interferences = 0, request.echo PROVE Served = base
  BY Zenon DEF EchoChangesNothing
<1>2. Untouched
  BY <1>1 DEF Echoing
<1> QED
  BY <1>2, ServedIs DEF Untouched

\* A set sent back as it was shown leaves the zone as it is, for every adapter
\* and zone, whichever calls and reads fail and however often the request is
\* sent again, as long as no one else writes, if the service shows the set as
\* the adapter lists it.
THEOREM EchoAlwaysChangesNothing == Spec => []EchoChangesNothing
<1>1. Init => Echoing
  BY EchoInit
<1>2. Kept /\ Underway /\ Echoing /\ [Next]_vars => Echoing'
  BY EchoingNext
<1>3. Echoing => EchoChangesNothing
  BY EchoUnchanged
<1> QED
  BY <1>1, <1>2, <1>3, AlwaysKept, AlwaysUnderway, PTL DEF Spec

=============================================================================
