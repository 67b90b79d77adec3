-------------------------- MODULE RecordMutations --------------------------
(***************************************************************************)
(* One mutation of a record set: the service checks the request against    *)
(* the set it reads and passes it on in its normal form, the adapter makes *)
(* its own list, compares the precondition, plans its calls, each of which *)
(* may fail or be done without its reply arriving, and does the final      *)
(* reads.  The zone is also written by others, and a list may show what it *)
(* was before the last write.  A failed request is sent again as it was:   *)
(* the adapters never repeat a mutating call by themselves.                *)
(***************************************************************************)
EXTENDS Integers, FiniteSets, Sequences, TLC

CONSTANTS None,
          Adapters,      \* the adapters to check
          Zones,         \* for each adapter, the zones to start from
          EntryExts,     \* for each, the extensions a client gives an entry
          SetExts,       \* and a record set
          Texts, Nums, TTLs, Names,  \* values a client writes
          Edits,         \* how many edits a client makes of a listed set (bound)
          MaxAttempts,   \* how often a request is sent (bound)
          MaxInterferences, \* writes of others (bound)
          Halts,         \* what Huawei Cloud stops at, besides what was asked for
          FinalReads,    \* repeated final reads (bound; the code has 5 or 6)
          Faults,        \* calls fail
          Lag            \* lists lag behind

VARIABLES adapter,    \* the adapter of the account
          records,    \* the provider's records, by ID
          before,     \* the records before the last write
          issued,     \* no record ID beyond it has been given out
          request,    \* the mutation asked for
          stage,      \* "idle", "batched", "received", "asked", "calls", "failed" or "done"
          plan,       \* what the adapter still has to do, and expects to read
          result,     \* the answer and the record set returned
          base,       \* what the zone served when the last attempt was asked for
          disturbed,  \* the last attempt saw others' writes, or an old list
          halfDone,   \* an attempt before the last one changed what clients are shown
          attempts, reads, interferences

vars == <<adapter, records, before, issued, request, stage, plan, result, base, disturbed,
          halfDone, attempts, reads, interferences>>

P == INSTANCE ProviderRecords
Aliyun == INSTANCE AliyunAdapter
Tencent == INSTANCE TencentAdapter
Cloudflare == INSTANCE CloudflareAdapter
Huawei == INSTANCE HuaweiAdapter

Put(new) == records' = new /\ before' = records

---------------------------------------------------------------------------
(* Assumptions. *)

ASSUME BoundsAssumption ==
  /\ MaxAttempts \in Nat \ {0} /\ MaxInterferences \in Nat /\ FinalReads \in Nat \ {0}
  /\ Edits \in Nat

ASSUME AdaptersAssumption == Adapters \subseteq {"aliyun", "tencent", "cloudflare", "huawei"}

\* A Huawei Cloud entry's own fields, if it has any.
Weights == Int \cup {None}
Lines == STRING \cup {""}  \* a record may have none
Routing == [line : Lines, weight : Weights]

ASSUME HaltsAssumption == Halts \subseteq Huawei!Stops

ASSUME NoneAssumption == None \notin Nat \cup BOOLEAN \cup Routing

\* The records of each provider, as its adapter's module describes them.
RecordFields ==
  [aliyun |-> {"name", "type", "ttl", "line", "status", "weighted", "weight", "remark", "text",
               "num"},
   tencent |-> {"name", "type", "ttl", "line", "status", "weight", "remark", "system", "text",
                "num"},
   cloudflare |-> {"name", "type", "ttl", "proxied", "proxiable", "comment", "tags", "text",
                   "num"},
   huawei |-> {"name", "type", "ttl", "values", "line", "weight", "enabled", "phase",
               "system"}]
Phases == {""} \cup Huawei!Pendings \cup Huawei!Stops
ValuesOK(values) ==
  /\ values \in Seq({values[i] : i \in DOMAIN values})
  /\ \A i \in DOMAIN values : DOMAIN values[i] = {"text", "num"}
RecordOK(a, r) ==
  /\ DOMAIN r = RecordFields[a]
  /\ IF a = "huawei"
     THEN ValuesOK(r.values) /\ r.line \in Lines /\ r.weight \in Weights /\ r.phase \in Phases
     ELSE r.type \in {"CNAME", "NS"} => r.num = None

\* The provider has numbered the records of a zone, and works on none of them.
ASSUME ZonesAssumption ==
  \A a \in Adapters : \A z \in Zones[a] :
    /\ IsFiniteSet(DOMAIN z) /\ DOMAIN z = 1..Cardinality(DOMAIN z)
    /\ \A id \in DOMAIN z : RecordOK(a, z[id]) /\ (a = "huawei" => z[id].phase \notin Huawei!Pendings)

\* Texts as the providers give them: Huawei Cloud keeps the values of TXT and CAA
\* records in quotation marks, and a CNAME or NS record has nothing but a target.
\* What an adapter reads of a record's own fields is not nil.
Given(a, r) ==
  IF a = "huawei"
  THEN \A i \in DOMAIN r.values :
         LET v == r.values[i]
             quotes == IF r.type \in {"TXT", "CAA"} THEN Nat \ {0} ELSE Nat
         IN
         /\ v \in [text : [word : STRING, quotes : quotes], num : {v.num}]
         /\ r.type \in {"CNAME", "NS"} => v.num = None
  ELSE /\ r.text.quotes \in Nat
       /\ a = "aliyun" => Aliyun!EntryOf(0, r).ext # None
       /\ a = "tencent" => Tencent!EntryOf(0, r).ext # None
       /\ a = "cloudflare" => r.proxied \in BOOLEAN /\ Cloudflare!SetExt(<<r>>) # None
ASSUME GivenAssumption ==
  \A a \in Adapters : \A z \in Zones[a] : \A id \in DOMAIN z : Given(a, z[id])

\* The entries of Cloudflare have no fields of its own.
ASSUME ExtsAssumption ==
  /\ "huawei" \in Adapters => EntryExts["huawei"] \subseteq Routing \cup {None}
  /\ "cloudflare" \in Adapters => EntryExts["cloudflare"] \subseteq {None}

---------------------------------------------------------------------------
(* The adapter in use. *)

Readable(view) ==
  IF adapter = "aliyun" THEN Aliyun!Readable(view)
  ELSE IF adapter = "tencent" THEN Tencent!Readable(view)
  ELSE IF adapter = "cloudflare" THEN Cloudflare!Readable(view)
  ELSE Huawei!Readable(view)

Sets(view) ==
  IF adapter = "aliyun" THEN Aliyun!Sets(view)
  ELSE IF adapter = "tencent" THEN Tencent!Sets(view)
  ELSE IF adapter = "cloudflare" THEN Cloudflare!Sets(view)
  ELSE Huawei!Sets(view)

CreatePlan(sets) ==
  IF adapter = "aliyun" THEN Aliyun!CreatePlan(request.input, sets, issued)
  ELSE IF adapter = "tencent" THEN Tencent!CreatePlan(request.input, sets, issued)
  ELSE IF adapter = "cloudflare" THEN Cloudflare!CreatePlan(request.input, sets, issued)
  ELSE Huawei!CreatePlan(request.input, sets, issued)

UpdatePlan(set, sets) ==
  IF adapter = "aliyun" THEN Aliyun!UpdatePlan(request.input, set, sets, issued)
  ELSE IF adapter = "tencent" THEN Tencent!UpdatePlan(request.input, set, sets, issued)
  ELSE IF adapter = "cloudflare" THEN Cloudflare!UpdatePlan(request.input, set, sets, issued)
  ELSE Huawei!UpdatePlan(request.input, set, sets, issued)

DeletePlan(set) ==
  IF adapter = "aliyun" THEN Aliyun!DeletePlan(set)
  ELSE IF adapter = "tencent" THEN Tencent!DeletePlan(set)
  ELSE IF adapter = "cloudflare" THEN Cloudflare!DeletePlan(set)
  ELSE Huawei!DeletePlan(set)

FinalSets(sets) ==
  IF adapter = "aliyun" THEN Aliyun!FinalSets(plan, sets)
  ELSE IF adapter = "tencent" THEN Tencent!FinalSets(plan, sets)
  ELSE IF adapter = "cloudflare" THEN Cloudflare!FinalSets(plan, sets)
  ELSE Huawei!FinalSets(plan, sets)

StillThere(sets) ==
  IF adapter = "aliyun" THEN Aliyun!StillThere(plan, sets)
  ELSE IF adapter = "tencent" THEN Tencent!StillThere(plan, sets)
  ELSE IF adapter = "cloudflare" THEN Cloudflare!StillThere(plan, sets)
  ELSE Huawei!StillThere(plan, sets)

ReadsAgain ==
  IF adapter = "aliyun" THEN Aliyun!ReadsAgain(request.kind)
  ELSE IF adapter = "tencent" THEN Tencent!ReadsAgain(request.kind)
  ELSE IF adapter = "cloudflare" THEN Cloudflare!ReadsAgain(request.kind)
  ELSE Huawei!ReadsAgain(request.kind)

CallRefused(call) ==
  IF adapter = "aliyun" THEN Aliyun!CallRefused(records, call)
  ELSE IF adapter = "tencent" THEN Tencent!CallRefused(records, call)
  ELSE IF adapter = "cloudflare" THEN Cloudflare!CallRefused(records, call)
  ELSE Huawei!CallRefused(records, call)

---------------------------------------------------------------------------
(* Clients. *)

InputOf(set) ==
  [name |-> set.name, type |-> set.type, ttl |-> set.ttl, entries |-> set.entries, ext |-> set.ext]

\* One edit of a record set in a client: of a value, of the entries, of what
\* the set has in common, or of the provider's own fields.
EditedEntries(es) ==
  LET n == Len(es) IN
  (UNION {{[es EXCEPT ![i].text = text] : i \in 1..n} : text \in Texts})
  \cup (UNION {{[es EXCEPT ![i].num = num] : i \in {j \in 1..n : es[j].num # None}} : num \in Nums})
  \cup {[es EXCEPT ![1].id = None]}
  \cup {SubSeq(es, 1, k - 1) : k \in {n} \ {1}}
  \cup {Append(es, [id |-> None, text |-> text, num |-> es[1].num, ext |-> es[1].ext])
         : text \in Texts}
  \cup {[i \in 1..n |-> [es[i] EXCEPT !.ext = ext]] : ext \in EntryExts[adapter]}
Edited(x) ==
  {x}
  \cup {[x EXCEPT !.entries = es] : es \in EditedEntries(x.entries)}
  \cup {[x EXCEPT !.ttl = ttl] : ttl \in TTLs}
  \cup {[x EXCEPT !.name = name] : name \in Names}
  \cup {[x EXCEPT !.ext = ext] : ext \in SetExts[adapter]}

Inputs(set) ==
  LET after[k \in 0..Edits] ==
        IF k = 0 THEN {InputOf(set)} ELSE UNION {Edited(x) : x \in after[k - 1]}
  IN  after[Edits]

\* A copy of a set, to be created: its entries are new.
Copy(x) ==
  [name |-> x.name, type |-> x.type, ttl |-> x.ttl,
   entries |-> [i \in DOMAIN x.entries |-> [x.entries[i] EXCEPT !.id = None]],
   ext |-> IF adapter = "cloudflare" /\ x.ext # None THEN [x.ext EXCEPT !.proxiable = None]
           ELSE x.ext]

\* The service normalises every set of an adapter once more, and shows it so.
Shown(set) == P!Listed(set)

\* What a client asks for having seen this set of the adapter: desired is its
\* own input, input the one the service passes on.  An item of a batch that
\* changes TTLs names a listed set and a TTL, and leaves the rest of the update
\* to the service.  An echo is the unedited set, shown as the adapter lists it.
Requests(set) ==
  LET shown == Shown(set)
      about == [kind |-> "update", id |-> set.id, expected |-> shown.fingerprint, desired |-> None,
                input |-> None, echo |-> FALSE, batch |-> FALSE, item |-> None]
  IN  {[about EXCEPT !.desired = x, !.echo = (shown = set /\ x = InputOf(set))] : x \in Inputs(shown)}
      \cup {[about EXCEPT !.kind = "create", !.id = {}, !.expected = None, !.desired = Copy(x)]
             : x \in {y \in Inputs(shown) : y.name # set.name}}
      \cup {[about EXCEPT !.kind = "delete"]}
      \cup {[about EXCEPT !.batch = TRUE, !.item = [seen |-> InputOf(shown), ttl |-> ttl]]
             : ttl \in TTLs}
FirstStage(r) == IF r.batch THEN "batched" ELSE "received"

---------------------------------------------------------------------------
(* What the zone serves. *)

\* The records whatever Huawei Cloud's status of them is; a set on its way out
\* there counts as removed.
Served ==
  IF adapter # "huawei" THEN records
  ELSE [id \in {i \in DOMAIN records : records[i].phase # "PENDING_DELETE"} |->
          [records[id] EXCEPT !.phase = ""]]

\* What one record serves: its key, but for what the provider decides by itself
\* and the switch of the weighted routing, and its values.
Words(values) == {<<values[i].text.word, values[i].num>> : i \in DOMAIN values}
Serves(r) ==
  IF adapter = "aliyun"
  THEN [key |-> [Aliyun!RecordKey(r) EXCEPT !.weighted = FALSE], values |-> Words(<<r>>)]
  ELSE IF adapter = "tencent"
  THEN [key |-> Tencent!RecordKey(r), values |-> Words(<<r>>)]
  ELSE IF adapter = "cloudflare"
  THEN [key |-> [Cloudflare!RecordKey(r) EXCEPT !.proxiable = FALSE], values |-> Words(<<r>>)]
  ELSE [key |-> [name |-> r.name, type |-> r.type, ttl |-> r.ttl, line |-> r.line],
        values |-> Words(r.values)]

\* The same of the records a plan wants.
GoalKey(p) ==
  LET k == p.key IN
  IF adapter = "aliyun" THEN [k EXCEPT !.weighted = FALSE]
  ELSE IF adapter = "huawei"
  THEN [name |-> k.name, type |-> k.type, ttl |-> k.ttl, line |-> k.line]
  ELSE k
Goal(p) ==
  IF p.goal = <<>> THEN [id \in {} |-> None]
  ELSE IF adapter = "huawei"
  THEN [id \in {p.key.id} |-> [key |-> GoalKey(p), values |-> Words(p.goal)]]
  ELSE [id \in P!EntryIDs([entries |-> p.goal]) |->
          [key |-> GoalKey(p), values |-> Words(<<P!EntryWith([entries |-> p.goal], id)>>)]]

---------------------------------------------------------------------------
Nothing == [answer |-> "none", set |-> None]
NoPlan == P!Mutate(<<>>, <<>>, None, "", {})

Init ==
  /\ adapter \in Adapters
  /\ records \in Zones[adapter]
  /\ before = records /\ base = Served
  /\ issued = Cardinality(DOMAIN records)
  /\ request = None /\ stage = "idle" /\ plan = NoPlan /\ result = Nothing
  /\ disturbed = FALSE /\ halfDone = FALSE
  /\ attempts = 0 /\ reads = 0 /\ interferences = 0

\* A client that has been shown a record set of the zone asks for a mutation.
Ask ==
  /\ stage = "idle"
  /\ Readable(records)
  /\ \E set \in Sets(records) : P!Normalizable(set) /\ \E r \in Requests(set) : request' = r
  /\ stage' = FirstStage(request')
  /\ UNCHANGED <<adapter, records, before, issued, plan, result, base, disturbed, halfDone,
                 attempts, reads, interferences>>

\* What a read of the zone may show.  Huawei Cloud is read by ID (the one a
\* creation has got), and shows what is pending instead of lagging behind.
Views ==
  IF adapter = "huawei"
  THEN LET ids == IF request.kind = "create" /\ stage = "calls" THEN {plan.key.id} ELSE request.id
       IN  {[id \in DOMAIN records \cap ids |-> records[id]]}
  ELSE {records} \cup (IF Lag THEN {before} ELSE {})

\* The service turns a request away before it calls the adapter.
TurnAway ==
  /\ stage' = "done" /\ plan' = P!Refuse("unknown")
  /\ result' = [answer |-> "error", set |-> None]
  /\ attempts' = attempts + 1
  /\ UNCHANGED <<adapter, records, before, issued, request, base, disturbed, halfDone, reads,
                 interferences>>

\* The precondition of an item, if it were made of the record set just read.
ItemPreconditionOfRead(set) == set.fingerprint

\* The precondition sent with the record set an item becomes: the client's.
ItemPrecondition(set) == request.expected

\* A batch reads the set of an item and asks for an update of it as it was read,
\* with the TTL of the item; a set without a TTL of its own is refused.
HasOwnTTL(set) ==
  set.type # "SOA" /\ (adapter = "cloudflare" => set.ext.automatic # TRUE)
Item(set) == P!Normalizable(set) /\ HasOwnTTL(set)
ReadItem ==
  /\ stage = "batched"
  /\ \E view \in Views : Readable(view) /\ \E set \in P!Current(Sets(view), request.id) :
        /\ Item(set)
        /\ request' = [request EXCEPT !.desired = [InputOf(Shown(set)) EXCEPT !.ttl = request.item.ttl],
                                     !.expected = ItemPrecondition(Shown(set))]
  /\ stage' = "received"
  /\ UNCHANGED <<adapter, records, before, issued, plan, result, base, disturbed, halfDone,
                 attempts, reads, interferences>>

RefuseItem ==
  /\ stage = "batched"
  /\ Faults \/ \E view \in Views :
        Readable(view) => \A set \in P!Current(Sets(view), request.id) : ~Item(set)
  /\ TurnAway

\* The service's own check of an update or a deletion: the set is there as the
\* client saw it.
Fresh(view) ==
  Readable(view) /\ \E set \in P!Current(Sets(view), request.id) :
                        P!Normalizable(set) /\ P!Matches(request.expected, Shown(set))

\* validateRecordCapabilities, of an input that has a normal form.
MaxTTL == [aliyun |-> 86400, tencent |-> 604800, cloudflare |-> 86400, huawei |-> 2147483647]
MinTTL == IF adapter = "cloudflare" THEN 30 ELSE 1
Capable(input) ==
  /\ P!Normalizable(input)
  /\ input.type # "SOA" /\ input.ttl \in MinTTL..MaxTTL[adapter]

Admissible(view) ==
  /\ request.kind # "create" => Fresh(view)
  /\ request.kind # "delete" => Capable(request.desired)

\* The service passes a request on to the adapter: the input in its normal form.
Admit ==
  /\ stage = "received"
  /\ \E view \in Views : Admissible(view)
  /\ request' = IF request.kind = "delete" THEN request
                ELSE [request EXCEPT !.input = P!Normalized(request.desired)]
  /\ stage' = "asked"
  /\ UNCHANGED <<adapter, records, before, issued, plan, result, base, disturbed, halfDone,
                 attempts, reads, interferences>>

RefuseRequest ==
  /\ stage = "received"
  /\ Faults \/ \E view \in Views : ~Admissible(view)
  /\ TurnAway

\* The adapter's plan, made from its own list: the set with the requested ID, as
\* the client saw it.
PlanFrom(view) ==
  LET sets == Sets(view)
      current == P!Current(sets, request.id)
  IN  IF ~Readable(view) THEN P!Refuse("unknown")
      ELSE IF request.kind = "create" THEN CreatePlan(sets)
      ELSE IF current = {} THEN P!Refuse(IF adapter = "huawei" THEN "not_found" ELSE "conflict")
      ELSE LET set == CHOOSE s \in current : TRUE
           IN  IF ~P!Matches(request.expected, set) THEN P!Refuse("conflict")
               ELSE IF request.kind = "update" THEN UpdatePlan(set, sets)
               ELSE DeletePlan(set)

\* The adapter lists the zone and plans its calls, or refuses.  The provider
\* gives out at most one ID for each wanted entry.
Begin ==
  /\ stage = "asked"
  /\ \E view \in Views :
        LET p == PlanFrom(view)
        IN  /\ plan' = p
            /\ issued' = issued + Len(p.goal)
            /\ stage' = IF p.refusal = "" THEN "calls" ELSE "done"
            /\ result' = IF p.refusal = "" THEN Nothing ELSE [answer |-> "error", set |-> None]
            /\ disturbed' = (view \notin {records} /\ adapter # "huawei")
  /\ attempts' = attempts + 1 /\ reads' = 0
  /\ UNCHANGED <<adapter, records, before, request, base, halfDone, interferences>>

---------------------------------------------------------------------------
(* Calls.  mutationCall makes each of them once. *)

Called == /\ stage = "calls" /\ plan.calls # <<>>
          /\ UNCHANGED <<adapter, issued, request, result, base, disturbed, halfDone, attempts,
                         reads, interferences>>

CallDone ==
  /\ Called /\ ~CallRefused(Head(plan.calls))
  /\ Put(P!Applied(records, Head(plan.calls)))
  /\ plan' = [plan EXCEPT !.calls = Tail(@)]
  /\ UNCHANGED stage

\* The provider refuses the call, or is not reached.
CallFails ==
  /\ Called /\ (Faults \/ CallRefused(Head(plan.calls)))
  /\ stage' = "failed"
  /\ UNCHANGED <<records, before, plan>>

\* The call is done and the reply does not arrive.
ReplyLost ==
  /\ Called /\ Faults /\ ~CallRefused(Head(plan.calls))
  /\ Put(P!Applied(records, Head(plan.calls)))
  /\ stage' = "failed"
  /\ UNCHANGED plan

---------------------------------------------------------------------------
(* Final reads. *)

Reading == /\ stage = "calls" /\ plan.calls = <<>>
           /\ UNCHANGED <<adapter, records, before, issued, request, plan, base, disturbed,
                          halfDone, attempts, interferences>>

MayReadOnceMore == ReadsAgain /\ reads < FinalReads

\* The adapter has another final read left.
MayReadAgain == ReadsAgain /\ reads < FinalReads - 1

\* The read shows the outcome, which the service normalises once more.
Confirmed ==
  /\ Reading
  /\ \E view \in Views :
        /\ Readable(view)
        /\ IF request.kind = "delete"
           THEN ~StillThere(Sets(view)) /\ result' = [answer |-> "ok", set |-> None]
           ELSE \E set \in FinalSets(Sets(view)) :
                   P!Normalizable(set) /\ result' = [answer |-> "ok", set |-> Shown(set)]
  /\ stage' = "done" /\ UNCHANGED reads

\* It does not: the adapter reads again, or gives up.
Unconfirmed ==
  /\ Reading
  /\ \E view \in Views :
        Readable(view) =>
          IF request.kind = "delete" THEN StillThere(Sets(view)) ELSE FinalSets(Sets(view)) = {}
  /\ IF MayReadAgain
     THEN reads' = reads + 1 /\ UNCHANGED stage
     ELSE stage' = "failed" /\ UNCHANGED reads
  /\ UNCHANGED result

\* The read fails, the caller's time is over, or the set has no normal form for
\* the service.
ReadFails ==
  /\ Reading
  /\ Faults \/ \E view \in Views :
        /\ Readable(view) /\ request.kind # "delete"
        /\ \E set \in FinalSets(Sets(view)) : ~P!Normalizable(set)
  /\ stage' = "failed" /\ UNCHANGED <<reads, result>>

\* The caller gets the error.
Report ==
  /\ stage = "failed" /\ stage' = "done"
  /\ result' = [answer |-> "error", set |-> None]
  /\ UNCHANGED <<adapter, records, before, issued, request, plan, base, disturbed, halfDone,
                 attempts, reads, interferences>>

\* What the service shows of a zone.
ShownSets(view) == {Shown(set) : set \in Sets(view)}

\* The client sends the request again, with what it saw the first time.
Retry ==
  /\ stage = "done" /\ result.answer = "error" /\ attempts < MaxAttempts
  /\ stage' = FirstStage(request) /\ base' = Served
  /\ halfDone' = (halfDone \/ ShownSets(Served) # ShownSets(base))
  /\ UNCHANGED <<adapter, records, before, issued, request, plan, result, disturbed,
                 attempts, reads, interferences>>

---------------------------------------------------------------------------
(* The provider and others. *)

\* Huawei Cloud completes a change, or ends it in one of Halts instead.
Phased(id, phase) == [records EXCEPT ![id].phase = phase]
Settle ==
  /\ adapter = "huawei" /\ stage # "idle"
  /\ \E id \in DOMAIN records :
        /\ records[id].phase \in Huawei!Pendings
        /\ IF records[id].phase = "PENDING_DELETE"
           THEN Put([i \in DOMAIN records \ {id} |-> records[i]])
           ELSE \E phase \in {""} \cup Halts : Put(Phased(id, phase))
  /\ UNCHANGED <<adapter, issued, request, stage, plan, result, base, disturbed, halfDone,
                 attempts, reads, interferences>>

\* Someone else removes a record or gives it another value, or Huawei Cloud takes
\* a set out of service by itself or gives up what it works on, a deletion too.
Rewritten(r, text) ==
  IF adapter = "huawei" THEN [r EXCEPT !.values[1].text = text] ELSE [r EXCEPT !.text = text]
Interfere ==
  /\ stage \in {"batched", "received", "asked", "calls"} /\ interferences < MaxInterferences
  /\ \E id \in DOMAIN records :
        \/ Put([i \in DOMAIN records \ {id} |-> records[i]])
        \/ \E text \in Texts : Put([records EXCEPT ![id] = Rewritten(@, text)])
        \/ adapter = "huawei" /\ \E phase \in {"PENDING_FREEZE"} \cup Halts : Put(Phased(id, phase))
  /\ disturbed' = TRUE /\ interferences' = interferences + 1
  /\ UNCHANGED <<adapter, issued, request, stage, plan, result, base, halfDone, attempts, reads>>

Next ==
  \/ Ask \/ ReadItem \/ RefuseItem \/ Admit \/ RefuseRequest \/ Begin
  \/ CallDone \/ CallFails \/ ReplyLost
  \/ Confirmed \/ Unconfirmed \/ ReadFails \/ Report \/ Retry
  \/ Settle \/ Interfere

Spec == Init /\ [][Next]_vars

---------------------------------------------------------------------------
(* Properties. *)

\* The variables have their types; the records have IDs the provider has given
\* out, and no more final reads are done than the adapter allows.
TypeOK ==
  /\ adapter \in Adapters
  /\ stage \in {"idle", "batched", "received", "asked", "calls", "failed", "done"}
  /\ DOMAIN records \subseteq 1..issued
  /\ \A id \in DOMAIN records : RecordOK(adapter, records[id])
  /\ result.answer \in {"none", "ok", "error"}
  /\ disturbed \in BOOLEAN /\ halfDone \in BOOLEAN
  /\ attempts \in 0..MaxAttempts /\ reads < FinalReads
  /\ interferences \in 0..MaxInterferences

\* Whatever calls an adapter makes, the zone goes through a change of one record
\* set as RecordSetChange describes it: nothing but the set is touched, no
\* record goes before all that shall replace it are there, and success means
\* that all is done.
Change ==
  INSTANCE RecordSetChange WITH
    None <- <<>>,
    zone <- [id \in DOMAIN Served |-> Serves(Served[id])],
    change <- IF stage \in {"calls", "failed"} THEN [old |-> request.id, goal |-> Goal(plan)] ELSE <<>>,
    answer <- result.answer
Implements == Change!Spec

\* A record set returned with success is the one asked for, also where others
\* wrote meanwhile or the last list was old: its values, and of the provider's
\* fields those the client named.  Huawei Cloud's final read is not compared
\* with the request, so there it holds when no one else writes; and it is taken
\* for a success in whatever state the change has ended, so the status is the
\* one asked for only where the set is in use or disabled.
Asked(entry, wanted) ==
  /\ entry.text.word = wanted.text.word /\ entry.num = wanted.num
  /\ wanted.ext # None =>
       /\ "line" \in DOMAIN wanted.ext => (wanted.ext.line = "" \/ entry.ext.line = wanted.ext.line)
       /\ "weight" \in DOMAIN wanted.ext => (wanted.ext.weight = None \/ entry.ext.weight = wanted.ext.weight)
       /\ "remark" \in DOMAIN wanted.ext => entry.ext.remark = wanted.ext.remark
SuccessShowsTheRequest ==
  (result.set # None /\ (adapter = "huawei" => ~disturbed)) =>
    LET set == result.set  input == request.desired IN
    /\ set.name = input.name /\ set.type = input.type /\ set.ttl = input.ttl
    /\ Len(set.entries) = Len(input.entries)
    /\ \A i \in DOMAIN input.entries : \E j \in DOMAIN set.entries : Asked(set.entries[j], input.entries[i])
    /\ (input.ext # None /\ adapter # "cloudflare") =>
         \/ input.ext.status \in {"", set.ext.status}
         \/ adapter = "huawei" /\ set.ext.provider \in Huawei!Stops
    /\ (input.ext # None /\ adapter = "cloudflare") =>
         /\ set.ext.proxied \/ input.ext.proxied # TRUE
         /\ set.ext.comment = input.ext.comment /\ set.ext.tags = input.ext.tags

\* A request that failed half way and is sent again as it was changes nothing
\* more, if clients are shown what it changed: its fingerprint or its IDs no
\* longer fit, or the provider has the new records already.  (Not so where a
\* zone keeps TXT values in two spellings: two that have changed places still
\* have their fingerprint, as one has that has only lost quotation marks.)
RetriesChangeNothing ==
  (halfDone /\ interferences = 0 /\ ~disturbed) => Served = base

\* A batch makes its update of a set it reads after the client saw it, and the
\* precondition is compared with a later read still.  Even where others write
\* once meanwhile, an item that succeeds has changed nothing but the TTL of what
\* the client saw, nor a status but where Huawei Cloud has stopped.  (Two writes,
\* there and back again, may come between the reads, as the update is not
\* compared with what the client saw.)
Unchanged(ext, other) ==
  \/ ext = other
  \/ /\ adapter = "huawei" /\ ext.default = other.default
     /\ {ext.provider, other.provider} \cap Huawei!Stops # {}
Contents(entries) == {<<entries[i].text.word, entries[i].num, entries[i].ext>> : i \in DOMAIN entries}
ItemsChangeTTLsOnly ==
  (request # None /\ result.set # None /\ ~disturbed /\ interferences <= 1) =>
    (request.batch =>
       LET set == result.set  seen == request.item.seen IN
       /\ set.ttl = request.item.ttl
       /\ set.name = seen.name /\ set.type = seen.type
       /\ Contents(set.entries) = Contents(seen.entries) /\ Unchanged(set.ext, seen.ext))

\* A record set sent back as it was shown leaves the zone as it is, where the
\* service shows it as the adapter lists it.  (A TXT value inside two levels of
\* quotation marks at Alibaba Cloud has lost one in the adapter's list and the
\* other when it is shown: sent back, it passes the precondition, which is
\* compared in the normal form, and is written without any.)
EchoChangesNothing ==
  (request # None /\ interferences = 0) => (request.echo => Served = base)

\* The calls of an adapter never bring the zone into a state its own list
\* cannot read, as long as the texts a client writes are in no more than two
\* levels of quotation marks, one for the service and one for the adapter to
\* take off: a TXT value in three is written inside one, and then listed like
\* the one without any.
ListStaysReadable == interferences = 0 => Readable(records)

\* An update all of whose calls were done, with no one else writing and no
\* list lagging, is not reported as an error.
AppliedUpdatesSucceed ==
  (stage = "done" /\ result.answer = "error") => plan.refusal # "" \/ plan.calls # <<>>
=============================================================================
