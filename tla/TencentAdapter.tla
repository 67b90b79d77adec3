-------------------------- MODULE TencentAdapter ---------------------------
(***************************************************************************)
(* The Tencent Cloud adapter (src/internal/provider/tencent): single       *)
(* records [name, type, ttl, line, status, weight, remark, system, text,   *)
(* num] grouped into record sets.  line stands for the line and its ID,    *)
(* which the provider only has together; system marks its default NS       *)
(* records.  An entry's ext is [line, status, weight, remark] or None, the *)
(* ext of a set is [status, default] or None.                              *)
(***************************************************************************)
EXTENDS ProviderRecords

DefaultLine == "default"
Supported == RecordTypes \ {"SOA"}

---------------------------------------------------------------------------
(* Reading. *)

\* The errors of mapRecord, each of which fails the whole list.
Malformed(r) ==
  \/ r.ttl <= 0
  \/ r.line = ""
  \/ r.status \notin {"ENABLE", "DISABLE"}
  \/ r.weight # None /\ r.weight > 100

RecordKey(r) == [name |-> r.name, type |-> r.type, ttl |-> r.ttl, line |-> r.line]

\* parseRecordValue takes a CAA value out of its quotation marks.
EntryOf(id, r) ==
  [id |-> id, text |-> IF r.type = "CAA" THEN CanonicalTXT(r.text) ELSE r.text, num |-> r.num,
   ext |-> [line |-> r.line, status |-> r.status, weight |-> r.weight, remark |-> r.remark]]

\* aggregateTencentStatus, and the flag of the provider's own NS records.
SetExt(rs) ==
  [status |-> IF \A i \in DOMAIN rs : rs[i].status = rs[1].status THEN rs[1].status ELSE "",
   default |-> IF \E i \in DOMAIN rs : rs[i].system THEN TRUE ELSE None]

Groups(records) == Grouped(records, Supported, RecordKey, EntryOf, SetExt)
Readable(records) ==
  /\ \A id \in DOMAIN records : records[id].type \in Supported => ~Malformed(records[id])
  /\ \A set \in Groups(records) : Normalizable(set)
Sets(records) == {Listed(set) : set \in Groups(records)}

---------------------------------------------------------------------------
(* Routes and keys. *)

WeightOf(e) == IF e.ext = None THEN None ELSE e.ext.weight
StatusOf(set) == IF set.ext = None THEN "" ELSE set.ext.status

\* Of a listed set, whose entries all have their line.
RouteOf(set) == [line |-> set.entries[1].ext.line, status |-> set.ext.status]

\* The line an entry names, or the fallback's.
LineFor(e, fallback) ==
  IF e.ext # None /\ e.ext.line # "" THEN e.ext.line
  ELSE IF fallback.line = "" THEN DefaultLine ELSE fallback.line
LinesFor(input, fallback) == {LineFor(input.entries[i], fallback) : i \in DOMAIN input.entries}

\* The routing validateTencentInput returns; override says that the status is
\* the request's own and goes before that of the entries.
WantedRoute(input, fallback) ==
  [line |-> CHOOSE line \in LinesFor(input, fallback) : TRUE,
   status |-> IF StatusOf(input) # "" THEN StatusOf(input) ELSE fallback.status,
   override |-> StatusOf(input) # ""]

\* Its errors.
Objection(input, fallback) ==
  LET weights == {WeightOf(e) : e \in ToSet(input.entries)} \ {None}
  IN  \/ input.ttl \notin 1..604800
      \/ input.type \notin Supported
      \/ input.ext # None /\ input.ext.default # None
      \/ \E w \in weights : w > 100 \/ input.type \notin {"A", "AAAA", "CNAME"}
      \/ Cardinality(LinesFor(input, fallback)) > 1

KeyFor(input, route) ==
  [name |-> input.name, type |-> input.type, ttl |-> input.ttl, line |-> route.line]
KeyOfSet(set) == KeyFor(set, RouteOf(set))

EffectiveStatusOfRequest(e, route, fallback) == IF route.status = "" THEN "ENABLE" ELSE route.status

\* effectiveTencentStatus: the request's status, else the entry's, else the
\* set's, else the one the record has.
EffectiveStatus(e, route, fallback) ==
  LET own == IF e.ext = None THEN "" ELSE e.ext.status
      given == IF ~route.override /\ own # "" THEN own
               ELSE IF route.override \/ route.status # "" THEN route.status ELSE fallback
  IN  IF given = "" THEN "ENABLE" ELSE given

---------------------------------------------------------------------------
(* Calls. *)

\* wireRecordValue: a CAA value is sent in quotation marks, a TXT value as it is.
Wire(type, text) == IF type = "CAA" THEN Quoted(text) ELSE text

\* addRecord: one call with all fields.
Add(input, route, e, status) ==
  <<[op |-> "add", id |-> e.id,
     with |-> [name |-> input.name, type |-> input.type, ttl |-> input.ttl, line |-> route.line,
               status |-> status, weight |-> WeightOf(e), system |-> FALSE,
               remark |-> IF e.ext = None THEN "" ELSE e.ext.remark,
               text |-> Wire(input.type, e.text), num |-> e.num]]>>

\* modifyRecord: no weight clears the weight, no remark keeps the remark.
Modify(input, route, e, status) ==
  LET fields == [name |-> input.name, type |-> input.type, ttl |-> input.ttl, line |-> route.line,
                 status |-> status, weight |-> WeightOf(e),
                 text |-> Wire(input.type, e.text), num |-> e.num]
  IN  <<[op |-> "set", id |-> e.id,
         with |-> IF e.ext = None THEN fields ELSE WithField(fields, "remark", e.ext.remark)]>>

NeedsUpdate(set, input, route, e, status) ==
  LET was == EntryWith(set, e.id)
  IN  \/ set.name # input.name \/ set.type # input.type \/ set.ttl # input.ttl
      \/ RouteOf(set).line # route.line
      \/ was.ext.status # status
      \/ e.ext # None /\ was.ext.remark # e.ext.remark
      \/ Wire(set.type, was.text) # Wire(input.type, e.text) \/ was.num # e.num
      \/ WeightOf(was) # WeightOf(e)

\* The status an entry of the wanted set gets: a new one has no former status.
StatusFor(set, route, e) ==
  EffectiveStatus(e, route, IF e.id \in EntryIDs(set) THEN EntryWith(set, e.id).ext.status ELSE "")

\* expectedTencentEntryExtensions for each of the entries.
Expected(set, entries, route) ==
  [i \in DOMAIN entries |->
     [entries[i] EXCEPT !.ext =
        [line |-> route.line, status |-> StatusFor(set, route, entries[i]),
         weight |-> WeightOf(entries[i]), remark |-> IF @ = None THEN "" ELSE @.remark]]]

---------------------------------------------------------------------------
(* Mutations. *)

IsDefault(set) == set.ext.default # None

CreatePlan(input, sets, issued) ==
  LET wanted == Normalized(input)
      fallback == [line |-> "", status |-> ""]
      route == WantedRoute(wanted, fallback)
      entries == WithIDs(wanted.entries, issued)
      nothing == [wanted EXCEPT !.entries = <<>>]
      key == KeyFor(wanted, route)
  IN  IF ~Normalizable(input) \/ Objection(wanted, fallback) THEN Refuse("validation")
      ELSE IF \E set \in sets : KeyOfSet(set) = key THEN Refuse("conflict")
      ELSE Mutate(ForEach(entries, LAMBDA e : Add(wanted, route, e, EffectiveStatus(e, route, ""))),
                  Expected(nothing, entries, route), key, "", {})

\* The calls of UpdateRecordSet for the wanted entries in their order.
Writes(set, wanted, entries, route) ==
  LET Written(e) ==
        LET status == StatusFor(set, route, e)
        IN  IF e.id \notin EntryIDs(set) THEN Add(wanted, route, e, status)
            ELSE IF NeedsUpdate(set, wanted, route, e, status) THEN Modify(wanted, route, e, status)
            ELSE <<>>
  IN  ForEach(entries, Written)

UpdateCallsRemovingFirst(set, wanted, entries, route) ==
  Removals(set, entries) \o Writes(set, wanted, entries, route)

\* Then the removals.
UpdateCalls(set, wanted, entries, route) ==
  Writes(set, wanted, entries, route) \o Removals(set, entries)

\* Another set has the key the wanted one would get.
Merges(set, sets, key) == \E other \in sets : other.id # set.id /\ KeyOfSet(other) = key

UpdatePlan(input, set, sets, issued) ==
  LET wanted == Normalized(input)
      route == WantedRoute(wanted, RouteOf(set))
      entries == WithIDs(wanted.entries, issued)
      key == KeyFor(wanted, route)
  IN  IF IsDefault(set) THEN Refuse("unsupported")
      ELSE IF ~Normalizable(input) \/ Objection(wanted, RouteOf(set)) \/ Repeats(input)
           THEN Refuse("validation")
      ELSE IF Merges(set, sets, key) \/ Strays(input, set) # {} THEN Refuse("conflict")
      ELSE Mutate(UpdateCalls(set, wanted, entries, route), Expected(set, entries, route), key, "",
                  EntryIDs(set) \ WantedIDs(input))

DeletePlan(set) ==
  IF IsDefault(set) THEN Refuse("unsupported")
  ELSE Mutate(Removals(set, <<>>), <<>>, KeyOfSet(set), "", EntryIDs(set))

\* findFinalRecordSet: the set that has exactly the wanted entries, none of the
\* removed ones and the wanted key.
FinalSets(plan, sets) ==
  {set \in sets : /\ EntryIDs(set) \cap plan.gone = {}
                  /\ ContainsExactly(set, plan.goal, {"text", "num", "ext"})
                  /\ KeyOfSet(set) = plan.key}

\* The final read of a deletion is done once, that of a write is repeated.
StillThere(plan, sets) == \E set \in sets : EntryIDs(set) \cap plan.gone # {}
ReadsAgain(kind) == kind # "delete"

CallRefused(records, call) == Refused(records, call, LAMBDA r : <<r.name, r.type, r.line, r.text, r.num>>)
=============================================================================
