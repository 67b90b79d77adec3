--------------------------- MODULE AliyunAdapter ---------------------------
(***************************************************************************)
(* The Alibaba Cloud adapter (src/internal/provider/aliyun): single        *)
(* records [name, type, ttl, line, status, weighted, weight, remark, text, *)
(* num] grouped into record sets, and a mutation of a record set planned   *)
(* as a sequence of calls on records.  An entry's ext is [line, status,    *)
(* weight, remark] or None, the ext of a set is [status] or None.          *)
(***************************************************************************)
EXTENDS ProviderRecords

DefaultLine == "default"
Supported == RecordTypes \ {"SOA"}

---------------------------------------------------------------------------
(* Reading. *)

\* The errors of mapDomainRecord, each of which fails the whole list.
Malformed(r) ==
  \/ r.ttl <= 0
  \/ r.weighted /\ r.weight \notin 0..100
  \/ r.type = "MX" /\ r.num \notin 1..50

LineOf(r) == IF r.line = "" THEN DefaultLine ELSE r.line

StatusShown(r) == IF r.status = "" THEN "Enable" ELSE r.status

RecordKey(r) ==
  [name |-> r.name, type |-> r.type, ttl |-> r.ttl, line |-> LineOf(r), weighted |-> r.weighted]

\* The weight is shown only while the weighted routing is on.
EntryOf(id, r) ==
  [id |-> id, text |-> r.text, num |-> r.num,
   ext |-> [line |-> LineOf(r), status |-> StatusShown(r),
            weight |-> IF r.weighted THEN r.weight ELSE None, remark |-> r.remark]]

\* A set has a status if its records agree on one.
AggregateStatus(rs) ==
  [status |-> IF \A i \in DOMAIN rs : StatusShown(rs[i]) = StatusShown(rs[1])
              THEN StatusShown(rs[1]) ELSE ""]

Groups(records) == Grouped(records, Supported, RecordKey, EntryOf, AggregateStatus)
Readable(records) ==
  /\ \A id \in DOMAIN records : records[id].type \in Supported => ~Malformed(records[id])
  /\ \A set \in Groups(records) : Normalizable(set)
Sets(records) == {Listed(set) : set \in Groups(records)}

---------------------------------------------------------------------------
(* Routes and keys. *)

WeightOf(e) == IF e.ext = None THEN None ELSE e.ext.weight
StatusOf(set) == IF set.ext = None THEN "" ELSE set.ext.status
LinesOf(set) == {set.entries[i].ext.line : i \in {j \in DOMAIN set.entries : set.entries[j].ext # None}} \ {""}

\* Of a listed set, whose entries all have their line.
RouteOf(set) ==
  [line |-> set.entries[1].ext.line, status |-> set.ext.status,
   weighted |-> set.entries[1].ext.weight # None]

\* The routing validateAliyunInput returns: the line of the entries and the
\* status of the set, the fallback's where they name none.
WantedRoute(input, fallback) ==
  [line |-> IF LinesOf(input) # {} THEN CHOOSE line \in LinesOf(input) : TRUE
            ELSE IF fallback.line = "" THEN DefaultLine ELSE fallback.line,
   status |-> IF StatusOf(input) # "" THEN StatusOf(input) ELSE fallback.status,
   weighted |-> \E i \in DOMAIN input.entries : WeightOf(input.entries[i]) # None]

AnyPriority(input) == TRUE

\* The priority that mapDomainRecord can read again.
ValidPriority(input) == input.type = "MX" => \A i \in DOMAIN input.entries : input.entries[i].num \in 1..50

\* The errors of validateAliyunInput.
Objection(input, fallback) ==
  LET entries == ToSet(input.entries)
      weights == {WeightOf(e) : e \in entries}
      noLine == \E e \in entries : e.ext = None \/ e.ext.line = ""
  IN  \/ input.ttl \notin 1..86400
      \/ input.type \notin Supported
      \/ ~ValidPriority(input)
      \/ Cardinality(LinesOf(input)) > 1
      \/ noLine /\ LinesOf(input) \notin {{}, {IF fallback.line = "" THEN DefaultLine ELSE fallback.line}}
      \/ \E w \in weights \ {None} : w \notin 1..100
      \/ weights # {None} /\ (None \in weights \/ input.type \notin {"A", "AAAA"})

KeyFor(input, route) ==
  [name |-> input.name, type |-> input.type, ttl |-> input.ttl, line |-> route.line,
   weighted |-> route.weighted]
KeyOfSet(set) == KeyFor(set, RouteOf(set))

---------------------------------------------------------------------------
(* Calls. *)

\* wireRecordValue: a CAA value is sent in quotation marks, a TXT value as it is.
Wire(type, text) == IF type = "CAA" THEN Quoted(text) ELSE text

Remark(e) == <<[op |-> "set", id |-> e.id, with |-> [remark |-> e.ext.remark]]>>
Weigh(e) == <<[op |-> "set", id |-> e.id, with |-> [weight |-> WeightOf(e), weighted |-> TRUE]]>>
SetStatus(e, status) == <<[op |-> "set", id |-> e.id, with |-> [status |-> status]]>>
Balance(set, line, on) ==
  <<[op |-> "balance", id |-> None,
     with |-> [name |-> set.name, type |-> set.type, line |-> line, weighted |-> on]]>>

\* addDomainRecord: the new record is enabled and not weighted yet; its remark
\* takes a second call.
Add(input, route, e) ==
  <<[op |-> "add", id |-> e.id,
     with |-> [name |-> input.name, type |-> input.type, ttl |-> input.ttl, line |-> route.line,
               status |-> "Enable", weighted |-> FALSE, weight |-> 1, remark |-> "",
               text |-> Wire(input.type, e.text), num |-> e.num]]>>
  \o (IF e.ext # None /\ e.ext.remark # "" THEN Remark(e) ELSE <<>>)

Modify(input, route, e) ==
  <<[op |-> "set", id |-> e.id,
     with |-> [name |-> input.name, type |-> input.type, ttl |-> input.ttl, line |-> route.line,
               text |-> Wire(input.type, e.text), num |-> e.num]]>>

\* recordNeedsUpdate: what updateDomainRecord writes is not there yet.
NeedsUpdate(set, input, route, e) ==
  LET was == EntryWith(set, e.id)
  IN  \/ set.name # input.name \/ set.type # input.type \/ set.ttl # input.ttl
      \/ RouteOf(set).line # route.line
      \/ Wire(set.type, was.text) # Wire(input.type, e.text) \/ was.num # e.num

\* finalizeAliyunEntries: the entries the last read must show.
Finalized(entries, route) ==
  [i \in DOMAIN entries |->
     [entries[i] EXCEPT !.ext =
        [line |-> route.line, status |-> route.status,
         weight |-> IF route.weighted THEN WeightOf(entries[i]) ELSE None,
         remark |-> IF @ = None THEN "" ELSE @.remark]]]

---------------------------------------------------------------------------
(* Mutations. *)

CreatePlan(input, sets, issued) ==
  LET wanted == Normalized(input)
      fallback == [line |-> "", status |-> "Enable", weighted |-> FALSE]
      route == WantedRoute(wanted, fallback)
      entries == WithIDs(wanted.entries, issued)
      key == KeyFor(wanted, route)
  IN  IF ~Normalizable(input) \/ Objection(wanted, fallback) THEN Refuse("validation")
      ELSE IF \E set \in sets : KeyOfSet(set) = key THEN Refuse("conflict")
      ELSE Mutate(ForEach(entries, LAMBDA e : Add(wanted, route, e))
                  \o (IF route.weighted
                      THEN Balance(wanted, route.line, TRUE) \o ForEach(entries, Weigh) ELSE <<>>)
                  \o (IF route.status = "Disable"
                      THEN ForEach(entries, LAMBDA e : SetStatus(e, "Disable")) ELSE <<>>),
                  Finalized(entries, route), key, route.status, {})

\* The calls of UpdateRecordSet in their order: the weighted routing off, the
\* wanted entries, the weighted routing on, weights, states, removals.
UpdateCalls(set, wanted, entries, route) ==
  LET now == RouteOf(set)
      moved == set.name # wanted.name \/ set.type # wanted.type \/ now.line # route.line
      New(e) == e.id \notin EntryIDs(set)
      Written(e) ==
        IF New(e) THEN Add(wanted, route, e)
        ELSE (IF NeedsUpdate(set, wanted, route, e) THEN Modify(wanted, route, e) ELSE <<>>)
             \o (IF e.ext # None /\ e.ext.remark # EntryWith(set, e.id).ext.remark
                 THEN Remark(e) ELSE <<>>)
      Weighed(e) ==
        IF New(e) \/ WeightOf(EntryWith(set, e.id)) # WeightOf(e) THEN Weigh(e) ELSE <<>>
      Switched(e) ==
        IF route.status # "" /\ (now.status # route.status \/ (New(e) /\ route.status = "Disable"))
        THEN SetStatus(e, route.status) ELSE <<>>
  IN  (IF now.weighted /\ (~route.weighted \/ moved) THEN Balance(set, now.line, FALSE) ELSE <<>>)
      \o ForEach(entries, Written)
      \o (IF route.weighted /\ (~now.weighted \/ moved) THEN Balance(wanted, route.line, TRUE) ELSE <<>>)
      \o (IF route.weighted THEN ForEach(entries, Weighed) ELSE <<>>)
      \o ForEach(entries, Switched)
      \o Removals(set, entries)

\* Another set has the key the wanted one would get.
Merges(set, sets, key) == \E other \in sets : other.id # set.id /\ KeyOfSet(other) = key

UpdatePlan(input, set, sets, issued) ==
  LET wanted == Normalized(input)
      route == WantedRoute(wanted, RouteOf(set))
      entries == WithIDs(wanted.entries, issued)
      key == KeyFor(wanted, route)
  IN  IF ~Normalizable(input) \/ Objection(wanted, RouteOf(set)) \/ Repeats(input) THEN Refuse("validation")
      ELSE IF Merges(set, sets, key) \/ Strays(input, set) # {} THEN Refuse("conflict")
      ELSE Mutate(UpdateCalls(set, wanted, entries, route), Finalized(entries, route), key, route.status, {})

DeletePlan(set) == Mutate(Removals(set, <<>>), <<>>, KeyOfSet(set), "", EntryIDs(set))

\* findFinalRecordSet: the set that has exactly the wanted entries, if it also
\* has the wanted key and status.
FinalSets(plan, sets) ==
  {set \in sets : /\ ContainsExactly(set, plan.goal, {"text", "num", "ext"})
                  /\ KeyOfSet(set) = plan.key
                  /\ plan.status \in {"", RouteOf(set).status}}

\* verifyRecordSetDeleted: the only final read of this adapter that is repeated.
StillThere(plan, sets) == \E set \in sets : EntryIDs(set) \cap plan.gone # {}
ReadsAgain(kind) == kind = "delete"

\* The adapter itself refuses to switch the weighted routing of other types.
CallRefused(records, call) ==
  \/ call.op = "balance" /\ call.with.type \notin {"A", "AAAA"}
  \/ Refused(records, call, LAMBDA r : <<r.name, r.type, LineOf(r), r.text, r.num>>)
=============================================================================
