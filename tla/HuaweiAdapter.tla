--------------------------- MODULE HuaweiAdapter ---------------------------
(***************************************************************************)
(* The Huawei Cloud adapter (src/internal/provider/huawei): the provider   *)
(* has record sets of its own, [name, type, ttl, values, line, weight,     *)
(* enabled, phase, system], values being a sequence of [text, num], and    *)
(* changes them asynchronously.  The phase of a set is "" where it is      *)
(* enabled or disabled and nothing goes on; otherwise it is the status the *)
(* provider gives it, of a change it works on or of what it has stopped at. *)
(* An entry's ext is [line, weight] or None, the ext of a set              *)
(* [status, provider, default] or None.                                    *)
(***************************************************************************)
EXTENDS ProviderRecords

---------------------------------------------------------------------------
(* Reading. *)

\* The provider's status of a set.
Pendings ==
  {"PENDING_CREATE", "PENDING_UPDATE", "PENDING_DELETE", "PENDING_ENABLE", "PENDING_DISABLE",
   "PENDING_FREEZE"}
Stops == {"FREEZE", "ILLEGAL", "POLICE", "ERROR"}
ProviderStatus(r) ==
  IF r.phase # "" THEN r.phase ELSE IF r.enabled THEN "ACTIVE" ELSE "DISABLE"

\* huaweiDesiredStatusFromProvider: any other status shows as none.
ShownStatus(r) ==
  IF ProviderStatus(r) \in {"DISABLE", "PENDING_DISABLE"} THEN "DISABLE"
  ELSE IF ProviderStatus(r) = "ACTIVE" THEN "ENABLE" ELSE ""

\* parseHuaweiRecords: all values share the line and the weight.
EntriesOf(r) ==
  [i \in DOMAIN r.values |->
     [id |-> None, text |-> r.values[i].text, num |-> r.values[i].num,
      ext |-> IF r.line = "" /\ r.weight = None THEN None
              ELSE [line |-> r.line, weight |-> r.weight]]]

\* normalizeHuaweiRecordSet, before and after the normal form.
RawSet(id, r) ==
  [id |-> {id}, name |-> r.name, type |-> r.type, ttl |-> r.ttl, entries |-> EntriesOf(r),
   ext |-> [status |-> ShownStatus(r), provider |-> ProviderStatus(r),
            default |-> IF r.system THEN TRUE ELSE None],
   fingerprint |-> None]
Malformed(r) == r.weight # None /\ r.weight \notin 0..1000

Readable(records) ==
  \A id \in DOMAIN records : ~Malformed(records[id]) /\ Normalizable(RawSet(id, records[id]))
Sets(records) == {Listed(RawSet(id, records[id])) : id \in DOMAIN records}

---------------------------------------------------------------------------
(* Routing and status. *)

\* routingFromEntries: none of the entries has a routing, or all the same one.
Routings(set) == {set.entries[i].ext : i \in DOMAIN set.entries}
RoutingOf(set) == CHOOSE routing \in Routings(set) : TRUE

StatusOf(set) == IF set.ext = None THEN "" ELSE set.ext.status

\* The errors of validateHuaweiInput.
Objection(input, currentStatus) ==
  \/ input.type = "SOA"
  \/ StatusOf(input) \notin {"", currentStatus, "ENABLE", "DISABLE"}
  \/ Cardinality(Routings(input)) > 1
  \/ \E routing \in Routings(input) \ {None} : routing.weight # None /\ routing.weight > 1000

\* mergeUpdateRouting: the line of a set cannot change, a weight not named stays.
LineChanges(now, wanted) ==
  wanted # None /\ wanted.line \notin {"", IF now = None THEN "" ELSE now.line}
MergedWeight(now, wanted) ==
  IF wanted # None /\ wanted.weight # None THEN wanted.weight
  ELSE IF now = None THEN None ELSE now.weight

ShouldSetStatus(current, desired) == desired \in {"ENABLE", "DISABLE"} /\ desired # current

---------------------------------------------------------------------------
(* Calls. *)

\* quoteHuaweiTXT and quoteHuaweiCAA refuse a text with quotation marks in it.
CannotBeSent(input) ==
  input.type \in {"TXT", "CAA"} /\ \E i \in DOMAIN input.entries : input.entries[i].text.quotes > 0

\* toHuaweiRecords: TXT and CAA values are sent in quotation marks.
Values(input) ==
  [i \in DOMAIN input.entries |->
     [text |-> IF input.type \in {"TXT", "CAA"} THEN Quoted(input.entries[i].text)
               ELSE input.entries[i].text,
      num |-> input.entries[i].num]]

\* The set a mutation aims at, and what it shall be.
KeyFor(id, input, line) ==
  [id |-> id, name |-> input.name, type |-> input.type, ttl |-> input.ttl, line |-> line]

---------------------------------------------------------------------------
(* Mutations: the provider changes a set as a whole. *)

CreatePlan(input, sets, issued) ==
  LET wanted == Normalized(input)
      routing == RoutingOf(wanted)
      line == IF routing = None THEN "" ELSE routing.line
      record == [name |-> wanted.name, type |-> wanted.type, ttl |-> wanted.ttl,
                 values |-> Values(wanted), line |-> line, weight |-> MergedWeight(None, routing),
                 enabled |-> StatusOf(wanted) # "DISABLE", phase |-> "PENDING_CREATE", system |-> FALSE]
  IN  IF ~Normalizable(input) \/ Objection(wanted, "") \/ CannotBeSent(wanted)
      THEN Refuse("validation")
      ELSE Mutate(<<[op |-> "add", id |-> issued + 1, with |-> record]>>, wanted.entries,
                  KeyFor(issued + 1, wanted, line), "", {})

UpdatePlan(input, set, sets, issued) ==
  LET wanted == Normalized(input)
      id == CHOOSE i \in set.id : TRUE
      now == RoutingOf(set)
      status == StatusOf(wanted)
      weight == MergedWeight(now, RoutingOf(wanted))
      fields == [name |-> wanted.name, type |-> wanted.type, ttl |-> wanted.ttl,
                 values |-> Values(wanted), phase |-> "PENDING_UPDATE"]
      body == IF weight = None THEN fields ELSE WithField(fields, "weight", weight)
      switch == [enabled |-> status = "ENABLE",
                 phase |-> IF status = "ENABLE" THEN "PENDING_ENABLE" ELSE "PENDING_DISABLE"]
  IN  IF set.ext.default # None THEN Refuse("unsupported")
      ELSE IF ~Normalizable(input) \/ Objection(wanted, StatusOf(set)) THEN Refuse("validation")
      ELSE IF LineChanges(now, RoutingOf(wanted)) THEN Refuse("unsupported")
      ELSE IF CannotBeSent(wanted) THEN Refuse("validation")
      ELSE Mutate(<<[op |-> "set", id |-> id, with |-> body]>>
                  \o (IF ShouldSetStatus(StatusOf(set), status)
                      THEN <<[op |-> "set", id |-> id, with |-> switch]>> ELSE <<>>),
                  wanted.entries, KeyFor(id, wanted, IF now = None THEN "" ELSE now.line), "", {})

\* DeleteRecordSet: the provider keeps the set until it is gone.
DeletePlan(set) ==
  IF set.ext.default # None THEN Refuse("unsupported")
  ELSE Mutate(<<[op |-> "set", id |-> CHOOSE i \in set.id : TRUE, with |-> [phase |-> "PENDING_DELETE"]]>>,
              <<>>, None, "", set.id)

\* waitForFinalRecordSet: the set by its ID, once nothing is pending, in
\* whatever state the change has ended; what the set contains is not compared
\* with the request.
FinalSets(plan, sets) ==
  {set \in sets : set.id = {plan.key.id} /\ set.ext.provider \notin Pendings}

\* waitForDeletedRecordSet.  All final reads are repeated.
StillThere(plan, sets) == \E set \in sets : set.id = plan.gone
ReadsAgain(kind) == TRUE

CallRefused(records, call) == Refused(records, call, LAMBDA r : <<r.name, r.type, r.line>>)
=============================================================================
