------------------------- MODULE CloudflareAdapter -------------------------
(***************************************************************************)
(* The Cloudflare adapter (src/internal/provider/cloudflare): single       *)
(* records [name, type, ttl, proxied, proxiable, comment, tags, text, num] *)
(* grouped into record sets by all that but the value.  A TTL of 1 is      *)
(* automatic and shown as 300.  Entries have no ext; the ext of a set is   *)
(* [proxied, proxiable, automatic, comment, tags] or None, a field of it   *)
(* that a request leaves out is None.  tags is the set of them.            *)
(***************************************************************************)
EXTENDS ProviderRecords

AutomaticTTL == 300
ManualTTLs == 30..86400
Supported == RecordTypes \ {"SOA"}

\* proxyTypeSupported.
CanBeProxied(type) == type \in {"A", "AAAA", "CNAME"}

---------------------------------------------------------------------------
(* Reading. *)

\* The errors of mapRecord, each of which fails the whole list.
Malformed(r) == r.ttl < 1

RecordKey(r) ==
  [name |-> r.name, type |-> r.type, ttl |-> IF r.ttl = 1 THEN AutomaticTTL ELSE r.ttl,
   proxied |-> r.proxied, proxiable |-> r.proxiable, automatic |-> r.ttl = 1,
   comment |-> r.comment, tags |-> r.tags]

\* parseRecordContent reads a TXT value through the normal form, so it takes it
\* out of quotation marks once more than NormalizeRecordSet does.
EntryOf(id, r) ==
  [id |-> id, text |-> IF r.type = "TXT" THEN CanonicalTXT(r.text) ELSE r.text,
   num |-> r.num, ext |-> None]

SetExt(rs) ==
  LET key == RecordKey(rs[1])
  IN  [proxied |-> key.proxied, proxiable |-> key.proxiable, automatic |-> key.automatic,
       comment |-> key.comment, tags |-> key.tags]

Groups(records) == Grouped(records, Supported, RecordKey, EntryOf, SetExt)
Readable(records) ==
  /\ \A id \in DOMAIN records : records[id].type \in Supported => ~Malformed(records[id])
  /\ \A set \in Groups(records) : Normalizable(set)
Sets(records) == {Listed(set) : set \in Groups(records)}

---------------------------------------------------------------------------
(* Options and keys. *)

\* recordOptionsFromRecordSet of a listed set.
OptionsOf(set) == set.ext

\* The options validateCloudflareInput returns: those the request names, the
\* fallback's for the rest; a proxied record has an automatic TTL.
WantedOptions(input, fallback) ==
  LET ext == input.ext
      Given(field) == IF ext # None /\ ext[field] # None THEN ext[field] ELSE fallback[field]
  IN  [proxied |-> Given("proxied"), proxiable |-> fallback.proxiable,
       automatic |-> Given("proxied") \/ Given("automatic"),
       comment |-> IF ext = None THEN fallback.comment ELSE ext.comment,
       tags |-> IF ext = None THEN fallback.tags ELSE ext.tags]

\* Its errors.
Objection(input, fallback, allowReadOnly) ==
  LET ext == input.ext
      options == WantedOptions(input, fallback)
  IN  \/ input.type \notin Supported
      \/ ext # None /\ ext.proxiable # None /\ (~allowReadOnly \/ ext.proxiable # fallback.proxiable)
      \/ options.proxied /\ (~CanBeProxied(input.type) \/ (ext # None /\ ext.automatic = FALSE))
      \/ options.automatic /\ input.ttl # AutomaticTTL
      \/ ~options.automatic /\ input.ttl \notin ManualTTLs

KeyFor(input, options) ==
  [name |-> input.name, type |-> input.type, ttl |-> input.ttl, proxied |-> options.proxied,
   proxiable |-> options.proxiable, automatic |-> options.automatic,
   comment |-> options.comment, tags |-> options.tags]

\* equivalentGroupKey compares all but what the provider decides by itself.
KeyOfSet(set) == [KeyFor(set, OptionsOf(set)) EXCEPT !.proxiable = FALSE]

---------------------------------------------------------------------------
(* Calls. *)

\* wireTXTContent puts a TXT value in quotation marks; a CAA value goes as data.
Wire(type, text) == IF type = "TXT" THEN Quoted(text) ELSE text

\* newRecordBody and updateRecordBody: all fields of the record each time.
Body(input, options, e) ==
  [name |-> input.name, type |-> input.type, ttl |-> IF options.automatic THEN 1 ELSE input.ttl,
   proxied |-> options.proxied, proxiable |-> CanBeProxied(input.type),
   comment |-> options.comment, tags |-> options.tags,
   text |-> Wire(input.type, e.text), num |-> e.num]

Call(op, input, options, e) == <<[op |-> op, id |-> e.id, with |-> Body(input, options, e)]>>

\* equalRecordEntry.
Compared(e) == [text |-> e.text, num |-> e.num]

---------------------------------------------------------------------------
(* Mutations. *)

CreatePlan(input, sets, issued) ==
  LET wanted == Normalized(input)
      fallback == [proxied |-> FALSE, proxiable |-> CanBeProxied(input.type), automatic |-> FALSE,
                   comment |-> "", tags |-> {}]
      options == WantedOptions(wanted, fallback)
      entries == WithIDs(wanted.entries, issued)
      key == [KeyFor(wanted, options) EXCEPT !.proxiable = FALSE]
  IN  IF ~Normalizable(input) \/ Objection(wanted, fallback, FALSE) THEN Refuse("validation")
      ELSE IF \E set \in sets : KeyOfSet(set) = key THEN Refuse("conflict")
      ELSE Mutate(ForEach(entries, LAMBDA e : Call("add", wanted, options, e)), entries, key, "", {})

\* The calls of UpdateRecordSet: the wanted entries in their order, all of them
\* when what they share has changed, then the removals.
UpdateCalls(set, wanted, entries, options) ==
  LET was == OptionsOf(set)
      common == \/ set.name # wanted.name \/ set.type # wanted.type \/ set.ttl # wanted.ttl
                \/ \E f \in {"proxied", "automatic", "comment", "tags"} : was[f] # options[f]
      Written(e) ==
        IF e.id \notin EntryIDs(set) THEN Call("add", wanted, options, e)
        ELSE IF common \/ Compared(EntryWith(set, e.id)) # Compared(e)
             THEN Call("set", wanted, options, e)
        ELSE <<>>
  IN  ForEach(entries, Written) \o Removals(set, entries)

\* Another set has the key the wanted one would get.
Merges(set, sets, key) == \E other \in sets : other.id # set.id /\ KeyOfSet(other) = key

UpdatePlan(input, set, sets, issued) ==
  LET wanted == Normalized(input)
      options == WantedOptions(wanted, OptionsOf(set))
      entries == WithIDs(wanted.entries, issued)
      key == [KeyFor(wanted, options) EXCEPT !.proxiable = FALSE]
  IN  IF ~Normalizable(input) \/ Objection(wanted, OptionsOf(set), TRUE) \/ Repeats(input)
      THEN Refuse("validation")
      ELSE IF Merges(set, sets, key) \/ Strays(input, set) # {} THEN Refuse("conflict")
      ELSE Mutate(UpdateCalls(set, wanted, entries, options), entries, key, "", {})

DeletePlan(set) == Mutate(Removals(set, <<>>), <<>>, KeyOfSet(set), "", EntryIDs(set))

FinalSetsByID(plan, sets) == {set \in sets : EntryIDs(set) = EntryIDs([entries |-> plan.goal])}

\* findFinalRecordSet: the set that has exactly the wanted entries and the key.
FinalSets(plan, sets) ==
  {set \in sets : ContainsExactly(set, plan.goal, {"text", "num"}) /\ KeyOfSet(set) = plan.key}

\* verifyRecordSetDeleted also refuses another set that took the key.  Each
\* final read is done once.
StillThere(plan, sets) ==
  \E set \in sets : EntryIDs(set) \cap plan.gone # {} \/ KeyOfSet(set) = plan.key
ReadsAgain(kind) == FALSE

CallRefused(records, call) == Refused(records, call, LAMBDA r : <<r.name, r.type, r.text, r.num>>)
=============================================================================
