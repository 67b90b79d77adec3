-------------------------- MODULE ProviderRecords --------------------------
(***************************************************************************)
(* What the four provider adapters share: the normal form of a record set  *)
(* (src/internal/provider/domain.go), its fingerprint (fingerprint.go),    *)
(* the grouping of a provider's single records into record sets, and the   *)
(* calls that change the records at the provider.                          *)
(*                                                                         *)
(* A record entry is [id, text, num, ext]: text stands for the value or    *)
(* the target, num for the numeric fields (priority, port, flags ...) and  *)
(* ext for the provider's own fields.  A text is [word, quotes], the word  *)
(* inside that many levels of quotation marks: a TXT value is written with *)
(* or without them.  None is an absent field (nil, or an empty ID).        *)
(* Names are given in the form canonicalizeName returns.  The provider's   *)
(* time stamp of a set is left out of its fingerprint: the code notices    *)
(* at least the changes this module notices.                               *)
(***************************************************************************)
EXTENDS Integers, FiniteSets, Sequences, SequencesExt

CONSTANT None

RecordTypes == {"A", "AAAA", "CNAME", "TXT", "MX", "NS", "SRV", "CAA", "SOA"}

---------------------------------------------------------------------------
(* Normal form of a record set. *)

\* canonicalizeTXT: a text that starts with a quotation mark loses one level
\* of them, any other text stays as it is.
CanonicalTXT(text) ==
  IF text.quotes = 0 THEN text ELSE [word |-> text.word, quotes |-> text.quotes - 1]

\* A text put in quotation marks.
Quoted(text) == [word |-> text.word, quotes |-> text.quotes + 1]

\* The errors of normalizeRecordEntry: the fields that a type needs or refuses,
\* and an address or a target that is no DNS name.
ValidEntry(type, e) ==
  /\ type \in {"A", "AAAA", "TXT", "SOA"} => e.num = None
  /\ type \in {"MX", "SRV", "CAA"} => e.num # None
  /\ type \notin {"TXT", "CAA", "SOA"} => e.text.quotes = 0

\* What normalizeRecordEntry returns.  CNAME and NS drop the other fields.
NormalEntry(type, e) ==
  [id |-> e.id, text |-> IF type \in {"TXT", "CAA"} THEN CanonicalTXT(e.text) ELSE e.text,
   num |-> IF type \in {"CNAME", "NS"} THEN None ELSE e.num, ext |-> e.ext]

\* canonicalEntrySerialization: an entry without its ID.
Content(e) == [text |-> e.text, num |-> e.num, ext |-> e.ext]

Contents(set) == {Content(set.entries[i]) : i \in DOMAIN set.entries}

NormalEntries(set) == [i \in DOMAIN set.entries |-> NormalEntry(set.type, set.entries[i])]
Normalized(set) == [set EXCEPT !.entries = NormalEntries(set)]

\* normalizeRecordSet returns no error: a positive TTL, entries, all valid and
\* no two with the same content.
Normalizable(set) ==
  /\ set.type \in RecordTypes
  /\ set.ttl > 0
  /\ set.entries # <<>>
  /\ \A i \in DOMAIN set.entries : ValidEntry(set.type, set.entries[i])
  /\ Cardinality(Contents(Normalized(set))) = Len(set.entries)

---------------------------------------------------------------------------
(* Fingerprints. *)

\* fingerprintNormalizedRecordSet: everything but the IDs and the order.
Digest(set) ==
  [name |-> set.name, type |-> set.type, ttl |-> set.ttl, ext |-> set.ext,
   contents |-> Contents(set)]

MatchesAnyContent(expected, set) == Normalizable(set)

\* Precondition.Matches: the fingerprint of the set, normalised once more,
\* against the one the client was shown.
Matches(expected, set) == Normalizable(set) /\ Digest(Normalized(set)) = expected

---------------------------------------------------------------------------
(* The record sets of a zone. *)

EntryIDs(set) == {set.entries[i].id : i \in DOMAIN set.entries}

\* NormalizeRecordSet of a set read from the provider, with its fingerprint.
Listed(set) == [Normalized(set) EXCEPT !.fingerprint = Digest(Normalized(set))]

\* encodeRecordSetID: the ID of a set is made of those of its records, so it
\* changes when a record joins or leaves the set.
SetID(members) == ToSet(members)

\* currentRecordSetForMutation: the set that still has exactly these records.
Current(sets, id) == {set \in sets : set.id = id}

\* groupRecords: the records of a supported type that have the same key are
\* one set, its entries sorted by ID.
Sorted(ids) ==
  CHOOSE s \in [1..Cardinality(ids) -> ids] :
     /\ \A i, j \in DOMAIN s : i < j => s[i] < s[j]
     /\ \A id \in ids : \E i \in DOMAIN s : s[i] = id
Grouped(records, supported, Key(_), Entry(_, _), Ext(_)) ==
  LET ids == {id \in DOMAIN records : records[id].type \in supported}
      SetOf(key) ==
        LET members == Sorted({id \in ids : Key(records[id]) = key})
            entries == [i \in DOMAIN members |-> Entry(members[i], records[members[i]])]
        IN  [id |-> SetID(members), name |-> key.name, type |-> key.type, ttl |-> key.ttl,
             entries |-> entries, ext |-> Ext([i \in DOMAIN members |-> records[members[i]]]),
             fingerprint |-> None]
  IN  {SetOf(key) : key \in {Key(records[id]) : id \in ids}}

---------------------------------------------------------------------------
(* Checks that the three adapters for single records make before a write. *)

\* IDs in the wanted entries that are there twice, or are of another set.
WantedIDs(input) == {input.entries[i].id : i \in DOMAIN input.entries} \ {None}
Repeats(input) ==
  \E i, j \in DOMAIN input.entries :
     i < j /\ input.entries[i].id = input.entries[j].id /\ input.entries[i].id # None
Strays(input, set) == WantedIDs(input) \ EntryIDs(set)

\* The entries of the wanted set, the new ones with the IDs the provider will
\* give them: the first free one for the first.
WithIDs(entries, issued) ==
  [i \in DOMAIN entries |->
     IF entries[i].id # None THEN entries[i]
     ELSE [entries[i] EXCEPT !.id = issued + Cardinality({j \in 1..i : entries[j].id = None})]]

\* The entry of a set that has this ID.
EntryWith(set, id) == set.entries[CHOOSE i \in DOMAIN set.entries : set.entries[i].id = id]

\* One list of calls per entry, in the order of the entries.
ForEach(entries, Calls(_)) == FlattenSeq([i \in DOMAIN entries |-> Calls(entries[i])])

\* The entries of the set that the wanted ones no longer name, deleted last.
Removals(set, entries) ==
  ForEach(set.entries, LAMBDA e : IF e.id \in EntryIDs([entries |-> entries]) THEN <<>>
                                  ELSE <<[op |-> "delete", id |-> e.id, with |-> <<>>]>>)

\* recordSetContainsExactEntries, with the fields the adapter compares of an entry.
ContainsExactly(set, expected, fields) ==
  /\ Len(set.entries) = Len(expected)
  /\ \A i \in DOMAIN expected :
        \E j \in DOMAIN set.entries :
           \A f \in fields \cup {"id"} : set.entries[j][f] = expected[i][f]

\* A mutation that the adapter refuses before it calls the provider.
Refuse(code) ==
  [refusal |-> code, calls |-> <<>>, goal |-> <<>>, key |-> None, status |-> "", gone |-> {}]
\* The calls of a mutation, and what its last read expects.
Mutate(calls, goal, key, status, gone) ==
  [refusal |-> "", calls |-> calls, goal |-> goal, key |-> key, status |-> status, gone |-> gone]

\* The fields of a call, and one more.
WithField(fields, f, value) ==
  [g \in DOMAIN fields \cup {f} |-> IF g = f THEN value ELSE fields[g]]

---------------------------------------------------------------------------
(* The provider. *)

Overlay(fields, record) ==
  [f \in DOMAIN record |-> IF f \in DOMAIN fields THEN fields[f] ELSE record[f]]

\* One call done.  "balance" is Alibaba Cloud's switch of the weighted routing
\* of one name, type and line, for the records of all TTLs.
Applied(records, call) ==
  IF call.op = "add"
  THEN [id \in DOMAIN records \cup {call.id} |-> IF id = call.id THEN call.with ELSE records[id]]
  ELSE IF call.op = "set"
  THEN [id \in DOMAIN records |->
          IF id = call.id THEN Overlay(call.with, records[id]) ELSE records[id]]
  ELSE IF call.op = "delete"
  THEN [id \in DOMAIN records \ {call.id} |-> records[id]]
  ELSE [id \in DOMAIN records |->
          IF \A f \in {"name", "type", "line"} : records[id][f] = call.with[f]
          THEN Overlay(call.with, records[id]) ELSE records[id]]

\* The provider has no such record, or another one with the same name, type,
\* route and value: it answers "not found" or "duplicate".
Refused(records, call, Identity(_)) ==
  LET found == call.op \in {"set", "delete"} => call.id \in DOMAIN records
      after == Applied(records, call)
  IN  found => /\ call.op \in {"add", "set"}
               /\ \E id \in DOMAIN after \ {call.id} : Identity(after[id]) = Identity(after[call.id])
=============================================================================
