------------------------- MODULE RecordPlansProofs -------------------------
(***************************************************************************)
(* What the adapters plan, for any zone, request and list, and what the    *)
(* last reads of single records show: lemmas about the operators of        *)
(* RecordMutations and the adapters' modules.                              *)
(***************************************************************************)
EXTENDS RecordMutations, SequenceLemmas

---------------------------------------------------------------------------
(* Entries, inputs and listed sets. *)

EntryOK(e) ==
  /\ e = [id |-> e.id, text |-> e.text, num |-> e.num, ext |-> e.ext]
  /\ adapter = "huawei" => e.ext \in Routing \cup {None}
  /\ adapter = "cloudflare" => e.ext = None
EntriesOK(type, entries) ==
  /\ IsSeq(entries) /\ entries # <<>>
  /\ \A i \in DOMAIN entries :
        EntryOK(entries[i]) /\ (type \in {"CNAME", "NS"} => entries[i].num = None)
InputOK(x) ==
  /\ x = [name |-> x.name, type |-> x.type, ttl |-> x.ttl, entries |-> x.entries, ext |-> x.ext]
  /\ EntriesOK(x.type, x.entries)
SetOK(set) ==
  /\ set = [id |-> set.id, name |-> set.name, type |-> set.type, ttl |-> set.ttl,
             entries |-> set.entries, ext |-> set.ext, fingerprint |-> set.fingerprint]
  /\ EntriesOK(set.type, set.entries)

LEMMA InputOfOK ==
  ASSUME NEW set, SetOK(set)
  PROVE  InputOK(InputOf(set))
  BY DEF SetOK, InputOK, InputOf

\* An input with other entries of the same type.
LEMMA OtherEntriesOK ==
  ASSUME NEW x, InputOK(x), NEW entries, EntriesOK(x.type, entries)
  PROVE  InputOK([x EXCEPT !.entries = entries])
  BY DEF InputOK

\* One entry replaced.
LEMMA OtherEntryOK ==
  ASSUME NEW type, NEW entries, EntriesOK(type, entries), NEW i, NEW e,
         EntryOK(e), type \in {"CNAME", "NS"} => e.num = None
  PROVE  EntriesOK(type, [entries EXCEPT ![i] = e])
<1> DEFINE new == [entries EXCEPT ![i] = e]
<1>1. Len(entries) \in Nat /\ DOMAIN entries = 1..Len(entries)
  BY SeqFacts DEF EntriesOK
<1>2. new = [j \in 1..Len(entries) |-> new[j]]
  BY <1>1
<1>3. \A j \in 1..Len(entries) : new[j] = IF j = i THEN e ELSE entries[j]
  BY <1>1
<1> HIDE DEF new
<1>4. IsSeq(new) /\ DOMAIN new = 1..Len(entries)
  BY <1>1, <1>2, FunctionIsSeq
<1>5. EntriesOK(type, new)
  BY <1>1, <1>3, <1>4 DEF EntriesOK
<1> QED
  BY <1>5 DEF new

\* The fields of an entry replaced.
LEMMA EntryWritten ==
  ASSUME NEW e, EntryOK(e), NEW v
  PROVE  /\ [e EXCEPT !.text = v] = [id |-> e.id, text |-> v, num |-> e.num, ext |-> e.ext]
         /\ [e EXCEPT !.num = v] = [id |-> e.id, text |-> e.text, num |-> v, ext |-> e.ext]
         /\ [e EXCEPT !.id = v] = [id |-> v, text |-> e.text, num |-> e.num, ext |-> e.ext]
         /\ [e EXCEPT !.ext = v] = [id |-> e.id, text |-> e.text, num |-> e.num, ext |-> v]
         /\ [e EXCEPT !.text = v].num = e.num /\ [e EXCEPT !.id = v].num = e.num
         /\ [e EXCEPT !.ext = v].num = e.num
         /\ EntryOK([e EXCEPT !.text = v]) /\ EntryOK([e EXCEPT !.num = v])
         /\ EntryOK([e EXCEPT !.id = v])
         /\ ((adapter = "huawei" => v \in Routing \cup {None}) /\ (adapter = "cloudflare" => v = None))
            => EntryOK([e EXCEPT !.ext = v])
<1>1. e = [id |-> e.id, text |-> e.text, num |-> e.num, ext |-> e.ext]
  BY DEF EntryOK
<1>2. [e EXCEPT !.text = v] = [id |-> e.id, text |-> v, num |-> e.num, ext |-> e.ext]
  BY <1>1
<1>3. [e EXCEPT !.num = v] = [id |-> e.id, text |-> e.text, num |-> v, ext |-> e.ext]
  BY <1>1
<1>4. [e EXCEPT !.id = v] = [id |-> v, text |-> e.text, num |-> e.num, ext |-> e.ext]
  BY <1>1
<1>5. [e EXCEPT !.ext = v] = [id |-> e.id, text |-> e.text, num |-> e.num, ext |-> v]
  BY <1>1
<1> QED
  BY <1>2, <1>3, <1>4, <1>5 DEF EntryOK

LEMMA EditedEntriesOK ==
  ASSUME adapter \in Adapters, NEW type, NEW es, EntriesOK(type, es), NEW new \in EditedEntries(es)
  PROVE  EntriesOK(type, new)
<1> DEFINE n == Len(es)
<1>1. IsSeq(es) /\ n \in Nat \ {0} /\ DOMAIN es = 1..n /\ 1 \in 1..n
  BY SeqFacts DEF EntriesOK
<1>2. \A i \in 1..n : EntryOK(es[i]) /\ (type \in {"CNAME", "NS"} => es[i].num = None)
  BY <1>1 DEF EntriesOK
<1>3. ASSUME NEW i \in 1..n, NEW text \in Texts, new = [es EXCEPT ![i].text = text]
      PROVE  EntriesOK(type, new)
  <2> DEFINE e == es[i]
  <2>1. EntryOK(e) /\ (type \in {"CNAME", "NS"} => e.num = None)
    BY <1>2
  <2>2. new = [es EXCEPT ![i] = [e EXCEPT !.text = text]]
    BY <1>3
  <2> HIDE DEF e
  <2>3. EntryOK([e EXCEPT !.text = text])
        /\ (type \in {"CNAME", "NS"} => [e EXCEPT !.text = text].num = None)
    BY <2>1, EntryWritten
  <2> QED BY <2>2, <2>3, OtherEntryOK
<1>4. ASSUME NEW i \in 1..n, es[i].num # None, NEW num \in Nums, new = [es EXCEPT ![i].num = num]
      PROVE  EntriesOK(type, new)
  <2> DEFINE e == es[i]
  <2>1. EntryOK(e) /\ type \notin {"CNAME", "NS"}
    BY <1>2, <1>4
  <2>2. new = [es EXCEPT ![i] = [e EXCEPT !.num = num]]
    BY <1>4
  <2> HIDE DEF e
  <2>3. EntryOK([e EXCEPT !.num = num])
    BY <2>1, EntryWritten
  <2> QED BY <2>1, <2>2, <2>3, OtherEntryOK
<1>5. ASSUME new = [es EXCEPT ![1].id = None] PROVE EntriesOK(type, new)
  <2> DEFINE e == es[1]
  <2>1. EntryOK(e) /\ (type \in {"CNAME", "NS"} => e.num = None)
    BY <1>1, <1>2
  <2>2. new = [es EXCEPT ![1] = [e EXCEPT !.id = None]]
    BY <1>5
  <2> HIDE DEF e
  <2>3. EntryOK([e EXCEPT !.id = None])
        /\ (type \in {"CNAME", "NS"} => [e EXCEPT !.id = None].num = None)
    BY <2>1, EntryWritten
  <2> QED BY <2>2, <2>3, OtherEntryOK
<1>6. ASSUME n # 1, new = SubSeq(es, 1, n - 1) PROVE EntriesOK(type, new)
  <2> DEFINE m == n - 1
  <2>1. /\ m \in Nat \ {0} /\ new = [i \in 1..m |-> es[i]] /\ \A i \in 1..m : i \in 1..n
    BY <1>1, <1>6 DEF IsSeq
  <2>2. new = [i \in 1..m |-> new[i]]
    BY <2>1
  <2> HIDE DEF m
  <2>3. IsSeq(new) /\ DOMAIN new = 1..m /\ new # <<>>
    BY <2>1, <2>2, FunctionIsSeq, SeqFacts
  <2> QED
    BY <2>1, <2>3, <1>2 DEF EntriesOK
<1>7. ASSUME NEW text \in Texts,
             new = Append(es, [id |-> None, text |-> text, num |-> es[1].num, ext |-> es[1].ext])
      PROVE  EntriesOK(type, new)
  <2> DEFINE e == [id |-> None, text |-> text, num |-> es[1].num, ext |-> es[1].ext]
  <2>1. EntryOK(e) /\ (type \in {"CNAME", "NS"} => e.num = None)
    BY <1>1, <1>2 DEF EntryOK
  <2> HIDE DEF e
  <2>2. new = es \o <<e>>
    BY <1>1, <1>7 DEF IsSeq, e
  <2>3. IsSeq(new) /\ Items(new) = Items(es) \cup {e}
    BY <2>2, <1>1, ConcatIsSeq, SingletonIsSeq
  <2>4. \A f \in Items(new) : EntryOK(f) /\ (type \in {"CNAME", "NS"} => f.num = None)
    BY <2>1, <2>3, <1>1, <1>2 DEF Items
  <2>5. new # <<>>
    BY <2>3, EmptyIsSeq
  <2> QED
    BY <2>3, <2>4, <2>5 DEF EntriesOK, Items
<1>8. ASSUME NEW ext \in EntryExts[adapter], new = [i \in 1..n |-> [es[i] EXCEPT !.ext = ext]]
      PROVE  EntriesOK(type, new)
  <2>1. /\ adapter = "huawei" => ext \in Routing \cup {None}
        /\ adapter = "cloudflare" => ext = None
    BY <1>8, ExtsAssumption
  <2>2. ASSUME NEW i \in 1..n PROVE EntryOK(new[i]) /\ new[i].num = es[i].num
    <3> DEFINE e == es[i]
    <3>1. new[i] = [e EXCEPT !.ext = ext] /\ EntryOK(e)
      BY <1>2, <1>8
    <3> HIDE DEF e
    <3>2. EntryOK([e EXCEPT !.ext = ext]) /\ [e EXCEPT !.ext = ext].num = e.num
      BY <3>1, <2>1, EntryWritten
    <3> QED BY <3>1, <3>2 DEF e
  <2>3. new = [i \in 1..n |-> new[i]]
    BY <1>8
  <2>4. IsSeq(new) /\ DOMAIN new = 1..n /\ new # <<>>
    BY <2>3, <1>1, FunctionIsSeq, SeqFacts
  <2> QED
    BY <2>2, <2>4, <1>2 DEF EntriesOK
<1> DEFINE A == UNION {{[es EXCEPT ![i].text = text] : i \in 1..n} : text \in Texts}
           B == UNION {{[es EXCEPT ![i].num = num] : i \in {j \in 1..n : es[j].num # None}}
                       : num \in Nums}
           C == {[es EXCEPT ![1].id = None]}
           D == {SubSeq(es, 1, k - 1) : k \in {n} \ {1}}
           E == {Append(es, [id |-> None, text |-> text, num |-> es[1].num, ext |-> es[1].ext])
                 : text \in Texts}
           F == {[i \in 1..n |-> [es[i] EXCEPT !.ext = ext]] : ext \in EntryExts[adapter]}
<1>9. new \in A \cup B \cup C \cup D \cup E \cup F
  <2>1. EditedEntries(es) = A \cup B \cup C \cup D \cup E \cup F
    BY DEF EditedEntries
  <2> HIDE DEF A, B, C, D, E, F
  <2> QED BY <2>1
<1>10. CASE new \in A
  BY <1>3, <1>10
<1>11. CASE new \in B
  BY <1>4, <1>11
<1>12. CASE new \in C
  BY <1>5, <1>12
<1>13. CASE new \in D
  BY <1>6, <1>13
<1>14. CASE new \in E
  BY <1>7, <1>14
<1>15. CASE new \in F
  BY <1>8, <1>15
<1> HIDE DEF A, B, C, D, E, F
<1> QED
  BY <1>9, <1>10, <1>11, <1>12, <1>13, <1>14, <1>15

LEMMA EditedOK ==
  ASSUME adapter \in Adapters, NEW x, InputOK(x), NEW y \in Edited(x)
  PROVE  InputOK(y)
<1>1. CASE y = x
  BY <1>1
<1>2. ASSUME NEW es \in EditedEntries(x.entries), y = [x EXCEPT !.entries = es] PROVE InputOK(y)
  BY <1>2, EditedEntriesOK, OtherEntriesOK DEF InputOK
<1>3. ASSUME NEW v, y = [x EXCEPT !.ttl = v] \/ y = [x EXCEPT !.name = v] \/ y = [x EXCEPT !.ext = v]
      PROVE  InputOK(y)
  BY <1>3 DEF InputOK
<1> QED
  BY <1>1, <1>2, <1>3 DEF Edited

\* What the edits reach, k of them.
Reaches(set, n, f) ==
  f = [k \in 0..n |-> IF k = 0 THEN {InputOf(set)} ELSE UNION {Edited(x) : x \in f[k - 1]}]

LEMMA ReachesExists ==
  ASSUME NEW set, NEW n \in Nat
  PROVE  \E f : Reaches(set, n, f)
<1> DEFINE T == {m \in Nat : ~ \E f : Reaches(set, m, f)}
<1> SUFFICES ASSUME T # {} PROVE FALSE
  OBVIOUS
<1>1. T \subseteq Nat
  OBVIOUS
<1>2. PICK m \in T : \A k \in T : m <= k
  <2> HIDE DEF T
  <2> QED BY <1>1, Least
<1>3. CASE m = 0
  <2> DEFINE g == [k \in 0..0 |-> {InputOf(set)}]
  <2>1. g = [k \in 0..0 |-> IF k = 0 THEN {InputOf(set)} ELSE UNION {Edited(x) : x \in g[k - 1]}]
    OBVIOUS
  <2>2. Reaches(set, 0, g)
    BY <2>1 DEF Reaches
  <2> QED BY <1>2, <1>3, <2>2
<1>4. CASE m # 0
  <2>1. m \in Nat \ {0} /\ m - 1 \in Nat /\ m - 1 \notin T
    BY <1>2, <1>4
  <2>2. PICK f : Reaches(set, m - 1, f)
    BY <2>1
  <2> HIDE DEF T
  <2> DEFINE Next1(S) == UNION {Edited(x) : x \in S}
             g == [k \in 0..m |-> IF k = 0 THEN {InputOf(set)} ELSE Next1(f[k - 1])]
  <2>3. ASSUME NEW k \in 0..m - 1 PROVE g[k] = f[k]
    <3>1. f = [j \in 0..m - 1 |-> IF j = 0 THEN {InputOf(set)} ELSE Next1(f[j - 1])]
      BY <2>2 DEF Reaches
    <3> HIDE DEF Next1
    <3>2. f[k] = IF k = 0 THEN {InputOf(set)} ELSE Next1(f[k - 1])
      BY <3>1
    <3>3. k \in 0..m
      BY <2>1
    <3> QED BY <3>2, <3>3
  <2>4. ASSUME NEW k \in 0..m, k # 0 PROVE g[k - 1] = f[k - 1]
    <3>1. k - 1 \in 0..m - 1
      BY <2>1, <2>4
    <3> HIDE DEF g
    <3> QED BY <3>1, <2>3
  <2>5. g = [k \in 0..m |-> IF k = 0 THEN {InputOf(set)} ELSE Next1(g[k - 1])]
    <3> HIDE DEF Next1
    <3> QED BY <2>4
  <2>6. Reaches(set, m, g)
    BY <2>5 DEF Reaches
  <2>7. m \notin T
    BY <2>6 DEF T
  <2> QED BY <2>7, <1>2
<1> QED
  BY <1>3, <1>4

LEMMA InputsOK ==
  ASSUME adapter \in Adapters, NEW set, SetOK(set), NEW x \in Inputs(set)
  PROVE  InputOK(x)
<1> DEFINE f == CHOOSE f : f = [k \in 0..Edits |-> IF k = 0 THEN {InputOf(set)}
                                                  ELSE UNION {Edited(y) : y \in f[k - 1]}]
<1>1. Edits \in Nat
  BY BoundsAssumption
<1>2. Inputs(set) = f[Edits]
  BY DEF Inputs
<1>3. Reaches(set, Edits, f)
  <2>1. PICK g : Reaches(set, Edits, g)
    BY <1>1, ReachesExists
  <2>2. g = [k \in 0..Edits |-> IF k = 0 THEN {InputOf(set)} ELSE UNION {Edited(y) : y \in g[k - 1]}]
    BY <2>1, Zenon DEF Reaches
  <2>3. f = [k \in 0..Edits |-> IF k = 0 THEN {InputOf(set)} ELSE UNION {Edited(y) : y \in f[k - 1]}]
    BY <2>2, Zenon
  <2> QED BY <2>3, Zenon DEF Reaches
<1> HIDE DEF f
<1> DEFINE T == {k \in 0..Edits : \E y \in f[k] : ~ InputOK(y)}
<1> SUFFICES ASSUME T # {} PROVE FALSE
  BY <1>1, <1>2
<1>4. T \subseteq Nat
  OBVIOUS
<1>5. PICK k \in T : \A j \in T : k <= j
  <2> HIDE DEF T
  <2> QED BY <1>4, Least
<1>6. PICK y \in f[k] : ~ InputOK(y)
  BY <1>5
<1>7. f[k] = IF k = 0 THEN {InputOf(set)} ELSE UNION {Edited(z) : z \in f[k - 1]}
  <2>1. f = [j \in 0..Edits |-> IF j = 0 THEN {InputOf(set)} ELSE UNION {Edited(z) : z \in f[j - 1]}]
    BY <1>3 DEF Reaches
  <2> QED BY <2>1
<1>8. CASE k = 0
  BY <1>6, <1>7, <1>8, InputOfOK
<1>9. CASE k # 0
  <2>1. PICK z \in f[k - 1] : y \in Edited(z)
    BY <1>6, <1>7, <1>9
  <2>2. k - 1 \in 0..Edits /\ k - 1 \notin T
    BY <1>1, <1>5, <1>9
  <2>3. InputOK(z)
    BY <2>1, <2>2
  <2> QED BY <2>1, <2>3, <1>6, EditedOK
<1> QED
  BY <1>8, <1>9

RequestOK(r) ==
  /\ r = [kind |-> r.kind, id |-> r.id, expected |-> r.expected, desired |-> r.desired,
          input |-> r.input, echo |-> r.echo, batch |-> r.batch, item |-> r.item]
  /\ r.kind \in {"update", "create", "delete"} /\ r.batch \in BOOLEAN
  /\ r.batch => r.kind = "update"
  /\ (r.kind # "delete" /\ ~ r.batch) => InputOK(r.desired)
  /\ r.kind = "create" =>
        r.id = {} /\ \A i \in DOMAIN r.desired.entries : r.desired.entries[i].id = None

LEMMA CopyOK ==
  ASSUME NEW x, InputOK(x)
  PROVE  InputOK(Copy(x)) /\ \A i \in DOMAIN Copy(x).entries : Copy(x).entries[i].id = None
<1> DEFINE es == [i \in DOMAIN x.entries |-> [x.entries[i] EXCEPT !.id = None]]
<1>1. \E ext : Copy(x) = [name |-> x.name, type |-> x.type, ttl |-> x.ttl, entries |-> es, ext |-> ext]
  BY DEF Copy
<1>2. ASSUME NEW i \in DOMAIN x.entries
      PROVE  EntryOK(es[i]) /\ es[i].num = x.entries[i].num /\ es[i].id = None
  <2> DEFINE e == x.entries[i]
  <2>1. EntryOK(e) /\ es[i] = [e EXCEPT !.id = None]
    BY DEF InputOK, EntriesOK
  <2> HIDE DEF e
  <2>2. /\ [e EXCEPT !.id = None] = [id |-> None, text |-> e.text, num |-> e.num, ext |-> e.ext]
        /\ EntryOK([e EXCEPT !.id = None])
    BY <2>1, EntryWritten
  <2> HIDE DEF es
  <2> QED BY <2>1, <2>2 DEF e
<1>3. EntriesOK(x.type, x.entries)
  BY DEF InputOK
<1>4. Len(x.entries) \in Nat /\ DOMAIN x.entries = 1..Len(x.entries) /\ Len(x.entries) # 0
  BY <1>3, SeqFacts DEF EntriesOK
<1>5. es = [i \in 1..Len(x.entries) |-> es[i]]
  BY <1>4
<1> HIDE DEF es
<1>6. IsSeq(es) /\ DOMAIN es = DOMAIN x.entries /\ es # <<>>
  BY <1>4, <1>5, FunctionIsSeq, SeqFacts
<1>7. EntriesOK(x.type, es)
  BY <1>2, <1>3, <1>6 DEF EntriesOK
<1> QED
  BY <1>1, <1>2, <1>6, <1>7 DEF InputOK

---------------------------------------------------------------------------
(* What the zone's record sets are made of. *)

LEMMA SameCardinality ==
  ASSUME NEW S
  PROVE  /\ P!Cardinality(S) = Cardinality(S) /\ Aliyun!Cardinality(S) = Cardinality(S)
         /\ Tencent!Cardinality(S) = Cardinality(S) /\ Cloudflare!Cardinality(S) = Cardinality(S)
         /\ Huawei!Cardinality(S) = Cardinality(S)
  BY Zenon DEF Cardinality, P!Cardinality, Aliyun!Cardinality, Tencent!Cardinality, Cloudflare!Cardinality,
         Huawei!Cardinality

\* The members of a set in their order: a listed set of single records.
LEMMA SortedEnumerates ==
  ASSUME NEW n \in Nat, NEW S, S \subseteq 1..n
  PROVE  Enumerates(P!Sorted(S), S)
<1>1. S \subseteq Nat /\ IsFiniteSet(S)
  <2>1. IsFiniteSet(1..n) /\ S \in SUBSET (1..n)
    BY FS_Interval
  <2>2. IsFiniteSet(S)
    BY <2>1, FS_Subset
  <2> QED BY <2>2
<1>2. PICK s : Enumerates(s, S)
  BY <1>1, EnumerationExists
<1> DEFINE c == P!Cardinality(S)
           r == CHOOSE t \in [1..c -> S] :
                  /\ \A i, j \in DOMAIN t : i < j => t[i] < t[j]
                  /\ \A x \in S : \E i \in DOMAIN t : t[i] = x
<1>3. c = Cardinality(S)
  BY SameCardinality
<1>4. r = P!Sorted(S)
  BY DEF P!Sorted
<1> HIDE DEF c
<1>5. Enumerates(r, S)
  <2>1. \E t : t \in [1..c -> S] /\ (/\ \A i, j \in DOMAIN t : i < j => t[i] < t[j]
                  /\ \A x \in S : \E i \in DOMAIN t : t[i] = x)
    BY <1>2, <1>3 DEF Enumerates
  <2>2. r \in [1..c -> S] /\ (/\ \A i, j \in DOMAIN r : i < j => r[i] < r[j]
                  /\ \A x \in S : \E i \in DOMAIN r : r[i] = x)
    BY <2>1, Zenon
  <2> HIDE DEF r
  <2> QED BY <2>2, <1>3 DEF Enumerates
<1> QED
  BY <1>4, <1>5

\* Its entries are a sequence.
LEMMA EnumerationIsSeq ==
  ASSUME NEW n \in Nat, NEW S, S \subseteq 1..n, NEW m, Enumerates(m, S)
  PROVE  IsSeq(m) /\ Items(m) = S /\ Len(m) \in Nat /\ DOMAIN m = 1..Len(m)
<1>1. Cardinality(S) \in Nat
  <2>1. IsFiniteSet(1..n) /\ S \in SUBSET (1..n)
    BY FS_Interval
  <2>2. IsFiniteSet(S)
    BY <2>1, FS_Subset
  <2> QED BY <2>2, FS_CardinalityType
<1>2. m = [i \in 1..Cardinality(S) |-> m[i]]
  BY DEF Enumerates
<1>3. IsSeq(m) /\ Len(m) = Cardinality(S) /\ DOMAIN m = 1..Cardinality(S)
  BY <1>1, <1>2, FunctionIsSeq
<1> QED
  BY <1>1, <1>3 DEF Enumerates, Items

\* A list of records, as it is typed.
ViewOK(view) ==
  /\ DOMAIN view \subseteq 1..issued
  /\ \A id \in DOMAIN view : RecordOK(adapter, view[id])

\* The adapters have the shared definitions.
LEMMA SameListed ==
  ASSUME NEW set
  PROVE  /\ Aliyun!Listed(set) = P!Listed(set) /\ Tencent!Listed(set) = P!Listed(set)
         /\ Cloudflare!Listed(set) = P!Listed(set) /\ Huawei!Listed(set) = P!Listed(set)
  BY Zenon DEF P!Listed, P!Normalized, P!NormalEntries, P!NormalEntry, P!CanonicalTXT, P!Digest, P!Contents, P!Content,
         Aliyun!Listed, Aliyun!Normalized, Aliyun!NormalEntries, Aliyun!NormalEntry, Aliyun!CanonicalTXT, Aliyun!Digest, Aliyun!Contents, Aliyun!Content,
         Tencent!Listed, Tencent!Normalized, Tencent!NormalEntries, Tencent!NormalEntry, Tencent!CanonicalTXT, Tencent!Digest, Tencent!Contents, Tencent!Content,
         Cloudflare!Listed, Cloudflare!Normalized, Cloudflare!NormalEntries, Cloudflare!NormalEntry, Cloudflare!CanonicalTXT, Cloudflare!Digest, Cloudflare!Contents, Cloudflare!Content,
         Huawei!Listed, Huawei!Normalized, Huawei!NormalEntries, Huawei!NormalEntry, Huawei!CanonicalTXT, Huawei!Digest, Huawei!Contents, Huawei!Content

LEMMA SameSorted ==
  ASSUME NEW S
  PROVE  /\ Aliyun!Sorted(S) = P!Sorted(S) /\ Tencent!Sorted(S) = P!Sorted(S)
         /\ Cloudflare!Sorted(S) = P!Sorted(S)
  BY Zenon DEF P!Sorted, Aliyun!Sorted, Tencent!Sorted, Cloudflare!Sorted, P!Cardinality,
         Aliyun!Cardinality, Tencent!Cardinality, Cloudflare!Cardinality

\* What listing makes of an entry.
LEMMA NormalEntryFacts ==
  ASSUME NEW type, NEW e
  PROVE  LET n == P!NormalEntry(type, e) IN
         /\ n = [id |-> n.id, text |-> n.text, num |-> n.num, ext |-> n.ext]
         /\ n.id = e.id /\ n.ext = e.ext /\ n.text.word = e.text.word
         /\ n.num = IF type \in {"CNAME", "NS"} THEN None ELSE e.num
  BY DEF P!NormalEntry, P!CanonicalTXT

\* A text with a level of quotation marks less, if it has one.
LEMMA CanonicalText ==
  ASSUME NEW text
  PROVE  LET c == P!CanonicalTXT(text) IN
         /\ text.quotes = 0 => c = text
         /\ (text.quotes \in Nat /\ text.quotes # 0) => c.quotes = text.quotes - 1
         /\ text.quotes \in Nat => c.quotes \in Nat
         /\ Tencent!CanonicalTXT(text) = c /\ Cloudflare!CanonicalTXT(text) = c
  BY DEF P!CanonicalTXT, Tencent!CanonicalTXT, Cloudflare!CanonicalTXT

LEMMA NormalQuotes ==
  ASSUME NEW type, NEW e, e.text.quotes \in Nat
  PROVE  P!NormalEntry(type, e).text.quotes \in Nat
<1>1. P!NormalEntry(type, e).text \in {e.text, P!CanonicalTXT(e.text)}
  BY DEF P!NormalEntry
<1> QED
  BY <1>1, CanonicalText

LEMMA ListedSet ==
  ASSUME NEW es, IsSeq(es), es # <<>>,
         adapter = "huawei" => \A i \in DOMAIN es : es[i].ext \in Routing \cup {None},
         adapter = "cloudflare" => \A i \in DOMAIN es : es[i].ext = None,
         NEW raw,
         raw = [id |-> raw.id, name |-> raw.name, type |-> raw.type, ttl |-> raw.ttl,
                entries |-> es, ext |-> raw.ext, fingerprint |-> None],
         NEW set, set = P!Listed(raw)
  PROVE  /\ SetOK(set)
         /\ set.id = raw.id /\ set.name = raw.name /\ set.type = raw.type /\ set.ttl = raw.ttl
         /\ set.ext = raw.ext /\ DOMAIN set.entries = DOMAIN es
         /\ \A i \in DOMAIN es : set.entries[i] = P!NormalEntry(raw.type, es[i])
         /\ set.fingerprint = P!Digest(P!Normalized(raw))
<1> DEFINE n == [i \in DOMAIN es |-> P!NormalEntry(raw.type, es[i])]
           f == P!Digest(P!Normalized(raw))
<1>1. set = [id |-> raw.id, name |-> raw.name, type |-> raw.type, ttl |-> raw.ttl,
                entries |-> n, ext |-> raw.ext, fingerprint |-> f]
  <2>1. P!Normalized(raw) = [id |-> raw.id, name |-> raw.name, type |-> raw.type, ttl |-> raw.ttl,
                entries |-> n, ext |-> raw.ext, fingerprint |-> None]
    <3>1. P!NormalEntries(raw) = n
      BY DEF P!NormalEntries
    <3> HIDE DEF n
    <3> QED BY <3>1 DEF P!Normalized
  <2>2. set = [P!Normalized(raw) EXCEPT !.fingerprint = f]
    BY DEF P!Listed
  <2> HIDE DEF n, f
  <2> QED BY <2>1, <2>2
<1>2. /\ DOMAIN n = DOMAIN es /\ DOMAIN es = 1..Len(es) /\ Len(es) \in Nat \ {0}
      /\ n = [i \in 1..Len(es) |-> n[i]]
  BY SeqFacts
<1>3. \A i \in DOMAIN es : n[i] = P!NormalEntry(raw.type, es[i])
  OBVIOUS
<1> HIDE DEF n
<1>4. IsSeq(n) /\ n # <<>>
  BY <1>2, FunctionIsSeq, SeqFacts
<1>5. EntriesOK(raw.type, n)
  <2> SUFFICES ASSUME NEW i \in DOMAIN n
               PROVE  EntryOK(n[i]) /\ (raw.type \in {"CNAME", "NS"} => n[i].num = None)
    BY <1>4 DEF EntriesOK
  <2>1. n[i] = P!NormalEntry(raw.type, es[i])
    BY <1>2, <1>3
  <2> QED BY <2>1, <1>2, NormalEntryFacts DEF EntryOK
<1> HIDE DEF f
<1> QED
  BY <1>1, <1>2, <1>3, <1>5 DEF SetOK, f

\* A listed set is shown as a set that is listed again.
LEMMA ShownSet ==
  ASSUME NEW set, SetOK(set)
  PROVE  LET shown == Shown(set) IN
         /\ SetOK(shown) /\ shown.id = set.id
         /\ shown.name = set.name /\ shown.type = set.type /\ shown.ttl = set.ttl /\ shown.ext = set.ext
         /\ DOMAIN shown.entries = DOMAIN set.entries
         /\ \A i \in DOMAIN set.entries : shown.entries[i] = P!NormalEntry(set.type, set.entries[i])
         /\ shown.fingerprint = P!Digest(P!Normalized(set))
<1> DEFINE es == set.entries
           raw == [set EXCEPT !.fingerprint = None]
<1>1. raw = [id |-> set.id, name |-> set.name, type |-> set.type, ttl |-> set.ttl,
             entries |-> es, ext |-> set.ext, fingerprint |-> None]
  BY DEF SetOK
<1>2. Shown(set) = P!Listed(raw) /\ P!Digest(P!Normalized(raw)) = P!Digest(P!Normalized(set))
  <2>1. set = [id |-> set.id, name |-> set.name, type |-> set.type, ttl |-> set.ttl,
               entries |-> set.entries, ext |-> set.ext, fingerprint |-> set.fingerprint]
    BY DEF SetOK
  <2> DEFINE n == P!NormalEntries(set)
             f == P!Digest(P!Normalized(set))
  <2>2. P!NormalEntries(raw) = n
    BY <1>1, <2>1 DEF P!NormalEntries
  <2>3. P!Normalized(set) = [id |-> set.id, name |-> set.name, type |-> set.type, ttl |-> set.ttl,
                             entries |-> n, ext |-> set.ext, fingerprint |-> set.fingerprint]
    <3> HIDE DEF n
    <3>1. P!Normalized(set) = [set EXCEPT !.entries = n]
      BY DEF P!Normalized, n
    <3> QED BY <2>1, <3>1
  <2>4. P!Normalized(raw) = [id |-> set.id, name |-> set.name, type |-> set.type, ttl |-> set.ttl,
                             entries |-> n, ext |-> set.ext, fingerprint |-> None]
    <3>1. P!Normalized(raw) = [raw EXCEPT !.entries = n]
      BY <2>2 DEF P!Normalized
    <3> HIDE DEF n, raw
    <3> QED BY <1>1, <3>1
  <2>5. P!Digest(P!Normalized(raw)) = f
    <3> DEFINE a == P!Normalized(raw)
               b == P!Normalized(set)
    <3>1. a.name = b.name /\ a.type = b.type /\ a.ttl = b.ttl /\ a.ext = b.ext /\ a.entries = b.entries
      BY <2>3, <2>4
    <3> HIDE DEF a, b
    <3>2. P!Digest(a) = P!Digest(b)
      BY <3>1 DEF P!Digest, P!Contents
    <3> QED BY <3>2 DEF a, b
  <2>6. Shown(set) = [P!Normalized(set) EXCEPT !.fingerprint = f]
    BY DEF Shown, P!Listed
  <2>7. P!Listed(raw) = [P!Normalized(raw) EXCEPT !.fingerprint = f]
    BY <2>5 DEF P!Listed
  <2>8. P!Digest(P!Normalized(raw)) = P!Digest(P!Normalized(set))
    BY <2>5
  <2> HIDE DEF n, f, raw
  <2> QED BY <2>3, <2>4, <2>6, <2>7, <2>8
<1>3. /\ IsSeq(es) /\ es # <<>>
      /\ adapter = "huawei" => \A i \in DOMAIN es : es[i].ext \in Routing \cup {None}
      /\ adapter = "cloudflare" => \A i \in DOMAIN es : es[i].ext = None
  BY DEF SetOK, EntriesOK, EntryOK
<1>4. /\ raw = [id |-> raw.id, name |-> raw.name, type |-> raw.type, ttl |-> raw.ttl,
                entries |-> es, ext |-> raw.ext, fingerprint |-> None]
      /\ raw.id = set.id /\ raw.name = set.name /\ raw.type = set.type /\ raw.ttl = set.ttl /\ raw.ext = set.ext
  BY <1>1
<1> HIDE DEF raw, es
<1> QED
  BY <1>2, <1>3, <1>4, ListedSet DEF es

\* A request names what its client has been shown.
LEMMA RequestsOK ==
  ASSUME adapter \in Adapters, NEW set, SetOK(set), NEW r \in Requests(set)
  PROVE  RequestOK(r)
<1> DEFINE shown == Shown(set)
           f == shown.fingerprint
           id == set.id
<1> DEFINE about == [kind |-> "update", id |-> id, expected |-> f, desired |-> None,
                     input |-> None, echo |-> FALSE, batch |-> FALSE, item |-> None]
           same(x) == shown = set /\ x = InputOf(set)
           A == {[about EXCEPT !.desired = x, !.echo = same(x)] : x \in Inputs(shown)}
           B == {[about EXCEPT !.kind = "create", !.id = {}, !.expected = None, !.desired = Copy(x)]
                  : x \in {y \in Inputs(shown) : y.name # set.name}}
           C == {[about EXCEPT !.kind = "delete"]}
           D == {[about EXCEPT !.batch = TRUE, !.item = [seen |-> InputOf(shown), ttl |-> ttl]] : ttl \in TTLs}
<1>1. \A x \in Inputs(shown) : InputOK(x)
  BY ShownSet, InputsOK
<1>2. r \in A \cup B \cup C \cup D
  BY Zenon DEF Requests
<1>3. ASSUME NEW kind, NEW i, NEW expected, NEW desired, NEW input, NEW echo, NEW batch, NEW item,
             r = [kind |-> kind, id |-> i, expected |-> expected, desired |-> desired, input |-> input,
                  echo |-> echo, batch |-> batch, item |-> item]
      PROVE  /\ r = [kind |-> r.kind, id |-> r.id, expected |-> r.expected, desired |-> r.desired,
                     input |-> r.input, echo |-> r.echo, batch |-> r.batch, item |-> r.item]
             /\ r.kind = kind /\ r.id = i /\ r.desired = desired /\ r.batch = batch
  BY <1>3
<1> HIDE DEF shown, f, id, same
<1>4. CASE r \in A
  <2>1. PICK x \in Inputs(shown) : r = [about EXCEPT !.desired = x, !.echo = same(x)]
    BY <1>4
  <2>2. r = [kind |-> "update", id |-> id, expected |-> f, desired |-> x, input |-> None,
             echo |-> same(x), batch |-> FALSE, item |-> None]
    BY <2>1
  <2> QED BY <2>2, <1>1, <1>3 DEF RequestOK
<1>5. CASE r \in B
  <2>1. PICK x \in Inputs(shown) :
          r = [about EXCEPT !.kind = "create", !.id = {}, !.expected = None, !.desired = Copy(x)]
    BY <1>5
  <2>2. r = [kind |-> "create", id |-> {}, expected |-> None, desired |-> Copy(x), input |-> None,
             echo |-> FALSE, batch |-> FALSE, item |-> None]
    BY <2>1
  <2>3. InputOK(Copy(x)) /\ \A i \in DOMAIN Copy(x).entries : Copy(x).entries[i].id = None
    BY <1>1, CopyOK
  <2> QED BY <2>2, <2>3, <1>3 DEF RequestOK
<1>6. CASE r \in C
  <2>1. r = [kind |-> "delete", id |-> id, expected |-> f, desired |-> None, input |-> None,
             echo |-> FALSE, batch |-> FALSE, item |-> None]
    BY <1>6
  <2> HIDE DEF C
  <2> QED BY <2>1, <1>3 DEF RequestOK
<1>7. CASE r \in D
  <2>1. PICK ttl \in TTLs :
          r = [about EXCEPT !.batch = TRUE, !.item = [seen |-> InputOf(shown), ttl |-> ttl]]
    BY <1>7
  <2>2. r = [kind |-> "update", id |-> id, expected |-> f, desired |-> None, input |-> None,
             echo |-> FALSE, batch |-> TRUE, item |-> [seen |-> InputOf(shown), ttl |-> ttl]]
    BY <2>1
  <2> QED BY <2>2, <1>3 DEF RequestOK
<1> HIDE DEF A, B, C, D
<1> QED
  BY <1>2, <1>4, <1>5, <1>6, <1>7

\* The set is the normal form of what was read of the records m; as they are in
\* the order of their IDs, its ID says what it is.
ListedFrom(set, view, m, raw) ==
  /\ m = P!Sorted(set.id) /\ set = P!Listed(raw)
  /\ \A i \in DOMAIN m : view[m[i]].text.quotes \in Nat => set.entries[i].text.quotes \in Nat

\* The records m of the view are listed as one set.
Lists(set, view, m) ==
  /\ IsSeq(m) /\ m # <<>> /\ Items(m) \subseteq DOMAIN view
  /\ \A i, j \in DOMAIN m : i < j => m[i] < m[j]
  /\ set.id = Items(m) /\ DOMAIN set.entries = DOMAIN m
  /\ \A i \in DOMAIN m :
       LET r == view[m[i]]  e == set.entries[i] IN
       /\ e.id = m[i] /\ e.text.word = r.text.word /\ e.num = r.num
       /\ set.name = r.name /\ set.type = r.type

AliyunLists(set, view, m) ==
  /\ Lists(set, view, m)
  /\ set.ext = Aliyun!AggregateStatus([i \in DOMAIN m |-> view[m[i]]])
  /\ \A i \in DOMAIN m :
       LET r == view[m[i]] IN
       /\ set.ttl = Aliyun!RecordKey(r).ttl
       /\ set.entries[i].ext = Aliyun!EntryOf(m[i], r).ext
       /\ \A j \in DOMAIN m : Aliyun!RecordKey(view[m[j]]) = Aliyun!RecordKey(r)

AliyunRaw(view, m) ==
  LET key == Aliyun!RecordKey(view[m[1]])
  IN  [id |-> Items(m), name |-> key.name, type |-> key.type, ttl |-> key.ttl,
       entries |-> [i \in DOMAIN m |-> Aliyun!EntryOf(m[i], view[m[i]])],
       ext |-> Aliyun!AggregateStatus([i \in DOMAIN m |-> view[m[i]]]), fingerprint |-> None]

LEMMA AliyunSets ==
  ASSUME adapter = "aliyun", issued \in Nat, NEW view, ViewOK(view), NEW set \in Aliyun!Sets(view)
  PROVE  /\ SetOK(set)
         /\ \E m : AliyunLists(set, view, m) /\ ListedFrom(set, view, m, AliyunRaw(view, m))
<1> DEFINE ids == {id \in DOMAIN view : view[id].type \in Aliyun!Supported}
           Of(key) == {id \in ids : Aliyun!RecordKey(view[id]) = key}
           Raw(key, m) == [id |-> {m[i] : i \in DOMAIN m}, name |-> key.name, type |-> key.type, ttl |-> key.ttl,
                     entries |-> [i \in DOMAIN m |-> Aliyun!EntryOf(m[i], view[m[i]])],
                     ext |-> Aliyun!AggregateStatus([i \in DOMAIN m |-> view[m[i]]]),
                     fingerprint |-> None]
<1>1. PICK raw \in Aliyun!Groups(view) : set = P!Listed(raw)
  BY SameListed DEF Aliyun!Sets
<1>2. \A S : Aliyun!Sorted(S) = P!Sorted(S)
  BY SameSorted
<1>3. PICK key \in {Aliyun!RecordKey(view[id]) : id \in ids} : raw = Raw(key, P!Sorted(Of(key)))
  <2>1. Aliyun!Groups(view) = {Raw(key, Aliyun!Sorted(Of(key))) : key \in {Aliyun!RecordKey(view[id]) : id \in ids}}
    BY DEF Aliyun!Groups, Aliyun!Grouped, Aliyun!SetID, Aliyun!ToSet
  <2> HIDE DEF Raw, Of
  <2> QED BY <2>1, <1>1, <1>2
<1> DEFINE M == Of(key)
           m == P!Sorted(M)
           es == [i \in DOMAIN m |-> Aliyun!EntryOf(m[i], view[m[i]])]
<1>4. M \subseteq 1..issued /\ M # {} /\ M \subseteq DOMAIN view
  BY <1>3 DEF ViewOK
<1>5. \A id \in M : Aliyun!RecordKey(view[id]) = key
  OBVIOUS
<1> HIDE DEF M
<1>6. Enumerates(m, M)
  BY <1>4, SortedEnumerates
<1> HIDE DEF m
<1>7. IsSeq(m) /\ Items(m) = M /\ Items(m) = {m[i] : i \in DOMAIN m} /\ m # <<>>
  <2>1. IsSeq(m) /\ Items(m) = M
    BY <1>4, <1>6, EnumerationIsSeq
  <2>2. m # <<>>
    BY <1>4, <2>1, EmptyIsSeq
  <2> QED BY <2>1, <2>2 DEF Items
<1>8. \A i, j \in DOMAIN m : i < j => m[i] < m[j]
  BY <1>6 DEF Enumerates
<1>9. \A i \in DOMAIN m : m[i] \in M
  BY <1>7
<1>10. raw = Raw(key, m)
  BY <1>3 DEF m, M
<1>11. raw = [id |-> Items(m), name |-> raw.name, type |-> raw.type, ttl |-> raw.ttl,
                     entries |-> es, ext |-> Aliyun!AggregateStatus([i \in DOMAIN m |-> view[m[i]]]),
                     fingerprint |-> None]
       /\ raw.name = key.name /\ raw.type = key.type /\ raw.ttl = key.ttl
  BY <1>10, <1>7
<1>19. raw = AliyunRaw(view, m)
  <2>1. key = Aliyun!RecordKey(view[m[1]])
    BY <1>5, <1>7, <1>9, SeqFacts
  <2> QED BY <2>1, <1>7, <1>10 DEF AliyunRaw
<1> HIDE DEF es, Raw
<1>12. IsSeq(es) /\ es # <<>> /\ DOMAIN es = DOMAIN m /\ \A i \in DOMAIN m : es[i] = Aliyun!EntryOf(m[i], view[m[i]])
  <2>1. DOMAIN m = 1..Len(m) /\ Len(m) \in Nat \ {0}
    BY <1>7, SeqFacts
  <2>2. es = [i \in 1..Len(m) |-> es[i]]
    BY <2>1 DEF es
  <2> QED BY <2>1, <2>2, FunctionIsSeq, SeqFacts DEF es
<1>13. /\ SetOK(set)
       /\ set.id = raw.id /\ set.name = raw.name /\ set.type = raw.type /\ set.ttl = raw.ttl
       /\ set.ext = raw.ext /\ DOMAIN set.entries = DOMAIN es
       /\ \A i \in DOMAIN es : set.entries[i] = P!NormalEntry(raw.type, es[i])
  BY <1>1, <1>11, <1>12, ListedSet
<1>14. set.id = Items(m) /\ set.ext = Aliyun!AggregateStatus([i \in DOMAIN m |-> view[m[i]]])
  BY <1>11, <1>13
<1>15. ASSUME NEW i \in DOMAIN m
       PROVE  LET r == view[m[i]]  e == set.entries[i] IN
              /\ e.id = m[i] /\ e.text.word = r.text.word /\ e.num = r.num
              /\ set.name = r.name /\ set.type = r.type
              /\ set.ttl = Aliyun!RecordKey(r).ttl
              /\ e.ext = Aliyun!EntryOf(m[i], r).ext
              /\ Aliyun!RecordKey(r) = key
              /\ r.text.quotes \in Nat => e.text.quotes \in Nat
  <2> DEFINE r == view[m[i]]
             e == Aliyun!EntryOf(m[i], r)
  <2>1. Aliyun!RecordKey(r) = key /\ RecordOK("aliyun", r)
    BY <1>4, <1>5, <1>9 DEF ViewOK
  <2>2. set.name = r.name /\ set.type = r.type /\ set.ttl = Aliyun!RecordKey(r).ttl
    BY <2>1, <1>11, <1>13 DEF Aliyun!RecordKey
  <2>3. e.id = m[i] /\ e.text.word = r.text.word /\ e.num = r.num
    BY DEF Aliyun!EntryOf, Aliyun!CanonicalTXT
  <2>7. r.text.quotes \in Nat => e.text.quotes \in Nat
    BY CanonicalText DEF Aliyun!EntryOf
  <2>4. set.entries[i] = P!NormalEntry(set.type, e)
    BY <1>12, <1>13
  <2>5. r.type \in {"CNAME", "NS"} => r.num = None
    BY <2>1 DEF RecordOK
  <2> HIDE DEF e, r
  <2>6. /\ set.entries[i].id = m[i] /\ set.entries[i].text.word = r.text.word
        /\ set.entries[i].num = r.num /\ set.entries[i].ext = e.ext
    BY <2>2, <2>3, <2>4, <2>5, NormalEntryFacts
  <2>8. r.text.quotes \in Nat => set.entries[i].text.quotes \in Nat
    BY <2>4, <2>7, NormalQuotes
  <2> QED BY <2>1, <2>2, <2>6, <2>8 DEF e, r
<1>16. Lists(set, view, m)
  BY <1>4, <1>7, <1>8, <1>12, <1>13, <1>14, <1>15 DEF Lists
<1>17. AliyunLists(set, view, m)
  BY <1>14, <1>15, <1>16 DEF AliyunLists
<1>20. ListedFrom(set, view, m, AliyunRaw(view, m))
  BY <1>1, <1>7, <1>14, <1>15, <1>19 DEF ListedFrom, m
<1> QED
  BY <1>13, <1>17, <1>20

TencentLists(set, view, m) ==
  /\ Lists(set, view, m)
  /\ set.ext = Tencent!SetExt([i \in DOMAIN m |-> view[m[i]]])
  /\ \A i \in DOMAIN m :
       LET r == view[m[i]] IN
       /\ set.ttl = Tencent!RecordKey(r).ttl
       /\ set.entries[i].ext = Tencent!EntryOf(m[i], r).ext
       /\ \A j \in DOMAIN m : Tencent!RecordKey(view[m[j]]) = Tencent!RecordKey(r)

TencentRaw(view, m) ==
  LET key == Tencent!RecordKey(view[m[1]])
  IN  [id |-> Items(m), name |-> key.name, type |-> key.type, ttl |-> key.ttl,
       entries |-> [i \in DOMAIN m |-> Tencent!EntryOf(m[i], view[m[i]])],
       ext |-> Tencent!SetExt([i \in DOMAIN m |-> view[m[i]]]), fingerprint |-> None]

LEMMA TencentSets ==
  ASSUME adapter = "tencent", issued \in Nat, NEW view, ViewOK(view), NEW set \in Tencent!Sets(view)
  PROVE  /\ SetOK(set)
         /\ \E m : TencentLists(set, view, m) /\ ListedFrom(set, view, m, TencentRaw(view, m))
<1> DEFINE ids == {id \in DOMAIN view : view[id].type \in Tencent!Supported}
           Of(key) == {id \in ids : Tencent!RecordKey(view[id]) = key}
           Raw(key, m) == [id |-> {m[i] : i \in DOMAIN m}, name |-> key.name, type |-> key.type, ttl |-> key.ttl,
                     entries |-> [i \in DOMAIN m |-> Tencent!EntryOf(m[i], view[m[i]])],
                     ext |-> Tencent!SetExt([i \in DOMAIN m |-> view[m[i]]]),
                     fingerprint |-> None]
<1>1. PICK raw \in Tencent!Groups(view) : set = P!Listed(raw)
  BY SameListed DEF Tencent!Sets
<1>2. \A S : Tencent!Sorted(S) = P!Sorted(S)
  BY SameSorted
<1>3. PICK key \in {Tencent!RecordKey(view[id]) : id \in ids} : raw = Raw(key, P!Sorted(Of(key)))
  <2>1. Tencent!Groups(view) = {Raw(key, Tencent!Sorted(Of(key))) : key \in {Tencent!RecordKey(view[id]) : id \in ids}}
    BY DEF Tencent!Groups, Tencent!Grouped, Tencent!SetID, Tencent!ToSet
  <2> HIDE DEF Raw, Of
  <2> QED BY <2>1, <1>1, <1>2
<1> DEFINE M == Of(key)
           m == P!Sorted(M)
           es == [i \in DOMAIN m |-> Tencent!EntryOf(m[i], view[m[i]])]
<1>4. M \subseteq 1..issued /\ M # {} /\ M \subseteq DOMAIN view
  BY <1>3 DEF ViewOK
<1>5. \A id \in M : Tencent!RecordKey(view[id]) = key
  OBVIOUS
<1> HIDE DEF M
<1>6. Enumerates(m, M)
  BY <1>4, SortedEnumerates
<1> HIDE DEF m
<1>7. IsSeq(m) /\ Items(m) = M /\ Items(m) = {m[i] : i \in DOMAIN m} /\ m # <<>>
  <2>1. IsSeq(m) /\ Items(m) = M
    BY <1>4, <1>6, EnumerationIsSeq
  <2>2. m # <<>>
    BY <1>4, <2>1, EmptyIsSeq
  <2> QED BY <2>1, <2>2 DEF Items
<1>8. \A i, j \in DOMAIN m : i < j => m[i] < m[j]
  BY <1>6 DEF Enumerates
<1>9. \A i \in DOMAIN m : m[i] \in M
  BY <1>7
<1>10. raw = Raw(key, m)
  BY <1>3 DEF m, M
<1>11. raw = [id |-> Items(m), name |-> raw.name, type |-> raw.type, ttl |-> raw.ttl,
                     entries |-> es, ext |-> Tencent!SetExt([i \in DOMAIN m |-> view[m[i]]]),
                     fingerprint |-> None]
       /\ raw.name = key.name /\ raw.type = key.type /\ raw.ttl = key.ttl
  BY <1>10, <1>7
<1>19. raw = TencentRaw(view, m)
  <2>1. key = Tencent!RecordKey(view[m[1]])
    BY <1>5, <1>7, <1>9, SeqFacts
  <2> QED BY <2>1, <1>7, <1>10 DEF TencentRaw
<1> HIDE DEF es, Raw
<1>12. IsSeq(es) /\ es # <<>> /\ DOMAIN es = DOMAIN m /\ \A i \in DOMAIN m : es[i] = Tencent!EntryOf(m[i], view[m[i]])
  <2>1. DOMAIN m = 1..Len(m) /\ Len(m) \in Nat \ {0}
    BY <1>7, SeqFacts
  <2>2. es = [i \in 1..Len(m) |-> es[i]]
    BY <2>1 DEF es
  <2> QED BY <2>1, <2>2, FunctionIsSeq, SeqFacts DEF es
<1>13. /\ SetOK(set)
       /\ set.id = raw.id /\ set.name = raw.name /\ set.type = raw.type /\ set.ttl = raw.ttl
       /\ set.ext = raw.ext /\ DOMAIN set.entries = DOMAIN es
       /\ \A i \in DOMAIN es : set.entries[i] = P!NormalEntry(raw.type, es[i])
  BY <1>1, <1>11, <1>12, ListedSet
<1>14. set.id = Items(m) /\ set.ext = Tencent!SetExt([i \in DOMAIN m |-> view[m[i]]])
  BY <1>11, <1>13
<1>15. ASSUME NEW i \in DOMAIN m
       PROVE  LET r == view[m[i]]  e == set.entries[i] IN
              /\ e.id = m[i] /\ e.text.word = r.text.word /\ e.num = r.num
              /\ set.name = r.name /\ set.type = r.type
              /\ set.ttl = Tencent!RecordKey(r).ttl
              /\ e.ext = Tencent!EntryOf(m[i], r).ext
              /\ Tencent!RecordKey(r) = key
              /\ r.text.quotes \in Nat => e.text.quotes \in Nat
  <2> DEFINE r == view[m[i]]
             e == Tencent!EntryOf(m[i], r)
  <2>1. Tencent!RecordKey(r) = key /\ RecordOK("tencent", r)
    BY <1>4, <1>5, <1>9 DEF ViewOK
  <2>2. set.name = r.name /\ set.type = r.type /\ set.ttl = Tencent!RecordKey(r).ttl
    BY <2>1, <1>11, <1>13 DEF Tencent!RecordKey
  <2>3. e.id = m[i] /\ e.text.word = r.text.word /\ e.num = r.num
    BY DEF Tencent!EntryOf, Tencent!CanonicalTXT
  <2>7. r.text.quotes \in Nat => e.text.quotes \in Nat
    BY CanonicalText DEF Tencent!EntryOf
  <2>4. set.entries[i] = P!NormalEntry(set.type, e)
    BY <1>12, <1>13
  <2>5. r.type \in {"CNAME", "NS"} => r.num = None
    BY <2>1 DEF RecordOK
  <2> HIDE DEF e, r
  <2>6. /\ set.entries[i].id = m[i] /\ set.entries[i].text.word = r.text.word
        /\ set.entries[i].num = r.num /\ set.entries[i].ext = e.ext
    BY <2>2, <2>3, <2>4, <2>5, NormalEntryFacts
  <2>8. r.text.quotes \in Nat => set.entries[i].text.quotes \in Nat
    BY <2>4, <2>7, NormalQuotes
  <2> QED BY <2>1, <2>2, <2>6, <2>8 DEF e, r
<1>16. Lists(set, view, m)
  BY <1>4, <1>7, <1>8, <1>12, <1>13, <1>14, <1>15 DEF Lists
<1>17. TencentLists(set, view, m)
  BY <1>14, <1>15, <1>16 DEF TencentLists
<1>20. ListedFrom(set, view, m, TencentRaw(view, m))
  BY <1>1, <1>7, <1>14, <1>15, <1>19 DEF ListedFrom, m
<1> QED
  BY <1>13, <1>17, <1>20

CloudflareLists(set, view, m) ==
  /\ Lists(set, view, m)
  /\ set.ext = Cloudflare!SetExt([i \in DOMAIN m |-> view[m[i]]])
  /\ \A i \in DOMAIN m :
       LET r == view[m[i]] IN
       /\ set.ttl = Cloudflare!RecordKey(r).ttl
       /\ set.entries[i].ext = Cloudflare!EntryOf(m[i], r).ext
       /\ \A j \in DOMAIN m : Cloudflare!RecordKey(view[m[j]]) = Cloudflare!RecordKey(r)

CloudflareRaw(view, m) ==
  LET key == Cloudflare!RecordKey(view[m[1]])
  IN  [id |-> Items(m), name |-> key.name, type |-> key.type, ttl |-> key.ttl,
       entries |-> [i \in DOMAIN m |-> Cloudflare!EntryOf(m[i], view[m[i]])],
       ext |-> Cloudflare!SetExt([i \in DOMAIN m |-> view[m[i]]]), fingerprint |-> None]

LEMMA CloudflareSets ==
  ASSUME adapter = "cloudflare", issued \in Nat, NEW view, ViewOK(view), NEW set \in Cloudflare!Sets(view)
  PROVE  /\ SetOK(set)
         /\ \E m : CloudflareLists(set, view, m) /\ ListedFrom(set, view, m, CloudflareRaw(view, m))
<1> DEFINE ids == {id \in DOMAIN view : view[id].type \in Cloudflare!Supported}
           Of(key) == {id \in ids : Cloudflare!RecordKey(view[id]) = key}
           Raw(key, m) == [id |-> {m[i] : i \in DOMAIN m}, name |-> key.name, type |-> key.type, ttl |-> key.ttl,
                     entries |-> [i \in DOMAIN m |-> Cloudflare!EntryOf(m[i], view[m[i]])],
                     ext |-> Cloudflare!SetExt([i \in DOMAIN m |-> view[m[i]]]),
                     fingerprint |-> None]
<1>1. PICK raw \in Cloudflare!Groups(view) : set = P!Listed(raw)
  BY SameListed DEF Cloudflare!Sets
<1>2. \A S : Cloudflare!Sorted(S) = P!Sorted(S)
  BY SameSorted
<1>3. PICK key \in {Cloudflare!RecordKey(view[id]) : id \in ids} : raw = Raw(key, P!Sorted(Of(key)))
  <2>1. Cloudflare!Groups(view) = {Raw(key, Cloudflare!Sorted(Of(key))) : key \in {Cloudflare!RecordKey(view[id]) : id \in ids}}
    BY DEF Cloudflare!Groups, Cloudflare!Grouped, Cloudflare!SetID, Cloudflare!ToSet
  <2> HIDE DEF Raw, Of
  <2> QED BY <2>1, <1>1, <1>2
<1> DEFINE M == Of(key)
           m == P!Sorted(M)
           es == [i \in DOMAIN m |-> Cloudflare!EntryOf(m[i], view[m[i]])]
<1>4. M \subseteq 1..issued /\ M # {} /\ M \subseteq DOMAIN view
  BY <1>3 DEF ViewOK
<1>5. \A id \in M : Cloudflare!RecordKey(view[id]) = key
  OBVIOUS
<1> HIDE DEF M
<1>6. Enumerates(m, M)
  BY <1>4, SortedEnumerates
<1> HIDE DEF m
<1>7. IsSeq(m) /\ Items(m) = M /\ Items(m) = {m[i] : i \in DOMAIN m} /\ m # <<>>
  <2>1. IsSeq(m) /\ Items(m) = M
    BY <1>4, <1>6, EnumerationIsSeq
  <2>2. m # <<>>
    BY <1>4, <2>1, EmptyIsSeq
  <2> QED BY <2>1, <2>2 DEF Items
<1>8. \A i, j \in DOMAIN m : i < j => m[i] < m[j]
  BY <1>6 DEF Enumerates
<1>9. \A i \in DOMAIN m : m[i] \in M
  BY <1>7
<1>10. raw = Raw(key, m)
  BY <1>3 DEF m, M
<1>11. raw = [id |-> Items(m), name |-> raw.name, type |-> raw.type, ttl |-> raw.ttl,
                     entries |-> es, ext |-> Cloudflare!SetExt([i \in DOMAIN m |-> view[m[i]]]),
                     fingerprint |-> None]
       /\ raw.name = key.name /\ raw.type = key.type /\ raw.ttl = key.ttl
  BY <1>10, <1>7
<1>19. raw = CloudflareRaw(view, m)
  <2>1. key = Cloudflare!RecordKey(view[m[1]])
    BY <1>5, <1>7, <1>9, SeqFacts
  <2> QED BY <2>1, <1>7, <1>10 DEF CloudflareRaw
<1> HIDE DEF es, Raw
<1>12. IsSeq(es) /\ es # <<>> /\ DOMAIN es = DOMAIN m /\ \A i \in DOMAIN m : es[i] = Cloudflare!EntryOf(m[i], view[m[i]])
  <2>1. DOMAIN m = 1..Len(m) /\ Len(m) \in Nat \ {0}
    BY <1>7, SeqFacts
  <2>2. es = [i \in 1..Len(m) |-> es[i]]
    BY <2>1 DEF es
  <2> QED BY <2>1, <2>2, FunctionIsSeq, SeqFacts DEF es
<1>18. \A i \in DOMAIN es : es[i].ext = None
  BY <1>12 DEF Cloudflare!EntryOf
<1>13. /\ SetOK(set)
       /\ set.id = raw.id /\ set.name = raw.name /\ set.type = raw.type /\ set.ttl = raw.ttl
       /\ set.ext = raw.ext /\ DOMAIN set.entries = DOMAIN es
       /\ \A i \in DOMAIN es : set.entries[i] = P!NormalEntry(raw.type, es[i])
  BY <1>1, <1>11, <1>12, <1>18, ListedSet
<1>14. set.id = Items(m) /\ set.ext = Cloudflare!SetExt([i \in DOMAIN m |-> view[m[i]]])
  BY <1>11, <1>13
<1>15. ASSUME NEW i \in DOMAIN m
       PROVE  LET r == view[m[i]]  e == set.entries[i] IN
              /\ e.id = m[i] /\ e.text.word = r.text.word /\ e.num = r.num
              /\ set.name = r.name /\ set.type = r.type
              /\ set.ttl = Cloudflare!RecordKey(r).ttl
              /\ e.ext = Cloudflare!EntryOf(m[i], r).ext
              /\ Cloudflare!RecordKey(r) = key
              /\ r.text.quotes \in Nat => e.text.quotes \in Nat
  <2> DEFINE r == view[m[i]]
             e == Cloudflare!EntryOf(m[i], r)
  <2>1. Cloudflare!RecordKey(r) = key /\ RecordOK("cloudflare", r)
    BY <1>4, <1>5, <1>9 DEF ViewOK
  <2>2. set.name = r.name /\ set.type = r.type /\ set.ttl = Cloudflare!RecordKey(r).ttl
    BY <2>1, <1>11, <1>13 DEF Cloudflare!RecordKey
  <2>3. e.id = m[i] /\ e.text.word = r.text.word /\ e.num = r.num
    BY DEF Cloudflare!EntryOf, Cloudflare!CanonicalTXT
  <2>7. r.text.quotes \in Nat => e.text.quotes \in Nat
    BY CanonicalText DEF Cloudflare!EntryOf
  <2>4. set.entries[i] = P!NormalEntry(set.type, e)
    BY <1>12, <1>13
  <2>5. r.type \in {"CNAME", "NS"} => r.num = None
    BY <2>1 DEF RecordOK
  <2> HIDE DEF e, r
  <2>6. /\ set.entries[i].id = m[i] /\ set.entries[i].text.word = r.text.word
        /\ set.entries[i].num = r.num /\ set.entries[i].ext = e.ext
    BY <2>2, <2>3, <2>4, <2>5, NormalEntryFacts
  <2>8. r.text.quotes \in Nat => set.entries[i].text.quotes \in Nat
    BY <2>4, <2>7, NormalQuotes
  <2> QED BY <2>1, <2>2, <2>6, <2>8 DEF e, r
<1>16. Lists(set, view, m)
  BY <1>4, <1>7, <1>8, <1>12, <1>13, <1>14, <1>15 DEF Lists
<1>17. CloudflareLists(set, view, m)
  BY <1>14, <1>15, <1>16 DEF CloudflareLists
<1>20. ListedFrom(set, view, m, CloudflareRaw(view, m))
  BY <1>1, <1>7, <1>14, <1>15, <1>19 DEF ListedFrom, m
<1> QED
  BY <1>13, <1>17, <1>20

\* A record set of Huawei Cloud, listed.
HuaweiLists(set, view, id) ==
  LET r == view[id] IN
  /\ id \in DOMAIN view /\ set.id = {id}
  /\ set.name = r.name /\ set.type = r.type /\ set.ttl = r.ttl
  /\ set.ext = Huawei!RawSet(id, r).ext
  /\ DOMAIN set.entries = DOMAIN r.values
  /\ \A i \in DOMAIN r.values : set.entries[i] = P!NormalEntry(r.type, Huawei!EntriesOf(r)[i])

LEMMA HuaweiEntries ==
  ASSUME NEW r, RecordOK("huawei", r)
  PROVE  /\ IsSeq(r.values) /\ IsSeq(Huawei!EntriesOf(r)) /\ DOMAIN Huawei!EntriesOf(r) = DOMAIN r.values
         /\ \A i \in DOMAIN r.values :
              LET e == Huawei!EntriesOf(r)[i] IN
              /\ e = [id |-> None, text |-> r.values[i].text, num |-> r.values[i].num, ext |-> e.ext]
              /\ e.ext = IF r.line = "" /\ r.weight = None THEN None
                         ELSE [line |-> r.line, weight |-> r.weight]
              /\ e.ext \in Routing \cup {None}
<1> DEFINE es == Huawei!EntriesOf(r)
           ext == IF r.line = "" /\ r.weight = None THEN None
                  ELSE [line |-> r.line, weight |-> r.weight]
<1>1. IsSeq(r.values) /\ r.line \in Lines /\ r.weight \in Weights
  BY DEF RecordOK, ValuesOK, IsSeq, Items
<1>2. ext \in Routing \cup {None}
  BY <1>1 DEF Routing
<1>3. es = [i \in DOMAIN r.values |-> [id |-> None, text |-> r.values[i].text,
                                       num |-> r.values[i].num, ext |-> ext]]
  BY DEF Huawei!EntriesOf
<1> HIDE DEF es, ext
<1>4. DOMAIN r.values = 1..Len(r.values) /\ Len(r.values) \in Nat
  BY <1>1, SeqFacts
<1>5. DOMAIN es = DOMAIN r.values /\ es = [i \in 1..Len(r.values) |-> es[i]]
  BY <1>3, <1>4
<1>6. IsSeq(es)
  BY <1>4, <1>5, FunctionIsSeq
<1>7. \A i \in DOMAIN r.values :
        es[i] = [id |-> None, text |-> r.values[i].text, num |-> r.values[i].num, ext |-> ext]
  BY <1>3
<1>8. ASSUME NEW i \in DOMAIN r.values
      PROVE  LET e == es[i] IN
             /\ e = [id |-> None, text |-> r.values[i].text, num |-> r.values[i].num, ext |-> e.ext]
             /\ e.ext = ext
  <2> DEFINE e == es[i]
             v == r.values[i]
  <2>1. e = [id |-> None, text |-> v.text, num |-> v.num, ext |-> ext]
    BY <1>7
  <2> HIDE DEF e, v
  <2>2. e = [id |-> None, text |-> v.text, num |-> v.num, ext |-> e.ext] /\ e.ext = ext
    BY <2>1
  <2> QED BY <2>2 DEF e, v
<1> QED
  BY <1>1, <1>2, <1>5, <1>6, <1>8, Zenon DEF es, ext

LEMMA HuaweiSets ==
  ASSUME adapter = "huawei", NEW view, ViewOK(view), Huawei!Readable(view),
         NEW set \in Huawei!Sets(view)
  PROVE  /\ SetOK(set)
         /\ \E id : HuaweiLists(set, view, id)
<1>1. PICK id \in DOMAIN view : set = P!Listed(Huawei!RawSet(id, view[id]))
  BY SameListed DEF Huawei!Sets
<1> DEFINE r == view[id]
           es == Huawei!EntriesOf(r)
           raw == Huawei!RawSet(id, r)
<1>2. RecordOK("huawei", r)
  BY <1>1 DEF ViewOK
<1>3. raw = [id |-> {id}, name |-> r.name, type |-> r.type, ttl |-> r.ttl, entries |-> es,
             ext |-> raw.ext, fingerprint |-> None]
  BY DEF Huawei!RawSet
<1>4. raw.entries # <<>>
  BY <1>1 DEF Huawei!Readable, Huawei!Normalizable
<1>5. set = P!Listed(raw)
  BY <1>1
<1> HIDE DEF r, es, raw
<1>6. /\ raw = [id |-> raw.id, name |-> raw.name, type |-> raw.type, ttl |-> raw.ttl,
               entries |-> es, ext |-> raw.ext, fingerprint |-> None]
      /\ raw.id = {id} /\ raw.name = r.name /\ raw.type = r.type /\ raw.ttl = r.ttl /\ raw.entries = es
  BY <1>3
<1>7. /\ IsSeq(es) /\ es # <<>> /\ DOMAIN es = DOMAIN r.values
      /\ \A i \in DOMAIN es : es[i].ext \in Routing \cup {None}
  BY <1>2, <1>4, <1>6, HuaweiEntries DEF es
<1>8. /\ SetOK(set)
      /\ set.id = raw.id /\ set.name = raw.name /\ set.type = raw.type /\ set.ttl = raw.ttl
      /\ set.ext = raw.ext /\ DOMAIN set.entries = DOMAIN es
      /\ \A i \in DOMAIN es : set.entries[i] = P!NormalEntry(raw.type, es[i])
  BY <1>5, <1>6, <1>7, ListedSet
<1>9. HuaweiLists(set, view, id)
  BY <1>1, <1>6, <1>7, <1>8 DEF HuaweiLists, r, es, raw
<1> QED
  BY <1>8, <1>9

\* Whatever the adapter, what a readable zone lists is a set a client can work on.
LEMMA SetsOK ==
  ASSUME adapter \in Adapters, issued \in Nat, NEW view, ViewOK(view), Readable(view),
         NEW set \in Sets(view)
  PROVE  SetOK(set)
<1>1. CASE adapter = "aliyun"
  BY <1>1, AliyunSets DEF Sets
<1>2. CASE adapter = "tencent"
  BY <1>2, TencentSets DEF Sets
<1>3. CASE adapter = "cloudflare"
  BY <1>3, CloudflareSets DEF Sets
<1>4. CASE adapter = "huawei"
  BY <1>4, HuaweiSets DEF Sets, Readable
<1> QED
  BY <1>1, <1>2, <1>3, <1>4, AdaptersAssumption
---------------------------------------------------------------------------
(* The wanted entries, with the IDs the provider gives them. *)

LEMMA SameRequest ==
  ASSUME NEW x, NEW set
  PROVE  /\ Aliyun!Normalized(x) = P!Normalized(x) /\ Tencent!Normalized(x) = P!Normalized(x)
         /\ Cloudflare!Normalized(x) = P!Normalized(x) /\ Huawei!Normalized(x) = P!Normalized(x)
         /\ Aliyun!Repeats(x) = P!Repeats(x) /\ Tencent!Repeats(x) = P!Repeats(x)
         /\ Cloudflare!Repeats(x) = P!Repeats(x)
         /\ Aliyun!Strays(x, set) = P!Strays(x, set) /\ Tencent!Strays(x, set) = P!Strays(x, set)
         /\ Cloudflare!Strays(x, set) = P!Strays(x, set)
         /\ Aliyun!EntryIDs(x) = P!EntryIDs(x) /\ Tencent!EntryIDs(x) = P!EntryIDs(x)
         /\ Cloudflare!EntryIDs(x) = P!EntryIDs(x)
         /\ Tencent!WantedIDs(x) = P!WantedIDs(x)
<1>1. /\ Aliyun!Normalized(x) = P!Normalized(x) /\ Tencent!Normalized(x) = P!Normalized(x)
      /\ Cloudflare!Normalized(x) = P!Normalized(x) /\ Huawei!Normalized(x) = P!Normalized(x)
  BY Zenon DEF P!Normalized, P!NormalEntries, P!NormalEntry, P!CanonicalTXT,
         Aliyun!Normalized, Aliyun!NormalEntries, Aliyun!NormalEntry, Aliyun!CanonicalTXT,
         Tencent!Normalized, Tencent!NormalEntries, Tencent!NormalEntry, Tencent!CanonicalTXT,
         Cloudflare!Normalized, Cloudflare!NormalEntries, Cloudflare!NormalEntry, Cloudflare!CanonicalTXT,
         Huawei!Normalized, Huawei!NormalEntries, Huawei!NormalEntry, Huawei!CanonicalTXT
<1>2. /\ Aliyun!Repeats(x) = P!Repeats(x) /\ Tencent!Repeats(x) = P!Repeats(x)
      /\ Cloudflare!Repeats(x) = P!Repeats(x)
  BY Zenon DEF P!Repeats, Aliyun!Repeats, Tencent!Repeats, Cloudflare!Repeats
<1>3. /\ Aliyun!EntryIDs(x) = P!EntryIDs(x) /\ Tencent!EntryIDs(x) = P!EntryIDs(x)
      /\ Cloudflare!EntryIDs(x) = P!EntryIDs(x)
      /\ Aliyun!Strays(x, set) = P!Strays(x, set) /\ Tencent!Strays(x, set) = P!Strays(x, set)
      /\ Cloudflare!Strays(x, set) = P!Strays(x, set)
      /\ Tencent!WantedIDs(x) = P!WantedIDs(x)
  BY Zenon DEF P!Strays, P!WantedIDs, P!EntryIDs, Aliyun!Strays, Aliyun!WantedIDs, Aliyun!EntryIDs,
         Tencent!Strays, Tencent!WantedIDs, Tencent!EntryIDs,
         Cloudflare!Strays, Cloudflare!WantedIDs, Cloudflare!EntryIDs
<1> QED
  BY <1>1, <1>2, <1>3

LEMMA SameIDs ==
  ASSUME NEW entries, NEW n, NEW set, NEW id
  PROVE  /\ Aliyun!WithIDs(entries, n) = P!WithIDs(entries, n)
         /\ Tencent!WithIDs(entries, n) = P!WithIDs(entries, n)
         /\ Cloudflare!WithIDs(entries, n) = P!WithIDs(entries, n)
         /\ Aliyun!EntryWith(set, id) = P!EntryWith(set, id)
         /\ Tencent!EntryWith(set, id) = P!EntryWith(set, id)
         /\ Cloudflare!EntryWith(set, id) = P!EntryWith(set, id)
  BY Zenon DEF P!WithIDs, Aliyun!WithIDs, Tencent!WithIDs, Cloudflare!WithIDs, P!EntryWith,
         Aliyun!EntryWith, Tencent!EntryWith, Cloudflare!EntryWith, P!Cardinality, Aliyun!Cardinality,
         Tencent!Cardinality, Cloudflare!Cardinality

\* The normal form of an input, without the fields it has not.
LEMMA NormalizedInput ==
  ASSUME NEW x, InputOK(x), NEW y, y = P!Normalized(x)
  PROVE  /\ y = [name |-> x.name, type |-> x.type, ttl |-> x.ttl, entries |-> y.entries, ext |-> x.ext]
         /\ EntriesOK(x.type, y.entries) /\ DOMAIN y.entries = DOMAIN x.entries
         /\ Len(y.entries) = Len(x.entries)
         /\ \A i \in DOMAIN x.entries :
              LET e == x.entries[i]  f == y.entries[i] IN
              f.id = e.id /\ f.text.word = e.text.word /\ f.num = e.num /\ f.ext = e.ext
<1> DEFINE es == x.entries
           n == [i \in DOMAIN es |-> P!NormalEntry(x.type, es[i])]
<1>1. EntriesOK(x.type, es)
  BY DEF InputOK
<1>2. DOMAIN es = 1..Len(es) /\ Len(es) \in Nat \ {0}
  BY <1>1, SeqFacts DEF EntriesOK
<1>3. y = [name |-> x.name, type |-> x.type, ttl |-> x.ttl, entries |-> n, ext |-> x.ext]
  <2>1. P!NormalEntries(x) = n
    BY DEF P!NormalEntries
  <2> HIDE DEF n
  <2> QED BY <2>1 DEF P!Normalized, InputOK
<1>4. n = [i \in 1..Len(es) |-> n[i]] /\ \A i \in DOMAIN es : n[i] = P!NormalEntry(x.type, es[i])
  BY <1>2
<1> HIDE DEF n
<1>5. IsSeq(n) /\ DOMAIN n = DOMAIN es /\ n # <<>> /\ Len(n) = Len(es)
  BY <1>2, <1>4, FunctionIsSeq, SeqFacts
<1>6. ASSUME NEW i \in DOMAIN es
      PROVE  /\ n[i].id = es[i].id /\ n[i].text.word = es[i].text.word /\ n[i].num = es[i].num
             /\ n[i].ext = es[i].ext /\ EntryOK(n[i])
             /\ x.type \in {"CNAME", "NS"} => n[i].num = None
  <2> DEFINE e == es[i]
  <2>1. EntryOK(e) /\ (x.type \in {"CNAME", "NS"} => e.num = None)
    BY <1>1 DEF EntriesOK
  <2>2. n[i] = P!NormalEntry(x.type, e)
    BY <1>4
  <2> HIDE DEF e
  <2>3. LET m == P!NormalEntry(x.type, e) IN
         /\ m = [id |-> m.id, text |-> m.text, num |-> m.num, ext |-> m.ext]
         /\ m.id = e.id /\ m.ext = e.ext /\ m.text.word = e.text.word
         /\ m.num = IF x.type \in {"CNAME", "NS"} THEN None ELSE e.num
    BY NormalEntryFacts
  <2>4. /\ n[i].id = e.id /\ n[i].text.word = e.text.word /\ n[i].num = e.num
        /\ n[i].ext = e.ext /\ EntryOK(n[i])
    BY <2>1, <2>2, <2>3 DEF EntryOK
  <2> QED BY <2>1, <2>4 DEF e
<1>7. EntriesOK(x.type, n)
  BY <1>5, <1>6 DEF EntriesOK
<1> QED
  BY <1>3, <1>5, <1>6, <1>7

\* How many of the first i entries are new.
LEMMA CountNew ==
  ASSUME NEW es, NEW n \in Nat, NEW i \in 1..n
  PROVE  LET c(k) == Cardinality({j \in 1..k : es[j].id = None}) IN
         /\ c(i) \in Nat /\ c(i) <= i
         /\ es[i].id = None => c(i) >= 1
         /\ \A k \in 1..n : (i < k /\ es[k].id = None) => c(i) < c(k)
<1> DEFINE S(k) == {j \in 1..k : es[j].id = None}
<1>1. ASSUME NEW k \in 1..n PROVE IsFiniteSet(S(k)) /\ Cardinality(S(k)) \in Nat
  <2>1. IsFiniteSet(1..k) /\ S(k) \in SUBSET (1..k)
    BY FS_Interval
  <2>2. IsFiniteSet(S(k))
    BY <2>1, FS_Subset
  <2> QED BY <2>2, FS_CardinalityType
<1>2. Cardinality(S(i)) <= i
  <2>1. IsFiniteSet(1..i) /\ Cardinality(1..i) = i
    BY FS_Interval
  <2>2. S(i) \in SUBSET (1..i)
    OBVIOUS
  <2> QED BY <2>1, <2>2, FS_Subset
<1>3. ASSUME NEW k \in 1..n, i < k, es[k].id = None PROVE Cardinality(S(i)) < Cardinality(S(k))
  <2>1. S(i) \in SUBSET S(k) /\ k \in S(k) /\ k \notin S(i)
    BY <1>3
  <2> HIDE DEF S
  <2>2. Cardinality(S(i)) <= Cardinality(S(k)) /\ (Cardinality(S(i)) = Cardinality(S(k)) => S(i) = S(k))
    BY <1>1, <2>1, FS_Subset
  <2> QED BY <1>1, <2>1, <2>2
<1>4. ASSUME es[i].id = None PROVE Cardinality(S(i)) >= 1
  <2>1. i \in S(i)
    BY <1>4
  <2> HIDE DEF S
  <2> QED BY <2>1, <1>1, FS_EmptySet
<1> HIDE DEF S
<1>5. /\ Cardinality(S(i)) \in Nat /\ Cardinality(S(i)) <= i
      /\ es[i].id = None => Cardinality(S(i)) >= 1
      /\ \A k \in 1..n : (i < k /\ es[k].id = None) => Cardinality(S(i)) < Cardinality(S(k))
  BY <1>1, <1>2, <1>3, <1>4
<1> QED
  BY <1>5 DEF S

\* The IDs of an input's entries: of the set, and no two the same.
IDsOK(es, ids) ==
  /\ \A i \in DOMAIN es : es[i].id \in ids \cup {None}
  /\ \A i, j \in DOMAIN es : i < j => es[i].id # es[j].id \/ es[i].id = None

\* The same entries, each with an ID of its own.
Identified(es, new, ids) ==
  /\ DOMAIN new = DOMAIN es /\ Len(new) = Len(es)
  /\ \A i \in DOMAIN es :
       /\ new[i].text = es[i].text /\ new[i].num = es[i].num /\ new[i].ext = es[i].ext
       /\ es[i].id # None => new[i].id = es[i].id /\ new[i].id \in ids
       /\ es[i].id = None => new[i].id \in issued + 1..issued + Len(es)
  /\ \A i, j \in DOMAIN es : new[i].id = new[j].id => i = j

LEMMA WithIDsOK ==
  ASSUME issued \in Nat, NEW type, NEW es, EntriesOK(type, es), NEW ids, ids \subseteq 1..issued,
         IDsOK(es, ids)
  PROVE  EntriesOK(type, P!WithIDs(es, issued)) /\ Identified(es, P!WithIDs(es, issued), ids)
<1> DEFINE new == P!WithIDs(es, issued)
<1> DEFINE n == Len(es)
           c(k) == Cardinality({j \in 1..k : es[j].id = None})
<1>1. DOMAIN es = 1..n /\ n \in Nat \ {0} /\ IsSeq(es)
  BY SeqFacts DEF EntriesOK
<1>2. \A i \in 1..n : EntryOK(es[i]) /\ (type \in {"CNAME", "NS"} => es[i].num = None)
  BY <1>1 DEF EntriesOK
<1>3. new = [i \in 1..n |-> IF es[i].id # None THEN es[i] ELSE [es[i] EXCEPT !.id = issued + c(i)]]
  BY <1>1, SameCardinality, Zenon DEF P!WithIDs
<1> HIDE DEF new
<1>4. ASSUME NEW i \in 1..n
      PROVE  /\ c(i) \in Nat /\ c(i) <= n
             /\ es[i].id = None => c(i) >= 1
             /\ \A k \in 1..n : (i < k /\ es[k].id = None) => c(i) < c(k)
  <2>1. n \in Nat /\ i <= n
    BY <1>1
  <2> HIDE DEF n
  <2>2. LET d(k) == Cardinality({j \in 1..k : es[j].id = None}) IN
         /\ d(i) \in Nat /\ d(i) <= i
         /\ es[i].id = None => d(i) >= 1
         /\ \A k \in 1..n : (i < k /\ es[k].id = None) => d(i) < d(k)
    BY <2>1, CountNew
  <2>3. /\ c(i) \in Nat /\ c(i) <= i
        /\ es[i].id = None => c(i) >= 1
        /\ \A k \in 1..n : (i < k /\ es[k].id = None) => c(i) < c(k)
    BY <2>2
  <2> HIDE DEF c
  <2> QED BY <2>1, <2>3
<1> HIDE DEF c, n
<1>5. ASSUME NEW i \in 1..n
      PROVE  /\ new[i].text = es[i].text /\ new[i].num = es[i].num /\ new[i].ext = es[i].ext
             /\ new[i].id = IF es[i].id # None THEN es[i].id ELSE issued + c(i)
             /\ EntryOK(new[i])
  <2> DEFINE e == es[i]
  <2>1. new[i] = IF e.id # None THEN e ELSE [e EXCEPT !.id = issued + c(i)]
    BY <1>3
  <2>2. EntryOK(e)
    BY <1>2
  <2>3. /\ [e EXCEPT !.id = issued + c(i)] = [id |-> issued + c(i), text |-> e.text, num |-> e.num, ext |-> e.ext]
        /\ EntryOK([e EXCEPT !.id = issued + c(i)])
    BY <2>2, EntryWritten
  <2> HIDE DEF e
  <2>4. /\ new[i].text = e.text /\ new[i].num = e.num /\ new[i].ext = e.ext
        /\ new[i].id = IF e.id # None THEN e.id ELSE issued + c(i)
        /\ EntryOK(new[i])
    <3>1. CASE e.id # None
      BY <2>1, <2>2, <3>1
    <3>2. CASE e.id = None
      BY <2>1, <2>3, <3>2
    <3> QED BY <3>1, <3>2
  <2> QED BY <2>4 DEF e
<1>6. DOMAIN new = 1..n /\ new = [i \in 1..n |-> new[i]]
  BY <1>3
<1>7. IsSeq(new) /\ Len(new) = n /\ new # <<>>
  BY <1>1, <1>6, FunctionIsSeq, SeqFacts
<1>8. EntriesOK(type, new)
  BY <1>2, <1>5, <1>6, <1>7 DEF EntriesOK
<1>9. None \notin Nat
  BY NoneAssumption
<1>10. \A i \in 1..n : es[i].id # None => es[i].id \in ids /\ es[i].id \in 1..issued
  BY <1>1 DEF IDsOK
<1>11. \A i \in 1..n : es[i].id = None => issued + c(i) \in issued + 1..issued + n
  <2>1. n \in Nat
    BY <1>1
  <2> QED BY <1>4, <2>1
<1>12. ASSUME NEW i \in 1..n, NEW j \in 1..n, i < j, new[i].id = new[j].id PROVE FALSE
  <2>1. CASE es[j].id = None
    <3>1. issued + c(j) > issued + c(i) /\ issued + c(j) > issued
      BY <2>1, <1>4, <1>12
    <3>2. new[j].id = issued + c(j)
      BY <2>1, <1>5
    <3>3. CASE es[i].id = None
      <4>1. new[i].id = issued + c(i) /\ c(i) \in Nat /\ c(j) \in Nat
        BY <3>3, <1>4, <1>5
      <4>2. issued + c(i) = issued + c(j)
        BY <4>1, <3>2, <1>12
      <4> QED BY <4>1, <4>2, <3>1
    <3>4. CASE es[i].id # None
      <4>1. new[i].id \in 1..issued
        BY <3>4, <1>5, <1>10
      <4> QED BY <4>1, <3>1, <3>2, <1>12
    <3> QED BY <3>3, <3>4
  <2>2. CASE es[j].id # None
    <3>1. new[j].id \in 1..issued
      BY <2>2, <1>5, <1>10
    <3>2. es[i].id # None
      <4>1. es[i].id = None => new[i].id = issued + c(i) /\ c(i) >= 1 /\ c(i) \in Nat
        BY <1>4, <1>5
      <4> QED BY <4>1, <3>1, <1>12
    <3> QED BY <3>2, <2>2, <1>1, <1>5, <1>12 DEF IDsOK
  <2> QED BY <2>1, <2>2
<1>13. \A i, j \in 1..n : new[i].id = new[j].id => i = j
  BY <1>1, <1>12
<1> QED
  BY <1>1, <1>5, <1>6, <1>7, <1>8, <1>10, <1>11, <1>13 DEF n, new, Identified

LEMMA InputIDs ==
  ASSUME NEW x, InputOK(x), NEW set
  PROVE  /\ ~ P!Repeats(x) /\ P!Strays(x, set) = {} => IDsOK(x.entries, P!EntryIDs(set))
         /\ (\A i \in DOMAIN x.entries : x.entries[i].id = None) => IDsOK(x.entries, {})
<1>1. DOMAIN x.entries = 1..Len(x.entries) /\ Len(x.entries) \in Nat
  BY SeqFacts DEF InputOK, EntriesOK
<1>2. ASSUME ~ P!Repeats(x), P!Strays(x, set) = {} PROVE IDsOK(x.entries, P!EntryIDs(set))
  <2>1. \A i \in DOMAIN x.entries : x.entries[i].id # None => x.entries[i].id \in P!EntryIDs(set)
    BY <1>2 DEF P!Strays, P!WantedIDs
  <2>2. \A i, j \in DOMAIN x.entries : i < j => x.entries[i].id # x.entries[j].id \/ x.entries[i].id = None
    BY <1>2 DEF P!Repeats
  <2> QED BY <2>1, <2>2 DEF IDsOK
<1>3. ASSUME \A i \in DOMAIN x.entries : x.entries[i].id = None PROVE IDsOK(x.entries, {})
  BY <1>3 DEF IDsOK
<1> QED
  BY <1>2, <1>3

\* The entries of a request: normalised, and each with an ID of its own.
Wanted(x, y, es, ids) ==
  /\ y = [name |-> x.name, type |-> x.type, ttl |-> x.ttl, entries |-> y.entries, ext |-> x.ext]
  /\ EntriesOK(x.type, y.entries) /\ EntriesOK(x.type, es)
  /\ DOMAIN y.entries = DOMAIN x.entries /\ DOMAIN es = DOMAIN x.entries
  /\ Len(es) = Len(x.entries)
  /\ \A i \in DOMAIN x.entries :
       LET e == x.entries[i]  f == y.entries[i]  g == es[i] IN
       /\ f.text.word = e.text.word /\ f.num = e.num /\ f.ext = e.ext
       /\ g.text = f.text /\ g.num = e.num /\ g.ext = e.ext
       /\ e.id # None => g.id = e.id /\ e.id \in ids
       /\ e.id = None => g.id \in issued + 1..issued + Len(x.entries)
  /\ \A i, j \in DOMAIN x.entries : es[i].id = es[j].id => i = j

\* The last ID given out when all the entries es are added.
LastID(es) == issued + Len(es)

LEMMA WantedOK ==
  ASSUME issued \in Nat, NEW x, InputOK(x), NEW ids, ids \subseteq 1..issued, IDsOK(x.entries, ids)
  PROVE  Wanted(x, P!Normalized(x), P!WithIDs(P!Normalized(x).entries, issued), ids)
<1> DEFINE y == P!Normalized(x)
           es == P!WithIDs(y.entries, issued)
<1>1. /\ y = [name |-> x.name, type |-> x.type, ttl |-> x.ttl, entries |-> y.entries, ext |-> x.ext]
      /\ EntriesOK(x.type, y.entries) /\ DOMAIN y.entries = DOMAIN x.entries
      /\ Len(y.entries) = Len(x.entries)
      /\ \A i \in DOMAIN x.entries :
              LET e == x.entries[i]  f == y.entries[i] IN
              f.id = e.id /\ f.text.word = e.text.word /\ f.num = e.num /\ f.ext = e.ext
  BY NormalizedInput
<1> HIDE DEF y
<1>2. IDsOK(y.entries, ids)
  BY <1>1 DEF IDsOK
<1> DEFINE ys == y.entries
           type == x.type
<1>3. EntriesOK(type, ys) /\ IDsOK(ys, ids) /\ es = P!WithIDs(ys, issued)
  BY <1>1, <1>2
<1> HIDE DEF es, ys, type
<1>5. EntriesOK(type, es) /\ Identified(ys, es, ids)
  BY <1>3, WithIDsOK
<1>6. Wanted(x, y, es, ids)
  BY <1>1, <1>5 DEF Wanted, Identified, ys, type
<1> QED
  BY <1>6 DEF y, es, ys

---------------------------------------------------------------------------
(* The calls for each of the entries, put together. *)

LEMMA SameFlatten ==
  ASSUME NEW ss
  PROVE  /\ Aliyun!FlattenSeq(ss) = Flattened(ss) /\ Tencent!FlattenSeq(ss) = Flattened(ss)
         /\ Cloudflare!FlattenSeq(ss) = Flattened(ss)
  BY DEF Flattened, Aliyun!FlattenSeq, Tencent!FlattenSeq, Cloudflare!FlattenSeq

LEMMA EachIsSeq ==
  ASSUME NEW es, IsSeq(es), NEW ss, ss = [i \in DOMAIN es |-> ss[i]],
         \A i \in DOMAIN es : IsSeq(ss[i])
  PROVE  /\ IsSeq(Flattened(ss))
         /\ \A c : c \in Items(Flattened(ss)) <=> \E i \in DOMAIN es : c \in Items(ss[i])
<1> DEFINE r == Flattened(ss)
<1>1. DOMAIN es = 1..Len(es) /\ Len(es) \in Nat
  BY SeqFacts
<1>2. IsSeq(ss) /\ DOMAIN ss = DOMAIN es
  BY <1>1, FunctionIsSeq
<1> HIDE DEF r
<1>3. IsSeq(r) /\ Items(r) = UNION {Items(ss[k]) : k \in DOMAIN ss}
  BY <1>2, FlattenedIsSeq DEF r
<1> QED
  BY <1>2, <1>3 DEF r
---------------------------------------------------------------------------
(* Calls. *)

\* What decides what a single record serves.
Serving ==
  IF adapter = "cloudflare"
  THEN {"name", "type", "ttl", "proxied", "comment", "tags", "text", "num"}
  ELSE {"name", "type", "ttl", "line", "text", "num"}

\* A call is one that the provider can carry out: it keeps the records typed.
CallOK(c, last) ==
  /\ c = [op |-> c.op, id |-> c.id, with |-> c.with]
  /\ c.op \in {"add", "set", "delete", "balance"}
  /\ c.op = "add" => c.id \in 1..last /\ RecordOK(adapter, c.with)
  /\ c.op = "set" =>
       IF adapter = "huawei"
       THEN /\ "line" \notin DOMAIN c.with
            /\ "values" \in DOMAIN c.with => ValuesOK(c.with.values)
            /\ "weight" \in DOMAIN c.with => c.with.weight \in Weights
            /\ "phase" \in DOMAIN c.with => c.with.phase \in Phases
       ELSE /\ "type" \in DOMAIN c.with <=> "num" \in DOMAIN c.with
            /\ ("type" \in DOMAIN c.with /\ c.with.type \in {"CNAME", "NS"}) => c.with.num = None
  /\ c.op = "balance" =>
       adapter = "aliyun" /\ DOMAIN c.with = {"name", "type", "line", "weighted"}

\* The call leaves alone what records serve.
Quiet(c) == c.op = "balance" \/ (c.op = "set" /\ DOMAIN c.with \cap Serving = {})

\* The call makes a record serve the entry e under the key k.
Target(k, e) == [key |-> k, values |-> {<<e.text.word, e.num>>}]
WritesTo(c, k, e) ==
  c.op \in {"add", "set"} /\ c.id = e.id /\ Serving \subseteq DOMAIN c.with /\ Serves(c.with) = Target(k, e)

LEMMA SingleWords ==
  ASSUME NEW r
  PROVE  Words(<<r>>) = {<<r.text.word, r.num>>}
<1>1. DOMAIN <<r>> = {1} /\ <<r>>[1] = r
  OBVIOUS
<1> DEFINE s == <<r>>
<1> HIDE DEF s
<1>2. Words(s) = {<<s[i].text.word, s[i].num>> : i \in DOMAIN s}
  BY DEF Words
<1>3. DOMAIN s = {1} /\ s[1] = r
  BY <1>1 DEF s
<1> QED
  BY <1>2, <1>3 DEF s

LEMMA AliyunServes ==
  ASSUME adapter = "aliyun", NEW r
  PROVE  Serves(r) = Target([name |-> r.name, type |-> r.type, ttl |-> r.ttl, line |-> Aliyun!LineOf(r),
                             weighted |-> FALSE], r)
<1>1. Serves(r) = [key |-> [Aliyun!RecordKey(r) EXCEPT !.weighted = FALSE], values |-> Words(<<r>>)]
  BY DEF Serves
<1> QED
  <2> DEFINE line == Aliyun!LineOf(r)
             k == Aliyun!RecordKey(r)
  <2>1. k = [name |-> r.name, type |-> r.type, ttl |-> r.ttl, line |-> line, weighted |-> r.weighted]
    BY DEF Aliyun!RecordKey
  <2> HIDE DEF k, line
  <2>2. \A v : [k EXCEPT !.weighted = v]
          = [name |-> r.name, type |-> r.type, ttl |-> r.ttl, line |-> line, weighted |-> v]
    BY <2>1
  <2>3. [k EXCEPT !.weighted = FALSE]
          = [name |-> r.name, type |-> r.type, ttl |-> r.ttl, line |-> line, weighted |-> FALSE]
    BY <2>2, Zenon
  <2> QED BY <2>3, <1>1, SingleWords DEF Target, k, line

LEMMA TencentServes ==
  ASSUME adapter = "tencent", NEW r
  PROVE  Serves(r) = Target([name |-> r.name, type |-> r.type, ttl |-> r.ttl, line |-> r.line], r)
<1>1. Serves(r) = [key |-> Tencent!RecordKey(r), values |-> Words(<<r>>)]
  BY DEF Serves
<1> QED
  BY <1>1, SingleWords DEF Tencent!RecordKey, Target

LEMMA CloudflareServes ==
  ASSUME adapter = "cloudflare", NEW r
  PROVE  Serves(r) = Target([name |-> r.name, type |-> r.type, ttl |-> IF r.ttl = 1 THEN Cloudflare!AutomaticTTL ELSE r.ttl,
                             proxied |-> r.proxied, proxiable |-> FALSE, automatic |-> r.ttl = 1,
                             comment |-> r.comment, tags |-> r.tags], r)
<1>1. Serves(r) = [key |-> [Cloudflare!RecordKey(r) EXCEPT !.proxiable = FALSE], values |-> Words(<<r>>)]
  BY DEF Serves
<1> QED
  <2> DEFINE ttl == IF r.ttl = 1 THEN Cloudflare!AutomaticTTL ELSE r.ttl
             automatic == r.ttl = 1
             k == Cloudflare!RecordKey(r)
  <2>1. k = [name |-> r.name, type |-> r.type, ttl |-> ttl, proxied |-> r.proxied,
             proxiable |-> r.proxiable, automatic |-> automatic, comment |-> r.comment, tags |-> r.tags]
    BY DEF Cloudflare!RecordKey
  <2> HIDE DEF k, ttl, automatic
  <2>2. \A v : [k EXCEPT !.proxiable = v]
          = [name |-> r.name, type |-> r.type, ttl |-> ttl, proxied |-> r.proxied,
             proxiable |-> v, automatic |-> automatic, comment |-> r.comment, tags |-> r.tags]
    BY <2>1
  <2>3. [k EXCEPT !.proxiable = FALSE]
          = [name |-> r.name, type |-> r.type, ttl |-> ttl, proxied |-> r.proxied,
             proxiable |-> FALSE, automatic |-> automatic, comment |-> r.comment, tags |-> r.tags]
    BY <2>2, Zenon
  <2> QED BY <2>3, <1>1, SingleWords DEF Target, k, ttl, automatic

\* Calls for the entry e, which write it under the key k or are quiet.
CallsFor(s, k, e, last) ==
  IsSeq(s) /\ \A c \in Items(s) : CallOK(c, last) /\ (Quiet(c) \/ WritesTo(c, k, e))

LEMMA CallsForParts ==
  ASSUME NEW k, NEW e, NEW last
  PROVE  /\ CallsFor(<<>>, k, e, last)
         /\ \A c : CallOK(c, last) /\ (Quiet(c) \/ WritesTo(c, k, e)) => CallsFor(<<c>>, k, e, last)
         /\ \A s, t : CallsFor(s, k, e, last) /\ CallsFor(t, k, e, last) => CallsFor(s \o t, k, e, last)
<1>1. CallsFor(<<>>, k, e, last)
  BY EmptyIsSeq DEF CallsFor
<1>2. ASSUME NEW c, CallOK(c, last), Quiet(c) \/ WritesTo(c, k, e) PROVE CallsFor(<<c>>, k, e, last)
  <2> DEFINE s == <<c>>
  <2>1. IsSeq(s) /\ Items(s) = {c}
    BY SingletonIsSeq
  <2> HIDE DEF s
  <2>2. CallsFor(s, k, e, last)
    BY <2>1, <1>2 DEF CallsFor
  <2> QED BY <2>2 DEF s
<1>3. ASSUME NEW s, NEW t, CallsFor(s, k, e, last), CallsFor(t, k, e, last) PROVE CallsFor(s \o t, k, e, last)
  BY <1>3, ConcatIsSeq DEF CallsFor
<1> QED
  BY <1>1, <1>2, <1>3

---------------------------------------------------------------------------
(* The calls of Alibaba Cloud. *)

AliyunTarget(input, route) ==
  [name |-> input.name, type |-> input.type, ttl |-> input.ttl, line |-> route.line, weighted |-> FALSE]

LEMMA AliyunQuiet ==
  ASSUME adapter = "aliyun", NEW k, NEW e, NEW last, NEW status, NEW set, NEW line, NEW on
  PROVE  /\ CallsFor(Aliyun!Remark(e), k, e, last) /\ CallsFor(Aliyun!Weigh(e), k, e, last)
         /\ CallsFor(Aliyun!SetStatus(e, status), k, e, last)
         /\ CallsFor(Aliyun!Balance(set, line, on), k, e, last)
<1>1. CallsFor(Aliyun!Remark(e), k, e, last)
  <2> DEFINE w == [remark |-> e.ext.remark]
             c == [op |-> "set", id |-> e.id, with |-> w]
  <2>1. CallOK(c, last) /\ Quiet(c)
    BY DEF CallOK, Quiet, Serving
  <2>2. Aliyun!Remark(e) = <<c>>
    BY DEF Aliyun!Remark
  <2> HIDE DEF c
  <2> QED BY <2>1, <2>2, CallsForParts
<1>2. CallsFor(Aliyun!Weigh(e), k, e, last)
  <2> DEFINE w == [weight |-> Aliyun!WeightOf(e), weighted |-> TRUE]
             c == [op |-> "set", id |-> e.id, with |-> w]
  <2>1. CallOK(c, last) /\ Quiet(c)
    BY DEF CallOK, Quiet, Serving
  <2>2. Aliyun!Weigh(e) = <<c>>
    BY DEF Aliyun!Weigh
  <2> HIDE DEF c
  <2> QED BY <2>1, <2>2, CallsForParts
<1>3. CallsFor(Aliyun!SetStatus(e, status), k, e, last)
  <2> DEFINE w == [status |-> status]
             c == [op |-> "set", id |-> e.id, with |-> w]
  <2>1. CallOK(c, last) /\ Quiet(c)
    BY DEF CallOK, Quiet, Serving
  <2>2. Aliyun!SetStatus(e, status) = <<c>>
    BY DEF Aliyun!SetStatus
  <2> HIDE DEF c
  <2> QED BY <2>1, <2>2, CallsForParts
<1>4. CallsFor(Aliyun!Balance(set, line, on), k, e, last)
  <2> DEFINE w == [name |-> set.name, type |-> set.type, line |-> line, weighted |-> on]
             c == [op |-> "balance", id |-> None, with |-> w]
  <2>1. CallOK(c, last) /\ Quiet(c)
    BY DEF CallOK, Quiet
  <2>2. Aliyun!Balance(set, line, on) = <<c>>
    BY DEF Aliyun!Balance
  <2> HIDE DEF c
  <2> QED BY <2>1, <2>2, CallsForParts
<1> QED
  BY <1>1, <1>2, <1>3, <1>4

HasLine(route) == route.line # ""

LEMMA AliyunWrite ==
  ASSUME adapter = "aliyun", NEW input, NEW route, NEW e, HasLine(route),
         input.type \in {"CNAME", "NS"} => e.num = None, NEW last, e.id \in 1..last
  PROVE  LET k == AliyunTarget(input, route) IN
         /\ CallsFor(Aliyun!Add(input, route, e), k, e, last)
         /\ \E c \in Items(Aliyun!Add(input, route, e)) : WritesTo(c, k, e)
         /\ CallsFor(Aliyun!Modify(input, route, e), k, e, last)
         /\ \E c \in Items(Aliyun!Modify(input, route, e)) : WritesTo(c, k, e)
<1> DEFINE k == AliyunTarget(input, route)
           text == Aliyun!Wire(input.type, e.text)
           w == [name |-> input.name, type |-> input.type, ttl |-> input.ttl, line |-> route.line,
                 status |-> "Enable", weighted |-> FALSE, weight |-> 1, remark |-> "",
                 text |-> text, num |-> e.num]
           v == [name |-> input.name, type |-> input.type, ttl |-> input.ttl, line |-> route.line,
                 text |-> text, num |-> e.num]
           c == [op |-> "add", id |-> e.id, with |-> w]
           d == [op |-> "set", id |-> e.id, with |-> v]
<1>1. text.word = e.text.word
  BY DEF Aliyun!Wire, Aliyun!Quoted
<1> HIDE DEF text
<1>2. Serves(w) = Target(k, e) /\ Serves(v) = Target(k, e)
  <2>1. Aliyun!LineOf(w) = route.line /\ Aliyun!LineOf(v) = route.line
    BY DEF Aliyun!LineOf, HasLine
  <2>2. /\ w.name = input.name /\ w.type = input.type /\ w.ttl = input.ttl /\ w.text = text /\ w.num = e.num
        /\ v.name = input.name /\ v.type = input.type /\ v.ttl = input.ttl /\ v.text = text /\ v.num = e.num
    OBVIOUS
  <2> HIDE DEF w, v
  <2> QED BY <1>1, <2>1, <2>2, AliyunServes DEF AliyunTarget, Target
<1>3. CallOK(c, last) /\ WritesTo(c, k, e)
  BY <1>2 DEF CallOK, RecordOK, RecordFields, WritesTo, Serving
<1>4. CallOK(d, last) /\ WritesTo(d, k, e)
  BY <1>2 DEF CallOK, WritesTo, Serving
<1>5. Aliyun!Add(input, route, e)
        = <<c>> \o (IF e.ext # None /\ e.ext.remark # "" THEN Aliyun!Remark(e) ELSE <<>>)
  BY DEF Aliyun!Add, text
<1>6. Aliyun!Modify(input, route, e) = <<d>>
  BY DEF Aliyun!Modify, text
<1> HIDE DEF c, d, k
<1>7. CallsFor(<<c>>, k, e, last) /\ CallsFor(<<d>>, k, e, last)
  BY <1>3, <1>4, CallsForParts
<1>8. CallsFor(Aliyun!Add(input, route, e), k, e, last)
  BY <1>5, <1>7, CallsForParts, AliyunQuiet
<1>9. c \in Items(Aliyun!Add(input, route, e))
  <2> DEFINE s == <<c>>
             t == IF e.ext # None /\ e.ext.remark # "" THEN Aliyun!Remark(e) ELSE <<>>
  <2>1. IsSeq(s) /\ Items(s) = {c}
    BY SingletonIsSeq
  <2>2. CallsFor(t, k, e, last)
    BY CallsForParts, AliyunQuiet
  <2> HIDE DEF s, t
  <2>3. c \in Items(s \o t)
    BY <2>1, <2>2, ConcatIsSeq DEF CallsFor
  <2> QED BY <2>3, <1>5 DEF s, t
<1>10. d \in Items(Aliyun!Modify(input, route, e))
  BY <1>6, SingletonIsSeq
<1> QED
  BY <1>3, <1>4, <1>6, <1>7, <1>8, <1>9, <1>10 DEF k
---------------------------------------------------------------------------
(* Plans of calls on single records. *)

\* Calls for the entries es: each is quiet or writes one of them under the key k.
CallsForAll(s, k, es, last) ==
  /\ IsSeq(s)
  /\ \A c \in Items(s) : CallOK(c, last) /\ (Quiet(c) \/ \E i \in DOMAIN es : WritesTo(c, k, es[i]))

LEMMA CallsForEach ==
  ASSUME NEW k, NEW es, IsSeq(es), NEW last, NEW ss, ss = [i \in DOMAIN es |-> ss[i]],
         \A i \in DOMAIN es : CallsFor(ss[i], k, es[i], last)
  PROVE  /\ CallsForAll(Flattened(ss), k, es, last)
         /\ \A i \in DOMAIN es : Items(ss[i]) \subseteq Items(Flattened(ss))
<1>1. \A i \in DOMAIN es : IsSeq(ss[i])
  BY DEF CallsFor
<1> DEFINE r == Flattened(ss)
<1>2. IsSeq(r) /\ \A c : c \in Items(r) <=> \E i \in DOMAIN es : c \in Items(ss[i])
  BY <1>1, EachIsSeq
<1> HIDE DEF r
<1>3. CallsForAll(r, k, es, last) /\ \A i \in DOMAIN es : Items(ss[i]) \subseteq Items(r)
  BY <1>2 DEF CallsForAll, CallsFor
<1> QED
  BY <1>3 DEF r

LEMMA CallsForNone ==
  ASSUME NEW k, NEW es, NEW last
  PROVE  CallsForAll(<<>>, k, es, last)
  BY EmptyIsSeq DEF CallsForAll

LEMMA CallsForOne ==
  ASSUME NEW k, NEW es, NEW last, NEW i \in DOMAIN es, NEW e, e = es[i], NEW s, CallsFor(s, k, e, last)
  PROVE  CallsForAll(s, k, es, last)
  BY DEF CallsFor, CallsForAll

Joins(r, s, t) == r = s \o t

LEMMA CallsForConcat ==
  ASSUME NEW k, NEW es, NEW last, NEW s, NEW t, CallsForAll(s, k, es, last), CallsForAll(t, k, es, last),
         NEW r, Joins(r, s, t)
  PROVE  CallsForAll(r, k, es, last) /\ \A c : c \in Items(s) \/ c \in Items(t) => c \in Items(r)
<1>1. IsSeq(s) /\ IsSeq(t) /\ r = s \o t
  BY DEF CallsForAll, Joins
<1>2. IsSeq(r) /\ Items(r) = Items(s) \cup Items(t)
  BY <1>1, ConcatIsSeq
<1> QED
  BY <1>2 DEF CallsForAll

\* The calls that delete the entries of a set which es no longer has.
RemovalsOf(set, es) ==
  Flattened([i \in DOMAIN set.entries |->
               IF set.entries[i].id \in P!EntryIDs([entries |-> es]) THEN <<>>
               ELSE <<[op |-> "delete", id |-> set.entries[i].id, with |-> <<>>]>>])

LEMMA SameRemovals ==
  ASSUME NEW set, NEW es
  PROVE  /\ Aliyun!Removals(set, es) = RemovalsOf(set, es) /\ Tencent!Removals(set, es) = RemovalsOf(set, es)
         /\ Cloudflare!Removals(set, es) = RemovalsOf(set, es)
  BY SameFlatten DEF RemovalsOf, Aliyun!Removals, Aliyun!ForEach, Tencent!Removals, Tencent!ForEach, Cloudflare!Removals,
     Cloudflare!ForEach, Aliyun!EntryIDs, Tencent!EntryIDs, Cloudflare!EntryIDs, P!EntryIDs

\* A call that removes one of the records ids, none of the entries es.
Removing(c, ids, es) ==
  c.op = "delete" /\ c.id \in ids /\ \A i \in DOMAIN es : es[i].id # c.id

LEMMA RemovalsOK ==
  ASSUME NEW set, SetOK(set), NEW es, NEW last
  PROVE  /\ IsSeq(RemovalsOf(set, es))
         /\ \A c \in Items(RemovalsOf(set, es)) : CallOK(c, last) /\ Removing(c, P!EntryIDs(set), es)
         /\ \A id \in P!EntryIDs(set) :
              (\A i \in DOMAIN es : es[i].id # id) => \E c \in Items(RemovalsOf(set, es)) : c.id = id
<1> DEFINE n == set.entries
           ids == {es[i].id : i \in DOMAIN es}
           ss == [i \in DOMAIN n |-> IF n[i].id \in ids THEN <<>>
                                     ELSE <<[op |-> "delete", id |-> n[i].id, with |-> <<>>]>>]
           r == Flattened(ss)
<1>1. RemovalsOf(set, es) = r
  <2>1. P!EntryIDs([entries |-> es]) = ids
    BY DEF P!EntryIDs
  <2> QED BY <2>1 DEF RemovalsOf
<1>2. IsSeq(n)
  BY DEF SetOK, EntriesOK
<1>3. ss = [i \in DOMAIN n |-> ss[i]]
  OBVIOUS
<1>4. ASSUME NEW i \in DOMAIN n
      PROVE  /\ IsSeq(ss[i])
             /\ Items(ss[i]) = IF n[i].id \in ids THEN {} ELSE {[op |-> "delete", id |-> n[i].id, with |-> <<>>]}
  <2> DEFINE c == [op |-> "delete", id |-> n[i].id, with |-> <<>>]
  <2>1. ss[i] = IF n[i].id \in ids THEN <<>> ELSE <<c>>
    OBVIOUS
  <2> HIDE DEF ss, c
  <2> QED BY <2>1, SingletonIsSeq, EmptyIsSeq DEF c
<1> HIDE DEF ss
<1>5. IsSeq(r) /\ \A c : c \in Items(r) <=> \E i \in DOMAIN n : c \in Items(ss[i])
  BY <1>2, <1>3, <1>4, EachIsSeq
<1> HIDE DEF r
<1>6. ASSUME NEW c \in Items(r) PROVE CallOK(c, last) /\ Removing(c, P!EntryIDs(set), es)
  <2>1. PICK i \in DOMAIN n : n[i].id \notin ids /\ c = [op |-> "delete", id |-> n[i].id, with |-> <<>>]
    <3> HIDE DEF n, ids
    <3>1. PICK i \in DOMAIN n : c \in Items(ss[i])
      BY <1>5
    <3>2. CASE n[i].id \in ids
      BY <3>1, <3>2, <1>4
    <3>3. CASE n[i].id \notin ids
      BY <3>1, <3>3, <1>4
    <3> QED BY <3>2, <3>3
  <2>2. c.op = "delete" /\ c.id = n[i].id /\ CallOK(c, last)
    BY <2>1 DEF CallOK
  <2>3. n[i].id \in P!EntryIDs(set)
    BY DEF P!EntryIDs
  <2>4. \A j \in DOMAIN es : es[j].id # n[i].id
    BY <2>1
  <2> HIDE DEF n, ids
  <2> QED BY <2>2, <2>3, <2>4 DEF Removing
<1>7. ASSUME NEW id \in P!EntryIDs(set), \A i \in DOMAIN es : es[i].id # id
      PROVE  \E c \in Items(r) : c.id = id
  <2>1. PICK i \in DOMAIN n : n[i].id = id
    BY DEF P!EntryIDs
  <2>2. id \notin ids
    BY <1>7
  <2> DEFINE c == [op |-> "delete", id |-> n[i].id, with |-> <<>>]
  <2>3. c \in Items(ss[i]) /\ c.id = id
    BY <2>1, <2>2, <1>4
  <2> HIDE DEF c
  <2> QED BY <2>3, <1>5
<1> QED
  BY <1>1, <1>5, <1>6, <1>7

\* The adapter does not refuse.
Allowed(p) == p.refusal = ""
\* Only Alibaba Cloud's plans have a status to expect.
NoStatus == ""

PlanShape(p) ==
  /\ p = [refusal |-> p.refusal, calls |-> p.calls, goal |-> p.goal, key |-> p.key, status |-> p.status,
          gone |-> p.gone]
  /\ IsSeq(p.calls) /\ IsSeq(p.goal)

\* The calls of a plan for single records, made from the view: w for the
\* entries es, which are there already or will be written, and then d, which
\* removes all the others.
SingleCalls(calls, view, k, es, last, w, d) ==
  /\ calls = w \o d
  /\ CallsForAll(w, k, es, last)
  /\ IsSeq(d) /\ \A c \in Items(d) : CallOK(c, last) /\ Removing(c, request.id, es)
  /\ \A i \in DOMAIN es :
       \/ es[i].id \in DOMAIN view /\ Serves(view[es[i].id]) = Target(k, es[i])
       \/ \E c \in Items(w) : WritesTo(c, k, es[i])
  /\ \A id \in request.id :
       (\A i \in DOMAIN es : es[i].id # id) => \E c \in Items(d) : c.id = id
SinglePlan(p, view) ==
  LET last == LastID(p.goal) IN
  /\ PlanShape(p)
  /\ \A i, j \in DOMAIN p.goal : p.goal[i].id = p.goal[j].id => i = j
  /\ \A i \in DOMAIN p.goal : p.goal[i].id \in request.id \cup (issued + 1..last)
  /\ \E w, d : SingleCalls(p.calls, view, GoalKey(p), p.goal, last, w, d)

\* The wanted entries, up to what the provider adds to them.
SameEntries(goal, es) ==
  /\ IsSeq(goal) /\ DOMAIN goal = DOMAIN es /\ Len(goal) = Len(es)
  /\ \A i \in DOMAIN es : goal[i].id = es[i].id /\ goal[i].text = es[i].text /\ goal[i].num = es[i].num

LEMMA MakePlan ==
  ASSUME issued \in Nat, NEW x, NEW y, NEW es, Wanted(x, y, es, request.id),
         NEW p, PlanShape(p), SameEntries(p.goal, es), NEW k, k = GoalKey(p),
         NEW last, last = LastID(x.entries),
         NEW w, NEW d, NEW view, SingleCalls(p.calls, view, k, es, last, w, d)
  PROVE  SinglePlan(p, view)
<1> DEFINE g == p.goal
<1>1. /\ DOMAIN g = DOMAIN es /\ Len(g) = Len(x.entries)
      /\ \A i \in DOMAIN es : g[i].id = es[i].id /\ g[i].text = es[i].text /\ g[i].num = es[i].num
  BY DEF SameEntries, Wanted
<1>2. /\ DOMAIN es = DOMAIN x.entries
      /\ \A i, j \in DOMAIN es : es[i].id = es[j].id => i = j
      /\ \A i \in DOMAIN es : es[i].id \in request.id \cup (issued + 1..last)
  BY DEF Wanted, LastID
<1> HIDE DEF g
<1>3. last = LastID(g)
  BY <1>1 DEF LastID
<1>4. \A i \in DOMAIN es : Target(k, g[i]) = Target(k, es[i])
  BY <1>1 DEF Target
<1>5. \A c : \A i \in DOMAIN es : WritesTo(c, k, es[i]) => WritesTo(c, k, g[i])
  BY <1>1, <1>4 DEF WritesTo
<1>6. CallsForAll(w, k, g, last)
  BY <1>1, <1>5 DEF CallsForAll, SingleCalls
<1>7. \A c \in Items(d) : CallOK(c, last) /\ Removing(c, request.id, g)
  BY <1>1 DEF Removing, SingleCalls
<1>8. \A i \in DOMAIN g :
         \/ g[i].id \in DOMAIN view /\ Serves(view[g[i].id]) = Target(k, g[i])
         \/ \E c \in Items(w) : WritesTo(c, k, g[i])
  BY <1>1, <1>4, <1>5 DEF SingleCalls
<1>9. \A id \in request.id : (\A i \in DOMAIN g : g[i].id # id) => \E c \in Items(d) : c.id = id
  BY <1>1 DEF SingleCalls
<1>10. /\ \A i, j \in DOMAIN g : g[i].id = g[j].id => i = j
       /\ \A i \in DOMAIN g : g[i].id \in request.id \cup (issued + 1..last)
  BY <1>1, <1>2
<1>11. SingleCalls(p.calls, view, k, g, last, w, d)
  BY <1>6, <1>7, <1>8, <1>9 DEF SingleCalls
<1> QED
  BY <1>3, <1>10, <1>11 DEF SinglePlan, g
---------------------------------------------------------------------------
(* The plans of Alibaba Cloud. *)

LEMMA AliyunLine ==
  ASSUME NEW input, NEW fallback
  PROVE  HasLine(Aliyun!WantedRoute(input, fallback))
<1> DEFINE lines == Aliyun!LinesOf(input)
           line == IF lines # {} THEN CHOOSE l \in lines : TRUE
                   ELSE IF fallback.line = "" THEN Aliyun!DefaultLine ELSE fallback.line
<1>1. Aliyun!WantedRoute(input, fallback).line = line
  BY DEF Aliyun!WantedRoute
<1>2. "" \notin lines
  BY DEF Aliyun!LinesOf
<1> HIDE DEF lines
<1>3. line # ""
  BY <1>2 DEF Aliyun!DefaultLine
<1> QED
  BY <1>1, <1>3 DEF HasLine

LEMMA AliyunGoalKey ==
  ASSUME adapter = "aliyun", NEW p, NEW y, NEW route, p.key = Aliyun!KeyFor(y, route)
  PROVE  GoalKey(p) = AliyunTarget(y, route)
<1> DEFINE k == p.key
<1>1. k = [name |-> y.name, type |-> y.type, ttl |-> y.ttl, line |-> route.line, weighted |-> route.weighted]
  BY DEF Aliyun!KeyFor
<1>2. GoalKey(p) = [k EXCEPT !.weighted = FALSE]
  BY DEF GoalKey
<1> HIDE DEF k
<1>3. \A v : [k EXCEPT !.weighted = v]
          = [name |-> y.name, type |-> y.type, ttl |-> y.ttl, line |-> route.line, weighted |-> v]
  BY <1>1
<1> QED
  BY <1>2, <1>3, Zenon DEF AliyunTarget

\* What the last read must show of an entry.
AliyunFinal(e, route) ==
  [line |-> route.line, status |-> route.status,
   weight |-> IF route.weighted THEN Aliyun!WeightOf(e) ELSE None,
   remark |-> IF e.ext = None THEN "" ELSE e.ext.remark]

LEMMA AliyunFinalized ==
  ASSUME NEW type, NEW es, EntriesOK(type, es), NEW route
  PROVE  LET goal == Aliyun!Finalized(es, route) IN
         /\ SameEntries(goal, es)
         /\ \A i \in DOMAIN es : goal[i].ext = AliyunFinal(es[i], route)
<1> DEFINE goal == Aliyun!Finalized(es, route)
<1>1. DOMAIN es = 1..Len(es) /\ Len(es) \in Nat
  BY SeqFacts DEF EntriesOK
<1>2. goal = [i \in DOMAIN es |-> [es[i] EXCEPT !.ext = AliyunFinal(es[i], route)]]
  BY DEF Aliyun!Finalized, AliyunFinal
<1> HIDE DEF goal
<1>3. goal = [i \in 1..Len(es) |-> goal[i]]
  BY <1>1, <1>2
<1>4. IsSeq(goal) /\ Len(goal) = Len(es) /\ DOMAIN goal = DOMAIN es
  BY <1>1, <1>3, FunctionIsSeq
<1>5. ASSUME NEW i \in DOMAIN es
      PROVE  /\ goal[i].id = es[i].id /\ goal[i].text = es[i].text /\ goal[i].num = es[i].num
             /\ goal[i].ext = AliyunFinal(es[i], route)
  <2> DEFINE e == es[i]
             f == AliyunFinal(e, route)
  <2>1. EntryOK(e)
    BY DEF EntriesOK
  <2>2. goal[i] = [e EXCEPT !.ext = f]
    BY <1>2
  <2> HIDE DEF e, f
  <2>3. [e EXCEPT !.ext = f] = [id |-> e.id, text |-> e.text, num |-> e.num, ext |-> f]
    BY <2>1, EntryWritten
  <2>4. /\ goal[i].id = e.id /\ goal[i].text = e.text /\ goal[i].num = e.num /\ goal[i].ext = f
    BY <2>2, <2>3
  <2> QED BY <2>4 DEF e, f
<1> QED
  BY <1>4, <1>5 DEF SameEntries, goal

LEMMA WantedFacts ==
  ASSUME NEW x, NEW y, NEW es, NEW ids, Wanted(x, y, es, ids)
  PROVE  /\ y.type = x.type /\ y.name = x.name /\ y.ttl = x.ttl /\ y.ext = x.ext
         /\ EntriesOK(x.type, es) /\ IsSeq(es) /\ es # <<>> /\ 1 \in DOMAIN es
         /\ Len(x.entries) \in Nat
<1>1. y = [name |-> x.name, type |-> x.type, ttl |-> x.ttl, entries |-> y.entries, ext |-> x.ext]
  BY DEF Wanted
<1>2. y.type = x.type /\ y.name = x.name /\ y.ttl = x.ttl /\ y.ext = x.ext
  BY <1>1
<1>3. EntriesOK(x.type, es) /\ Len(es) = Len(x.entries)
  BY DEF Wanted
<1>4. IsSeq(es) /\ es # <<>>
  BY <1>3 DEF EntriesOK
<1>5. DOMAIN es = 1..Len(es) /\ Len(es) \in Nat /\ Len(es) # 0
  BY <1>4, SeqFacts
<1>6. 1 \in DOMAIN es
  BY <1>5
<1> QED
  BY <1>2, <1>3, <1>4, <1>5, <1>6

LEMMA WantedRange ==
  ASSUME issued \in Nat, NEW x, NEW y, NEW es, NEW ids, ids \subseteq 1..issued, Wanted(x, y, es, ids),
         NEW last, last = LastID(x.entries), NEW i \in DOMAIN es
  PROVE  /\ es[i].id \in 1..last /\ EntryOK(es[i])
         /\ y.type \in {"CNAME", "NS"} => es[i].num = None
<1> DEFINE n == Len(x.entries)
           e == es[i]
<1>1. EntriesOK(x.type, es) /\ y.type = x.type /\ n \in Nat
  BY WantedFacts
<1>2. i \in DOMAIN x.entries
  BY DEF Wanted
<1>3. e.id \in ids \/ e.id \in issued + 1..issued + n
  BY <1>2 DEF Wanted
<1>4. EntryOK(e) /\ (x.type \in {"CNAME", "NS"} => e.num = None)
  BY <1>1 DEF EntriesOK
<1>5. last = issued + n
  BY DEF LastID
<1> DEFINE id == e.id
<1>6. id \in ids \/ id \in (issued + 1)..(issued + n)
  BY <1>3
<1>7. last \in Nat /\ issued <= last
  BY <1>1, <1>5
<1> HIDE DEF id, n
<1>8. ASSUME id \in ids PROVE id \in 1..last
  BY <1>7, <1>8
<1>9. ASSUME id \in (issued + 1)..(issued + n) PROVE id \in 1..last
  BY <1>1, <1>5, <1>9
<1> HIDE DEF e
<1> QED
  BY <1>1, <1>4, <1>6, <1>8, <1>9 DEF e, id

LEMMA PlanFields ==
  ASSUME NEW calls, NEW goal, NEW key, NEW status, NEW gone
  PROVE  LET p == P!Mutate(calls, goal, key, status, gone) IN
         p.calls = calls /\ p.goal = goal /\ p.key = key /\ p.status = status /\ p.gone = gone
  BY DEF P!Mutate

LEMMA SameMutate ==
  ASSUME NEW calls, NEW goal, NEW key, NEW status, NEW gone
  PROVE  /\ Aliyun!Mutate(calls, goal, key, status, gone) = P!Mutate(calls, goal, key, status, gone)
         /\ Tencent!Mutate(calls, goal, key, status, gone) = P!Mutate(calls, goal, key, status, gone)
         /\ Cloudflare!Mutate(calls, goal, key, status, gone) = P!Mutate(calls, goal, key, status, gone)
         /\ Huawei!Mutate(calls, goal, key, status, gone) = P!Mutate(calls, goal, key, status, gone)
  BY Zenon DEF P!Mutate, Aliyun!Mutate, Tencent!Mutate, Cloudflare!Mutate, Huawei!Mutate

LEMMA MutateShape ==
  ASSUME NEW calls, IsSeq(calls), NEW goal, IsSeq(goal), NEW key, NEW status, NEW gone, NEW p,
         p = P!Mutate(calls, goal, key, status, gone)
  PROVE  PlanShape(p)
<1>1. p.calls = calls /\ p.goal = goal /\ p.key = key /\ p.status = status /\ p.gone = gone
  BY PlanFields
<1>2. p = [refusal |-> p.refusal, calls |-> p.calls, goal |-> p.goal, key |-> p.key, status |-> p.status,
           gone |-> p.gone]
  BY DEF P!Mutate
<1> QED
  BY <1>1, <1>2 DEF PlanShape

\* A plan as the adapters make it.
LEMMA MadePlan ==
  ASSUME issued \in Nat, NEW x, NEW y, NEW es, Wanted(x, y, es, request.id),
         NEW p, NEW goal, NEW key, NEW status, NEW gone, NEW calls, NEW w, NEW d,
         p = P!Mutate(calls, goal, key, status, gone),
         SameEntries(goal, es), NEW k, k = GoalKey(p),
         NEW last, last = LastID(x.entries),
         NEW view, SingleCalls(calls, view, k, es, last, w, d)
  PROVE  SinglePlan(p, view)
<1>1. IsSeq(calls)
  <2>1. IsSeq(w) /\ IsSeq(d) /\ calls = w \o d
    BY DEF SingleCalls, CallsForAll
  <2> QED BY <2>1, ConcatIsSeq
<1>2. IsSeq(goal)
  BY DEF SameEntries
<1>3. PlanShape(p)
  BY <1>1, <1>2, MutateShape
<1>4. p.calls = calls /\ p.goal = goal
  BY PlanFields
<1>5. SingleCalls(p.calls, view, k, es, last, w, d) /\ SameEntries(p.goal, es)
  BY <1>4
<1> QED
  BY <1>3, <1>5, MakePlan

\* What a creation asks: all its entries are new.
CreateRequest(x) ==
  InputOK(x) /\ request.id = {} /\ \A i \in DOMAIN x.entries : x.entries[i].id = None

LEMMA CreateWanted ==
  ASSUME issued \in Nat, NEW x, CreateRequest(x)
  PROVE  Wanted(x, P!Normalized(x), P!WithIDs(P!Normalized(x).entries, issued), request.id)
<1>1. IDsOK(x.entries, {})
  BY InputIDs DEF CreateRequest
<1> QED
  BY <1>1, WantedOK DEF CreateRequest

\* The calls of a creation: an addition for each of the entries, then what
\* their routing and state take.
AliyunAdds(y, route, es) == [i \in DOMAIN es |-> Aliyun!Add(y, route, es[i])]
AliyunWeighs(es) == [i \in DOMAIN es |-> Aliyun!Weigh(es[i])]
AliyunDisables(es) == [i \in DOMAIN es |-> Aliyun!SetStatus(es[i], "Disable")]
AliyunCreateCalls(y, route, es) ==
  Flattened(AliyunAdds(y, route, es))
  \o (IF route.weighted THEN Aliyun!Balance(y, route.line, TRUE) \o Flattened(AliyunWeighs(es)) ELSE <<>>)
  \o (IF route.status = "Disable" THEN Flattened(AliyunDisables(es)) ELSE <<>>)

LEMMA AliyunCreateEach ==
  ASSUME adapter = "aliyun", issued \in Nat, NEW x, NEW y, NEW es, request.id = {}, Wanted(x, y, es, request.id),
         NEW route, HasLine(route), NEW last, last = LastID(x.entries), NEW k, k = AliyunTarget(y, route)
  PROVE  /\ CallsForAll(Flattened(AliyunAdds(y, route, es)), k, es, last)
         /\ \A i \in DOMAIN es : \E c \in Items(Flattened(AliyunAdds(y, route, es))) : WritesTo(c, k, es[i])
         /\ CallsForAll(Flattened(AliyunWeighs(es)), k, es, last)
         /\ CallsForAll(Flattened(AliyunDisables(es)), k, es, last)
<1> DEFINE adds == AliyunAdds(y, route, es)
           weighs == AliyunWeighs(es)
           states == AliyunDisables(es)
<1>1. request.id \subseteq 1..issued
  OBVIOUS
<1>2. \A i \in DOMAIN es : es[i].id \in 1..last /\ (y.type \in {"CNAME", "NS"} => es[i].num = None)
  BY <1>1, WantedRange
<1>3. ASSUME NEW i \in DOMAIN es
      PROVE  /\ CallsFor(adds[i], k, es[i], last)
             /\ \E c \in Items(adds[i]) : WritesTo(c, k, es[i])
             /\ CallsFor(weighs[i], k, es[i], last) /\ CallsFor(states[i], k, es[i], last)
  <2> DEFINE e == es[i]
  <2>1. e.id \in 1..last /\ (y.type \in {"CNAME", "NS"} => e.num = None)
    BY <1>2
  <2>2. adds[i] = Aliyun!Add(y, route, e) /\ weighs[i] = Aliyun!Weigh(e)
        /\ states[i] = Aliyun!SetStatus(e, "Disable")
    BY DEF AliyunAdds, AliyunWeighs, AliyunDisables
  <2> HIDE DEF e, adds, weighs, states
  <2>3. /\ CallsFor(Aliyun!Add(y, route, e), k, e, last)
        /\ \E c \in Items(Aliyun!Add(y, route, e)) : WritesTo(c, k, e)
    BY <2>1, AliyunWrite
  <2>4. CallsFor(weighs[i], k, e, last) /\ CallsFor(states[i], k, e, last)
    BY <2>2, AliyunQuiet
  <2>5. CallsFor(adds[i], k, e, last) /\ \E c \in Items(adds[i]) : WritesTo(c, k, e)
    BY <2>2, <2>3
  <2> QED BY <2>4, <2>5 DEF e
<1>4. /\ adds = [i \in DOMAIN es |-> adds[i]] /\ weighs = [i \in DOMAIN es |-> weighs[i]]
      /\ states = [i \in DOMAIN es |-> states[i]]
  BY DEF AliyunAdds, AliyunWeighs, AliyunDisables
<1>5. IsSeq(es)
  BY WantedFacts
<1> HIDE DEF adds, weighs, states
<1>6. CallsForAll(Flattened(adds), k, es, last)
  BY <1>3, <1>4, <1>5, CallsForEach
<1>7. \A i \in DOMAIN es : Items(adds[i]) \subseteq Items(Flattened(adds))
  BY <1>3, <1>4, <1>5, CallsForEach
<1>8. CallsForAll(Flattened(weighs), k, es, last)
  BY <1>3, <1>4, <1>5, CallsForEach
<1>9. CallsForAll(Flattened(states), k, es, last)
  BY <1>3, <1>4, <1>5, CallsForEach
<1>10. \A i \in DOMAIN es : \E c \in Items(Flattened(adds)) : WritesTo(c, k, es[i])
  BY <1>3, <1>7
<1> QED
  BY <1>6, <1>8, <1>9, <1>10 DEF adds, weighs, states

LEMMA AliyunCreateSingle ==
  ASSUME adapter = "aliyun", issued \in Nat, NEW x, NEW y, NEW es, request.id = {}, Wanted(x, y, es, request.id),
         NEW route, HasLine(route), NEW last, last = LastID(x.entries), NEW k, k = AliyunTarget(y, route),
         NEW view, NEW w, w = AliyunCreateCalls(y, route, es)
  PROVE  SingleCalls(w, view, k, es, last, w, <<>>)
<1> DEFINE A == Flattened(AliyunAdds(y, route, es))
           on == Aliyun!Balance(y, route.line, TRUE)
           weighs == Flattened(AliyunWeighs(es))
           states == Flattened(AliyunDisables(es))
           B == IF route.weighted THEN on \o weighs ELSE <<>>
           C == IF route.status = "Disable" THEN states ELSE <<>>
           AB == A \o B
<1>1. Joins(w, AB, C)
  BY DEF Joins, AliyunCreateCalls
<1>2. /\ CallsForAll(A, k, es, last) /\ CallsForAll(weighs, k, es, last) /\ CallsForAll(states, k, es, last)
      /\ \A i \in DOMAIN es : \E c \in Items(A) : WritesTo(c, k, es[i])
  BY AliyunCreateEach
<1>3. CallsForAll(on, k, es, last)
  <2>1. 1 \in DOMAIN es
    BY WantedFacts
  <2> QED BY <2>1, AliyunQuiet, CallsForOne
<1> HIDE DEF A, on, weighs, states
<1> DEFINE D == on \o weighs
<1>9. CallsForAll(D, k, es, last)
  <2>1. Joins(D, on, weighs)
    BY DEF Joins
  <2> HIDE DEF D
  <2> QED BY <2>1, <1>2, <1>3, CallsForConcat
<1> HIDE DEF D
<1>4. CallsForAll(B, k, es, last) /\ CallsForAll(C, k, es, last)
  BY <1>2, <1>9, CallsForNone DEF D
<1> HIDE DEF B, C
<1>10. Joins(AB, A, B)
  BY DEF Joins
<1> HIDE DEF AB
<1>5. CallsForAll(AB, k, es, last) /\ \A c : c \in Items(A) => c \in Items(AB)
  BY <1>2, <1>4, <1>10, CallsForConcat
<1>6. CallsForAll(w, k, es, last) /\ \A c : c \in Items(AB) => c \in Items(w)
  BY <1>1, <1>4, <1>5, CallsForConcat
<1>7. w = w \o <<>>
  BY <1>6, ConcatEmpty DEF CallsForAll
<1>8. \A i \in DOMAIN es : \E c \in Items(w) : WritesTo(c, k, es[i])
  BY <1>2, <1>5, <1>6
<1> QED
  BY <1>6, <1>7, <1>8, EmptyIsSeq DEF SingleCalls

\* The calls are those the adapter plans.
AliyunNoRoute == [line |-> "", status |-> "Enable", weighted |-> FALSE]

LEMMA AliyunCreateSame ==
  ASSUME NEW x, NEW sets, NEW y, y = P!Normalized(x), NEW es, es = P!WithIDs(y.entries, issued),
         NEW route, route = Aliyun!WantedRoute(y, AliyunNoRoute), NEW p, p = Aliyun!CreatePlan(x, sets, issued),
         Allowed(p)
  PROVE  /\ ~ Aliyun!Objection(y, AliyunNoRoute)
         /\ p = P!Mutate(AliyunCreateCalls(y, route, es), Aliyun!Finalized(es, route), Aliyun!KeyFor(y, route),
                         route.status, {})
<1> DEFINE z == Aliyun!Normalized(x)
           fs == Aliyun!WithIDs(z.entries, issued)
           r == Aliyun!WantedRoute(z, AliyunNoRoute)
           key == Aliyun!KeyFor(z, r)
           q == Aliyun!Mutate(AliyunCreateCalls(z, r, fs), Aliyun!Finalized(fs, r), key, r.status, {})
           bad == ~ Aliyun!Normalizable(x) \/ Aliyun!Objection(z, AliyunNoRoute)
           taken == \E set \in sets : Aliyun!KeyOfSet(set) = key
<1>1. ~ Allowed(Aliyun!Refuse("validation")) /\ ~ Allowed(Aliyun!Refuse("conflict"))
  BY DEF Aliyun!Refuse, Allowed
<1>2. p = IF bad THEN Aliyun!Refuse("validation") ELSE IF taken THEN Aliyun!Refuse("conflict") ELSE q
  BY SameFlatten DEF Aliyun!CreatePlan, Aliyun!ForEach, AliyunCreateCalls, AliyunAdds, AliyunWeighs, AliyunDisables,
     AliyunNoRoute
<1>3. bad \/ ~ Aliyun!Objection(z, AliyunNoRoute)
  OBVIOUS
<1>4. q = P!Mutate(AliyunCreateCalls(z, r, fs), Aliyun!Finalized(fs, r), key, r.status, {})
  BY SameMutate
<1>5. z = y /\ fs = es /\ r = route
  BY SameRequest, SameIDs
<1> HIDE DEF bad, taken, q
<1>6. ~ bad /\ p = q
  BY <1>1, <1>2
<1> HIDE DEF z, fs, r
<1> QED
  BY <1>3, <1>4, <1>5, <1>6

\* The plan of a creation.
LEMMA AliyunCreate ==
  ASSUME adapter = "aliyun", issued \in Nat, NEW x, CreateRequest(x), NEW view, NEW calls, NEW status, NEW gone,
         NEW fallback, NEW y, y = P!Normalized(x), NEW route, route = Aliyun!WantedRoute(y, fallback),
         NEW es, es = P!WithIDs(y.entries, issued), NEW p,
         p = P!Mutate(AliyunCreateCalls(y, route, es), Aliyun!Finalized(es, route), Aliyun!KeyFor(y, route), status, gone)
  PROVE  SinglePlan(p, view)
<1>1. Wanted(x, y, es, request.id) /\ request.id = {}
  BY CreateWanted DEF CreateRequest
<1>2. HasLine(route)
  BY AliyunLine
<1> DEFINE last == LastID(x.entries)
           k == AliyunTarget(y, route)
           w == AliyunCreateCalls(y, route, es)
           goal == Aliyun!Finalized(es, route)
           key == Aliyun!KeyFor(y, route)
<1>3. SingleCalls(w, view, k, es, last, w, <<>>)
  BY <1>1, <1>2, AliyunCreateSingle
<1>4. SameEntries(goal, es)
  BY <1>1, WantedFacts, AliyunFinalized
<1>5. p = P!Mutate(w, goal, key, status, gone)
  OBVIOUS
<1> HIDE DEF w, goal, key
<1>6. p.key = key
  BY <1>5, PlanFields
<1>7. GoalKey(p) = k
  BY <1>6, AliyunGoalKey DEF key
<1> HIDE DEF last, k
<1> QED
  BY <1>1, <1>3, <1>4, <1>5, <1>7, MadePlan DEF last

\* Of a listed set, the record of each entry.
LEMMA ListedIDs ==
  ASSUME NEW set, NEW view, NEW m, Lists(set, view, m)
  PROVE  /\ P!EntryIDs(set) = set.id /\ set.id \subseteq DOMAIN view
         /\ \A id \in set.id : \E i \in DOMAIN m : m[i] = id /\ P!EntryWith(set, id) = set.entries[i]
<1> DEFINE n == set.entries
<1>1. DOMAIN n = DOMAIN m /\ \A i \in DOMAIN m : n[i].id = m[i]
  BY DEF Lists
<1>2. set.id = {m[i] : i \in DOMAIN m}
  BY DEF Lists, Items
<1>3. P!EntryIDs(set) = {n[i].id : i \in DOMAIN n}
  BY DEF P!EntryIDs
<1>4. ASSUME NEW id \in set.id PROVE \E i \in DOMAIN m : m[i] = id /\ P!EntryWith(set, id) = n[i]
  <2> DEFINE c == CHOOSE i \in DOMAIN n : n[i].id = id
  <2>1. P!EntryWith(set, id) = n[c]
    BY DEF P!EntryWith
  <2>2. \E i \in DOMAIN n : n[i].id = id
    BY <1>1, <1>2
  <2>3. c \in DOMAIN n /\ n[c].id = id
    BY <2>2, Zenon
  <2> HIDE DEF c
  <2> QED BY <2>1, <2>3, <1>1
<1>5. set.id \subseteq DOMAIN view
  BY DEF Lists
<1> HIDE DEF n
<1>6. P!EntryIDs(set) = set.id
  BY <1>1, <1>2, <1>3
<1> QED
  BY <1>4, <1>5, <1>6 DEF n

\* The calls w for the entries es of the updated set, then the removals.
LEMMA WithRemovals ==
  ASSUME NEW set, SetOK(set), P!EntryIDs(set) = request.id, NEW es, NEW last, NEW k, NEW view, NEW w,
         CallsForAll(w, k, es, last),
         \A i \in DOMAIN es :
            \/ es[i].id \in DOMAIN view /\ Serves(view[es[i].id]) = Target(k, es[i])
            \/ \E c \in Items(w) : WritesTo(c, k, es[i]),
         NEW calls, Joins(calls, w, RemovalsOf(set, es))
  PROVE  SingleCalls(calls, view, k, es, last, w, RemovalsOf(set, es))
<1> DEFINE d == RemovalsOf(set, es)
           ids == P!EntryIDs(set)
<1>3. /\ IsSeq(d)
      /\ \A c \in Items(d) : CallOK(c, last) /\ Removing(c, ids, es)
      /\ \A id \in ids : (\A i \in DOMAIN es : es[i].id # id) => \E c \in Items(d) : c.id = id
  BY RemovalsOK
<1>4. ids = request.id
  OBVIOUS
<1> HIDE DEF d, ids
<1>1. /\ IsSeq(d)
      /\ \A c \in Items(d) : CallOK(c, last) /\ Removing(c, request.id, es)
      /\ \A id \in request.id : (\A i \in DOMAIN es : es[i].id # id) => \E c \in Items(d) : c.id = id
  BY <1>3, <1>4
<1>2. calls = w \o d
  BY DEF Joins, d
<1> QED
  BY <1>1, <1>2 DEF SingleCalls, d

LEMMA AliyunKept ==
  ASSUME adapter = "aliyun", NEW view, NEW set, NEW m, AliyunLists(set, view, m), NEW input, NEW route, NEW e,
         e.id \in set.id, ~ Aliyun!NeedsUpdate(set, input, route, e)
  PROVE  e.id \in DOMAIN view /\ Serves(view[e.id]) = Target(AliyunTarget(input, route), e)
<1>1. Lists(set, view, m)
  BY DEF AliyunLists
<1>2. PICK i \in DOMAIN m : m[i] = e.id /\ P!EntryWith(set, e.id) = set.entries[i]
  BY <1>1, ListedIDs
<1> DEFINE was == set.entries[i]
           r == view[m[i]]
<1>3. /\ was.text.word = r.text.word /\ was.num = r.num /\ set.name = r.name /\ set.type = r.type
      /\ m[i] \in DOMAIN view
  BY <1>1 DEF Lists, Items
<1>4. set.ttl = Aliyun!RecordKey(r).ttl
  BY DEF AliyunLists
<1>5. set.entries[1].ext.line = Aliyun!LineOf(r)
  <2>1. 1 \in DOMAIN m
    BY <1>1, SeqFacts DEF Lists
  <2>2. set.entries[1].ext = Aliyun!EntryOf(m[1], view[m[1]]).ext
    BY <2>1 DEF AliyunLists
  <2>3. Aliyun!RecordKey(view[m[1]]) = Aliyun!RecordKey(r)
    BY <2>1 DEF AliyunLists
  <2> DEFINE s == view[m[1]]
  <2> HIDE DEF r, s
  <2>4. Aliyun!RecordKey(s).line = Aliyun!LineOf(s) /\ Aliyun!RecordKey(r).line = Aliyun!LineOf(r)
    BY DEF Aliyun!RecordKey
  <2>5. Aliyun!EntryOf(m[1], s).ext.line = Aliyun!LineOf(s)
    BY DEF Aliyun!EntryOf
  <2> QED BY <2>2, <2>3, <2>4, <2>5 DEF s
<1>6. Aliyun!EntryWith(set, e.id) = was
  BY <1>2, SameIDs
<1>7. /\ set.name = input.name /\ set.type = input.type /\ set.ttl = input.ttl
      /\ Aliyun!RouteOf(set).line = route.line
      /\ Aliyun!Wire(set.type, was.text) = Aliyun!Wire(input.type, e.text) /\ was.num = e.num
  BY <1>6 DEF Aliyun!NeedsUpdate
<1>8. was.text.word = e.text.word
  <2>1. \A t, a : Aliyun!Wire(t, a).word = a.word
    BY DEF Aliyun!Wire, Aliyun!Quoted
  <2> QED BY <2>1, <1>7
<1>9. Aliyun!RouteOf(set).line = set.entries[1].ext.line
  BY DEF Aliyun!RouteOf
<1>10. Aliyun!RecordKey(r).ttl = r.ttl
  BY DEF Aliyun!RecordKey
<1> HIDE DEF was, r
<1>11. Serves(r) = Target([name |-> r.name, type |-> r.type, ttl |-> r.ttl, line |-> Aliyun!LineOf(r),
                           weighted |-> FALSE], r)
  BY AliyunServes
<1>12. /\ r.name = input.name /\ r.type = input.type /\ r.ttl = input.ttl /\ Aliyun!LineOf(r) = route.line
       /\ r.text.word = e.text.word /\ r.num = e.num
  BY <1>3, <1>4, <1>5, <1>7, <1>8, <1>9, <1>10
<1>13. Serves(r) = Target(AliyunTarget(input, route), e)
  BY <1>11, <1>12 DEF Target, AliyunTarget
<1> QED
  BY <1>2, <1>3, <1>13 DEF r

\* The calls of an update, for each of the entries.
AliyunWritten(set, y, route, e) ==
  IF e.id \notin Aliyun!EntryIDs(set) THEN Aliyun!Add(y, route, e)
  ELSE (IF Aliyun!NeedsUpdate(set, y, route, e) THEN Aliyun!Modify(y, route, e) ELSE <<>>)
       \o (IF e.ext # None /\ e.ext.remark # Aliyun!EntryWith(set, e.id).ext.remark THEN Aliyun!Remark(e) ELSE <<>>)
AliyunWeighed(set, e) ==
  IF e.id \notin Aliyun!EntryIDs(set) \/ Aliyun!WeightOf(Aliyun!EntryWith(set, e.id)) # Aliyun!WeightOf(e)
  THEN Aliyun!Weigh(e) ELSE <<>>
AliyunSwitched(set, route, e) ==
  IF route.status # "" /\ (Aliyun!RouteOf(set).status # route.status
                           \/ (e.id \notin Aliyun!EntryIDs(set) /\ route.status = "Disable"))
  THEN Aliyun!SetStatus(e, route.status) ELSE <<>>

Served1(view, k, e) == e.id \in DOMAIN view /\ Serves(view[e.id]) = Target(k, e)

LEMMA AliyunWrittenOK ==
  ASSUME adapter = "aliyun", NEW view, NEW set, NEW m, AliyunLists(set, view, m), NEW y, NEW route, HasLine(route),
         NEW e, y.type \in {"CNAME", "NS"} => e.num = None, NEW last, e.id \in 1..last
  PROVE  LET k == AliyunTarget(y, route)  s == AliyunWritten(set, y, route, e) IN
         /\ CallsFor(s, k, e, last)
         /\ Served1(view, k, e) \/ \E c \in Items(s) : WritesTo(c, k, e)
<1> DEFINE k == AliyunTarget(y, route)
           add == Aliyun!Add(y, route, e)
           modify == Aliyun!Modify(y, route, e)
           remark == Aliyun!Remark(e)
           new == e.id \notin Aliyun!EntryIDs(set)
           needs == Aliyun!NeedsUpdate(set, y, route, e)
           renoted == e.ext # None /\ e.ext.remark # Aliyun!EntryWith(set, e.id).ext.remark
           A == IF needs THEN modify ELSE <<>>
           B == IF renoted THEN remark ELSE <<>>
           s == AliyunWritten(set, y, route, e)
<1>1. s = IF new THEN add ELSE A \o B
  BY DEF AliyunWritten
<1>2. CallsFor(add, k, e, last) /\ CallsFor(modify, k, e, last)
  BY AliyunWrite
<1>3. (\E c \in Items(add) : WritesTo(c, k, e)) /\ \E c \in Items(modify) : WritesTo(c, k, e)
  BY AliyunWrite
<1>4. CallsFor(remark, k, e, last)
  BY AliyunQuiet
<1>5. ~ new /\ ~ needs => Served1(view, k, e)
  <2>1. Lists(set, view, m)
    BY DEF AliyunLists
  <2>2. ~ new => e.id \in set.id
    BY <2>1, ListedIDs, SameRequest
  <2> QED BY <2>2, AliyunKept DEF Served1
<1> HIDE DEF k, add, modify, remark, new, needs, renoted, s
<1>6. CallsFor(<<>>, k, e, last)
  BY CallsForParts
<1>7. CallsFor(A, k, e, last) /\ CallsFor(B, k, e, last)
  BY <1>2, <1>4, <1>6
<1>8. needs => \E c \in Items(A) : WritesTo(c, k, e)
  BY <1>3
<1> HIDE DEF A, B
<1>9. CallsFor(A \o B, k, e, last) /\ \A c \in Items(A) : c \in Items(A \o B)
  BY <1>7, ConcatIsSeq DEF CallsFor
<1> DEFINE AB == A \o B
<1> HIDE DEF AB
<1>10. CallsFor(AB, k, e, last) /\ (needs => \E c \in Items(AB) : WritesTo(c, k, e))
  BY <1>8, <1>9 DEF AB
<1>11. s = IF new THEN add ELSE AB
  BY <1>1 DEF AB
<1>12. CallsFor(s, k, e, last)
  BY <1>2, <1>10, <1>11
<1>13. Served1(view, k, e) \/ \E c \in Items(s) : WritesTo(c, k, e)
  BY <1>3, <1>5, <1>10, <1>11
<1> QED
  BY <1>12, <1>13 DEF k, s

LEMMA AliyunQuietOK ==
  ASSUME adapter = "aliyun", NEW set, NEW route, NEW e, NEW last, NEW k
  PROVE  CallsFor(AliyunWeighed(set, e), k, e, last) /\ CallsFor(AliyunSwitched(set, route, e), k, e, last)
<1> DEFINE weigh == Aliyun!Weigh(e)
           switch == Aliyun!SetStatus(e, route.status)
<1>1. CallsFor(weigh, k, e, last)
  BY AliyunQuiet
<1>2. CallsFor(switch, k, e, last)
  BY AliyunQuiet
<1>3. CallsFor(<<>>, k, e, last)
  BY CallsForParts
<1> HIDE DEF weigh, switch
<1>4. CallsFor(AliyunWeighed(set, e), k, e, last)
  <2>1. AliyunWeighed(set, e) \in {weigh, <<>>}
    BY DEF AliyunWeighed, weigh
  <2> QED BY <2>1, <1>1, <1>3
<1>5. CallsFor(AliyunSwitched(set, route, e), k, e, last)
  <2>1. AliyunSwitched(set, route, e) \in {switch, <<>>}
    BY DEF AliyunSwitched, switch
  <2> QED BY <2>1, <1>2, <1>3
<1> QED
  BY <1>4, <1>5

AliyunWrites(set, y, route, es) == [i \in DOMAIN es |-> AliyunWritten(set, y, route, es[i])]
AliyunReweighs(set, es) == [i \in DOMAIN es |-> AliyunWeighed(set, es[i])]
AliyunSwitches(set, route, es) == [i \in DOMAIN es |-> AliyunSwitched(set, route, es[i])]

LEMMA AliyunUpdateEach ==
  ASSUME adapter = "aliyun", issued \in Nat, NEW x, NEW y, NEW es, request.id \subseteq 1..issued,
         Wanted(x, y, es, request.id), NEW route, HasLine(route), NEW last, last = LastID(x.entries),
         NEW k, k = AliyunTarget(y, route), NEW view, NEW set, NEW m, AliyunLists(set, view, m)
  PROVE  /\ CallsForAll(Flattened(AliyunWrites(set, y, route, es)), k, es, last)
         /\ \A i \in DOMAIN es :
              Served1(view, k, es[i]) \/ \E c \in Items(Flattened(AliyunWrites(set, y, route, es))) : WritesTo(c, k, es[i])
         /\ CallsForAll(Flattened(AliyunReweighs(set, es)), k, es, last)
         /\ CallsForAll(Flattened(AliyunSwitches(set, route, es)), k, es, last)
<1> DEFINE writes == AliyunWrites(set, y, route, es)
           weighs == AliyunReweighs(set, es)
           states == AliyunSwitches(set, route, es)
<1>2. \A i \in DOMAIN es : es[i].id \in 1..last /\ (y.type \in {"CNAME", "NS"} => es[i].num = None)
  BY WantedRange
<1>3. ASSUME NEW i \in DOMAIN es
      PROVE  /\ CallsFor(writes[i], k, es[i], last)
             /\ Served1(view, k, es[i]) \/ \E c \in Items(writes[i]) : WritesTo(c, k, es[i])
             /\ CallsFor(weighs[i], k, es[i], last) /\ CallsFor(states[i], k, es[i], last)
  <2> DEFINE e == es[i]
  <2>1. e.id \in 1..last /\ (y.type \in {"CNAME", "NS"} => e.num = None)
    BY <1>2
  <2>2. writes[i] = AliyunWritten(set, y, route, e) /\ weighs[i] = AliyunWeighed(set, e)
        /\ states[i] = AliyunSwitched(set, route, e)
    BY DEF AliyunWrites, AliyunReweighs, AliyunSwitches
  <2> HIDE DEF e, writes, weighs, states
  <2>3. /\ CallsFor(AliyunWritten(set, y, route, e), k, e, last)
        /\ Served1(view, k, e) \/ \E c \in Items(AliyunWritten(set, y, route, e)) : WritesTo(c, k, e)
    BY <2>1, AliyunWrittenOK
  <2>4. CallsFor(weighs[i], k, e, last) /\ CallsFor(states[i], k, e, last)
    BY <2>2, AliyunQuietOK
  <2>5. CallsFor(writes[i], k, e, last) /\ (Served1(view, k, e) \/ \E c \in Items(writes[i]) : WritesTo(c, k, e))
    BY <2>2, <2>3
  <2> QED BY <2>4, <2>5 DEF e
<1>4. /\ writes = [i \in DOMAIN es |-> writes[i]] /\ weighs = [i \in DOMAIN es |-> weighs[i]]
      /\ states = [i \in DOMAIN es |-> states[i]]
  BY DEF AliyunWrites, AliyunReweighs, AliyunSwitches
<1>5. IsSeq(es)
  BY WantedFacts
<1> HIDE DEF writes, weighs, states
<1>6. CallsForAll(Flattened(writes), k, es, last)
  BY <1>3, <1>4, <1>5, CallsForEach
<1>7. \A i \in DOMAIN es : Items(writes[i]) \subseteq Items(Flattened(writes))
  BY <1>3, <1>4, <1>5, CallsForEach
<1>8. CallsForAll(Flattened(weighs), k, es, last)
  BY <1>3, <1>4, <1>5, CallsForEach
<1>9. CallsForAll(Flattened(states), k, es, last)
  BY <1>3, <1>4, <1>5, CallsForEach
<1>10. \A i \in DOMAIN es : Served1(view, k, es[i]) \/ \E c \in Items(Flattened(writes)) : WritesTo(c, k, es[i])
  BY <1>3, <1>7
<1> QED
  BY <1>6, <1>8, <1>9, <1>10 DEF writes, weighs, states

\* All the calls of an update but the removals: what turns the weighted routing
\* off, the entries, what turns it on, weights and states.
AliyunUpdateWrites(set, y, es, route) ==
  LET now == Aliyun!RouteOf(set)
      moved == set.name # y.name \/ set.type # y.type \/ now.line # route.line
  IN  (IF now.weighted /\ (~route.weighted \/ moved) THEN Aliyun!Balance(set, now.line, FALSE) ELSE <<>>)
      \o Flattened(AliyunWrites(set, y, route, es))
      \o (IF route.weighted /\ (~now.weighted \/ moved) THEN Aliyun!Balance(y, route.line, TRUE) ELSE <<>>)
      \o (IF route.weighted THEN Flattened(AliyunReweighs(set, es)) ELSE <<>>)
      \o Flattened(AliyunSwitches(set, route, es))

LEMMA AliyunUpdateCalls ==
  ASSUME NEW set, NEW y, NEW es, NEW route
  PROVE  Joins(Aliyun!UpdateCalls(set, y, es, route), AliyunUpdateWrites(set, y, es, route), RemovalsOf(set, es))
  BY SameFlatten, SameRemovals DEF Joins, Aliyun!UpdateCalls, AliyunUpdateWrites, Aliyun!ForEach, AliyunWrites, AliyunReweighs,
     AliyunSwitches, AliyunWritten, AliyunWeighed, AliyunSwitched

LEMMA AliyunUpdateSingle ==
  ASSUME adapter = "aliyun", issued \in Nat, NEW x, NEW y, NEW es, request.id \subseteq 1..issued,
         Wanted(x, y, es, request.id), NEW route, HasLine(route), NEW last, last = LastID(x.entries),
         NEW k, k = AliyunTarget(y, route), NEW view, NEW set, NEW m, AliyunLists(set, view, m),
         NEW w, w = AliyunUpdateWrites(set, y, es, route)
  PROVE  /\ CallsForAll(w, k, es, last)
         /\ \A i \in DOMAIN es : Served1(view, k, es[i]) \/ \E c \in Items(w) : WritesTo(c, k, es[i])
<1> DEFINE now == Aliyun!RouteOf(set)
           moved == set.name # y.name \/ set.type # y.type \/ now.line # route.line
           off == Aliyun!Balance(set, now.line, FALSE)
           on == Aliyun!Balance(y, route.line, TRUE)
           W == Flattened(AliyunWrites(set, y, route, es))
           weighs == Flattened(AliyunReweighs(set, es))
           S == Flattened(AliyunSwitches(set, route, es))
           A == IF now.weighted /\ (~route.weighted \/ moved) THEN off ELSE <<>>
           B == IF route.weighted /\ (~now.weighted \/ moved) THEN on ELSE <<>>
           C == IF route.weighted THEN weighs ELSE <<>>
           AW == A \o W
           AWB == AW \o B
           AWBC == AWB \o C
<1>1. Joins(w, AWBC, S) /\ Joins(AWBC, AWB, C) /\ Joins(AWB, AW, B) /\ Joins(AW, A, W)
  BY DEF Joins, AliyunUpdateWrites
<1>2. /\ CallsForAll(W, k, es, last) /\ CallsForAll(weighs, k, es, last) /\ CallsForAll(S, k, es, last)
      /\ \A i \in DOMAIN es : Served1(view, k, es[i]) \/ \E c \in Items(W) : WritesTo(c, k, es[i])
  BY AliyunUpdateEach
<1>3. CallsForAll(on, k, es, last) /\ CallsForAll(off, k, es, last)
  <2>1. 1 \in DOMAIN es
    BY WantedFacts
  <2>2. CallsFor(on, k, es[1], last) /\ CallsFor(off, k, es[1], last)
    BY AliyunQuiet
  <2> HIDE DEF on, off
  <2> QED BY <2>1, <2>2, CallsForOne
<1>4. CallsForAll(<<>>, k, es, last)
  BY CallsForNone
<1>5. A \in {off, <<>>} /\ B \in {on, <<>>} /\ C \in {weighs, <<>>}
  OBVIOUS
<1> HIDE DEF AWBC, AWB, AW, A, B, C, on, off, W, weighs, S
<1>6. CallsForAll(A, k, es, last) /\ CallsForAll(B, k, es, last) /\ CallsForAll(C, k, es, last)
  BY <1>2, <1>3, <1>4, <1>5
<1>7. CallsForAll(AW, k, es, last) /\ \A c : c \in Items(W) => c \in Items(AW)
  BY <1>1, <1>2, <1>6, CallsForConcat
<1>8. CallsForAll(AWB, k, es, last) /\ \A c : c \in Items(AW) => c \in Items(AWB)
  BY <1>1, <1>7, <1>6, CallsForConcat
<1>9. CallsForAll(AWBC, k, es, last) /\ \A c : c \in Items(AWB) => c \in Items(AWBC)
  BY <1>1, <1>8, <1>6, CallsForConcat
<1>10. CallsForAll(w, k, es, last) /\ \A c : c \in Items(AWBC) => c \in Items(w)
  BY <1>1, <1>9, <1>2, CallsForConcat
<1>11. \A c : c \in Items(W) => c \in Items(w)
  BY <1>7, <1>8, <1>9, <1>10
<1>12. \A i \in DOMAIN es : Served1(view, k, es[i]) \/ \E c \in Items(w) : WritesTo(c, k, es[i])
  BY <1>2, <1>11
<1> QED
  BY <1>10, <1>12

LEMMA UpdateWanted ==
  ASSUME issued \in Nat, NEW x, InputOK(x), NEW view, ViewOK(view), NEW set, NEW m, Lists(set, view, m),
         request.id = set.id, ~ P!Repeats(x), P!Strays(x, set) = {}
  PROVE  /\ request.id \subseteq 1..issued
         /\ Wanted(x, P!Normalized(x), P!WithIDs(P!Normalized(x).entries, issued), request.id)
<1>1. P!EntryIDs(set) = request.id /\ request.id \subseteq DOMAIN view
  BY ListedIDs
<1>2. request.id \subseteq 1..issued
  BY <1>1 DEF ViewOK
<1>3. IDsOK(x.entries, request.id)
  BY <1>1, InputIDs
<1> QED
  BY <1>2, <1>3, WantedOK

LEMMA AliyunUpdateSame ==
  ASSUME NEW x, NEW set, NEW sets, NEW y, y = P!Normalized(x), NEW es, es = P!WithIDs(y.entries, issued),
         NEW route, route = Aliyun!WantedRoute(y, Aliyun!RouteOf(set)),
         NEW p, p = Aliyun!UpdatePlan(x, set, sets, issued), Allowed(p)
  PROVE  /\ ~ Aliyun!Objection(y, Aliyun!RouteOf(set)) /\ ~ P!Repeats(x) /\ P!Strays(x, set) = {}
         /\ p = P!Mutate(Aliyun!UpdateCalls(set, y, es, route), Aliyun!Finalized(es, route), Aliyun!KeyFor(y, route),
                         route.status, {})
<1> DEFINE z == Aliyun!Normalized(x)
           fs == Aliyun!WithIDs(z.entries, issued)
           r == Aliyun!WantedRoute(z, Aliyun!RouteOf(set))
           key == Aliyun!KeyFor(z, r)
           q == Aliyun!Mutate(Aliyun!UpdateCalls(set, z, fs, r), Aliyun!Finalized(fs, r), key, r.status, {})
           objection == Aliyun!Objection(z, Aliyun!RouteOf(set))
           repeats == Aliyun!Repeats(x)
           strays == Aliyun!Strays(x, set)
           bad == ~ Aliyun!Normalizable(x) \/ objection \/ repeats
           taken == Aliyun!Merges(set, sets, key) \/ strays # {}
<1>1. ~ Allowed(Aliyun!Refuse("validation")) /\ ~ Allowed(Aliyun!Refuse("conflict"))
  BY DEF Aliyun!Refuse, Allowed
<1>2. p = IF bad THEN Aliyun!Refuse("validation") ELSE IF taken THEN Aliyun!Refuse("conflict") ELSE q
  BY DEF Aliyun!UpdatePlan
<1>3. (bad \/ (~ objection /\ ~ repeats)) /\ (taken \/ strays = {})
  OBVIOUS
<1>4. q = P!Mutate(Aliyun!UpdateCalls(set, z, fs, r), Aliyun!Finalized(fs, r), key, r.status, {})
  BY SameMutate
<1>5. z = y /\ fs = es /\ r = route
  BY SameRequest, SameIDs
<1>6. repeats = P!Repeats(x) /\ strays = P!Strays(x, set)
  BY SameRequest, Zenon
<1> HIDE DEF bad, taken, q
<1>7. ~ bad /\ ~ taken /\ p = q
  BY <1>1, <1>2
<1>8. objection <=> Aliyun!Objection(y, Aliyun!RouteOf(set))
  BY <1>5
<1> HIDE DEF z, fs, r, objection, repeats, strays
<1>9. ~ objection /\ ~ repeats /\ strays = {}
  BY <1>3, <1>7
<1>10. ~ P!Repeats(x)
  BY <1>6, <1>9, Zenon
<1> QED
  BY <1>4, <1>5, <1>6, <1>7, <1>8, <1>9, <1>10

LEMMA AliyunUpdate ==
  ASSUME adapter = "aliyun", issued \in Nat, NEW x, NEW y, NEW es, request.id \subseteq 1..issued,
         Wanted(x, y, es, request.id),
         NEW view, NEW set, SetOK(set), NEW m, AliyunLists(set, view, m), request.id = set.id,
         NEW route, HasLine(route), NEW status, NEW gone, NEW p,
         p = P!Mutate(Aliyun!UpdateCalls(set, y, es, route), Aliyun!Finalized(es, route), Aliyun!KeyFor(y, route),
                      status, gone)
  PROVE  SinglePlan(p, view)
<1> DEFINE last == LastID(x.entries)
           k == AliyunTarget(y, route)
           w == AliyunUpdateWrites(set, y, es, route)
           d == RemovalsOf(set, es)
           calls == Aliyun!UpdateCalls(set, y, es, route)
           goal == Aliyun!Finalized(es, route)
           key == Aliyun!KeyFor(y, route)
<1>1. P!EntryIDs(set) = request.id
  BY ListedIDs DEF AliyunLists
<1>2. CallsForAll(w, k, es, last) /\ \A i \in DOMAIN es : Served1(view, k, es[i]) \/ \E c \in Items(w) : WritesTo(c, k, es[i])
  BY AliyunUpdateSingle
<1>3. Joins(calls, w, d)
  BY AliyunUpdateCalls
<1>4. SameEntries(goal, es)
  BY WantedFacts, AliyunFinalized
<1>5. p = P!Mutate(calls, goal, key, status, gone)
  OBVIOUS
<1> HIDE DEF calls, w, goal, key
<1>6. p.key = key
  BY <1>5, PlanFields
<1>7. GoalKey(p) = k
  BY <1>6, AliyunGoalKey DEF key
<1> HIDE DEF last, k
<1>8. SingleCalls(calls, view, k, es, last, w, d)
  BY <1>1, <1>2, <1>3, WithRemovals DEF Served1
<1> HIDE DEF d
<1> QED
  BY <1>4, <1>5, <1>7, <1>8, MadePlan DEF last

\* The plan of a deletion has nothing but removals.
LEMMA DeleteSingle ==
  ASSUME issued \in Nat, NEW view, NEW set, SetOK(set), P!EntryIDs(set) = request.id,
         NEW calls, calls = RemovalsOf(set, <<>>),
         NEW key, NEW status, NEW gone, NEW p, p = P!Mutate(calls, <<>>, key, status, gone)
  PROVE  SinglePlan(p, view)
<1> DEFINE es == <<>>
           k == GoalKey(p)
           last == LastID(es)
<1>1. CallsForAll(es, k, es, last) /\ DOMAIN es = {} /\ IsSeq(es)
  BY CallsForNone, EmptyIsSeq
<1>2. IsSeq(calls)
  BY RemovalsOK
<1>3. Joins(calls, es, RemovalsOf(set, es))
  BY <1>2, ConcatEmpty DEF Joins
<1>4. p = P!Mutate(calls, es, key, status, gone)
  OBVIOUS
<1> HIDE DEF es, k, last
<1>5. SingleCalls(calls, view, k, es, last, es, RemovalsOf(set, es))
  BY <1>1, <1>3, WithRemovals
<1>6. PlanShape(p)
  BY <1>1, <1>2, <1>4, MutateShape
<1>7. p.calls = calls /\ p.goal = es
  BY <1>4, PlanFields
<1>8. SingleCalls(p.calls, view, GoalKey(p), p.goal, LastID(p.goal), es, RemovalsOf(set, es))
  BY <1>5, <1>7 DEF k, last
<1>9. DOMAIN p.goal = {}
  BY <1>1, <1>7
<1> QED
  BY <1>6, <1>8, <1>9 DEF SinglePlan

LEMMA AliyunDelete ==
  ASSUME adapter = "aliyun", issued \in Nat, NEW view, NEW set, SetOK(set), NEW m, AliyunLists(set, view, m),
         request.id = set.id, NEW p, p = Aliyun!DeletePlan(set)
  PROVE  SinglePlan(p, view)
<1>1. P!EntryIDs(set) = request.id
  BY ListedIDs DEF AliyunLists
<1> DEFINE calls == Aliyun!Removals(set, <<>>)
           key == Aliyun!KeyOfSet(set)
           gone == Aliyun!EntryIDs(set)
<1>2. p = Aliyun!Mutate(calls, <<>>, key, "", gone)
  BY DEF Aliyun!DeletePlan
<1>3. calls = RemovalsOf(set, <<>>)
  BY SameRemovals
<1> HIDE DEF calls, key, gone
<1>4. p = P!Mutate(calls, <<>>, key, "", gone)
  BY <1>2, SameMutate
<1> QED
  BY <1>1, <1>3, <1>4, DeleteSingle


---------------------------------------------------------------------------
(* The plans of Tencent Cloud. *)

TencentTarget(input, route) == [name |-> input.name, type |-> input.type, ttl |-> input.ttl, line |-> route.line]

\* The fields Modify writes in any case.
TencentFields(input, route, e, status) ==
  [name |-> input.name, type |-> input.type, ttl |-> input.ttl, line |-> route.line, status |-> status,
   weight |-> Tencent!WeightOf(e), text |-> Tencent!Wire(input.type, e.text), num |-> e.num]

LEMMA TencentModified ==
  ASSUME NEW input, NEW route, NEW e, NEW status, NEW v,
         v = IF e.ext = None THEN TencentFields(input, route, e, status)
             ELSE Tencent!WithField(TencentFields(input, route, e, status), "remark", e.ext.remark)
  PROVE  /\ v.name = input.name /\ v.type = input.type /\ v.ttl = input.ttl /\ v.line = route.line
         /\ v.text = Tencent!Wire(input.type, e.text) /\ v.num = e.num
         /\ {"name", "type", "ttl", "line", "text", "num"} \subseteq DOMAIN v
<1> DEFINE f == TencentFields(input, route, e, status)
           g == Tencent!WithField(f, "remark", e.ext.remark)
<1>1. /\ f.name = input.name /\ f.type = input.type /\ f.ttl = input.ttl /\ f.line = route.line
      /\ f.text = Tencent!Wire(input.type, e.text) /\ f.num = e.num
      /\ DOMAIN f = {"name", "type", "ttl", "line", "status", "weight", "text", "num"}
  BY DEF TencentFields
<1>2. DOMAIN g = DOMAIN f \cup {"remark"} /\ \A h \in DOMAIN g : g[h] = IF h = "remark" THEN e.ext.remark ELSE f[h]
  BY DEF Tencent!WithField
<1>3. v \in {f, g}
  OBVIOUS
<1> HIDE DEF f, g
<1>4. /\ g.name = input.name /\ g.type = input.type /\ g.ttl = input.ttl /\ g.line = route.line
      /\ g.text = Tencent!Wire(input.type, e.text) /\ g.num = e.num
      /\ {"name", "type", "ttl", "line", "text", "num"} \subseteq DOMAIN g
  BY <1>1, <1>2
<1> QED
  BY <1>1, <1>3, <1>4

LEMMA TencentWrite ==
  ASSUME adapter = "tencent", NEW input, NEW route, NEW e, NEW status,
         input.type \in {"CNAME", "NS"} => e.num = None, NEW last, e.id \in 1..last
  PROVE  LET k == TencentTarget(input, route) IN
         /\ CallsFor(Tencent!Add(input, route, e, status), k, e, last)
         /\ \E c \in Items(Tencent!Add(input, route, e, status)) : WritesTo(c, k, e)
         /\ CallsFor(Tencent!Modify(input, route, e, status), k, e, last)
         /\ \E c \in Items(Tencent!Modify(input, route, e, status)) : WritesTo(c, k, e)
<1> DEFINE k == TencentTarget(input, route)
           text == Tencent!Wire(input.type, e.text)
           w == [name |-> input.name, type |-> input.type, ttl |-> input.ttl, line |-> route.line,
                 status |-> status, weight |-> Tencent!WeightOf(e), system |-> FALSE,
                 remark |-> IF e.ext = None THEN "" ELSE e.ext.remark, text |-> text, num |-> e.num]
           v == IF e.ext = None THEN TencentFields(input, route, e, status)
                ELSE Tencent!WithField(TencentFields(input, route, e, status), "remark", e.ext.remark)
           c == [op |-> "add", id |-> e.id, with |-> w]
           d == [op |-> "set", id |-> e.id, with |-> v]
<1>1. Tencent!Add(input, route, e, status) = <<c>> /\ Tencent!Modify(input, route, e, status) = <<d>>
  BY DEF Tencent!Add, Tencent!Modify, TencentFields
<1>2. text.word = e.text.word
  BY DEF Tencent!Wire, Tencent!Quoted
<1>3. /\ v.name = input.name /\ v.type = input.type /\ v.ttl = input.ttl /\ v.line = route.line
      /\ v.text = text /\ v.num = e.num
      /\ {"name", "type", "ttl", "line", "text", "num"} \subseteq DOMAIN v
  BY TencentModified
<1>4. /\ w.name = input.name /\ w.type = input.type /\ w.ttl = input.ttl /\ w.line = route.line
      /\ w.text = text /\ w.num = e.num /\ DOMAIN w = RecordFields.tencent
  BY DEF RecordFields
<1>5. /\ c.op = "add" /\ c.id = e.id /\ c.with = w /\ c = [op |-> c.op, id |-> c.id, with |-> c.with]
      /\ d.op = "set" /\ d.id = e.id /\ d.with = v /\ d = [op |-> d.op, id |-> d.id, with |-> d.with]
  OBVIOUS
<1> HIDE DEF c, d, w, v, text
<1>6. Serves(w) = Target(k, e) /\ Serves(v) = Target(k, e)
  BY <1>2, <1>3, <1>4, TencentServes DEF TencentTarget, Target
<1> HIDE DEF k
<1>7. RecordOK("tencent", w)
  BY <1>4 DEF RecordOK
<1>8. CallOK(c, last) /\ CallOK(d, last)
  BY <1>3, <1>5, <1>7 DEF CallOK
<1>9. Serving \subseteq DOMAIN w /\ Serving \subseteq DOMAIN v
  BY <1>3, <1>4 DEF Serving, RecordFields
<1>10. WritesTo(c, k, e) /\ WritesTo(d, k, e)
  BY <1>5, <1>6, <1>9 DEF WritesTo
<1> DEFINE a == <<c>>
           b == <<d>>
<1>11. Items(a) = {c} /\ Items(b) = {d} /\ CallsFor(a, k, e, last) /\ CallsFor(b, k, e, last)
  BY <1>8, <1>10, CallsForParts, SingletonIsSeq
<1>12. Tencent!Add(input, route, e, status) = a /\ Tencent!Modify(input, route, e, status) = b
  BY <1>1
<1> HIDE DEF a, b
<1> QED
  BY <1>10, <1>11, <1>12 DEF k

LEMMA TencentKept ==
  ASSUME adapter = "tencent", NEW view, NEW set, NEW m, TencentLists(set, view, m), NEW input, NEW route, NEW e,
         NEW status, e.id \in set.id, ~ Tencent!NeedsUpdate(set, input, route, e, status)
  PROVE  e.id \in DOMAIN view /\ Serves(view[e.id]) = Target(TencentTarget(input, route), e)
<1>1. Lists(set, view, m)
  BY DEF TencentLists
<1>2. PICK i \in DOMAIN m : m[i] = e.id /\ P!EntryWith(set, e.id) = set.entries[i]
  BY <1>1, ListedIDs
<1> DEFINE was == set.entries[i]
           r == view[m[i]]
<1>3. /\ was.text.word = r.text.word /\ was.num = r.num /\ set.name = r.name /\ set.type = r.type
      /\ m[i] \in DOMAIN view
  BY <1>1 DEF Lists, Items
<1>4. set.ttl = Tencent!RecordKey(r).ttl
  BY DEF TencentLists
<1>5. set.entries[1].ext.line = r.line
  <2>1. 1 \in DOMAIN m
    BY <1>1, SeqFacts DEF Lists
  <2>2. set.entries[1].ext = Tencent!EntryOf(m[1], view[m[1]]).ext
    BY <2>1 DEF TencentLists
  <2>3. Tencent!RecordKey(view[m[1]]) = Tencent!RecordKey(r)
    BY <2>1 DEF TencentLists
  <2> DEFINE s == view[m[1]]
  <2> HIDE DEF r, s
  <2>4. Tencent!RecordKey(s).line = s.line /\ Tencent!RecordKey(r).line = r.line
    BY DEF Tencent!RecordKey
  <2>5. Tencent!EntryOf(m[1], s).ext.line = s.line
    BY DEF Tencent!EntryOf
  <2> QED BY <2>2, <2>3, <2>4, <2>5 DEF s
<1>6. Tencent!EntryWith(set, e.id) = was
  BY <1>2, SameIDs
<1>7. /\ set.name = input.name /\ set.type = input.type /\ set.ttl = input.ttl
      /\ Tencent!RouteOf(set).line = route.line
      /\ Tencent!Wire(set.type, was.text) = Tencent!Wire(input.type, e.text) /\ was.num = e.num
  BY <1>6 DEF Tencent!NeedsUpdate
<1>8. was.text.word = e.text.word
  <2>1. \A t, a : Tencent!Wire(t, a).word = a.word
    BY DEF Tencent!Wire, Tencent!Quoted
  <2> QED BY <2>1, <1>7
<1>9. Tencent!RouteOf(set).line = set.entries[1].ext.line
  BY DEF Tencent!RouteOf
<1>10. Tencent!RecordKey(r).ttl = r.ttl
  BY DEF Tencent!RecordKey
<1> HIDE DEF was, r
<1>11. Serves(r) = Target([name |-> r.name, type |-> r.type, ttl |-> r.ttl, line |-> r.line], r)
  BY TencentServes
<1>12. /\ r.name = input.name /\ r.type = input.type /\ r.ttl = input.ttl /\ r.line = route.line
       /\ r.text.word = e.text.word /\ r.num = e.num
  BY <1>3, <1>4, <1>5, <1>7, <1>8, <1>9, <1>10
<1>13. Serves(r) = Target(TencentTarget(input, route), e)
  BY <1>11, <1>12 DEF Target, TencentTarget
<1> QED
  BY <1>2, <1>3, <1>13 DEF r

\* The calls for each of the entries: all of them are there already, or written.
LEMMA EachWritten ==
  ASSUME NEW k, NEW es, IsSeq(es), NEW last, NEW view, NEW ss, ss = [i \in DOMAIN es |-> ss[i]],
         \A i \in DOMAIN es :
            /\ CallsFor(ss[i], k, es[i], last)
            /\ Served1(view, k, es[i]) \/ \E c \in Items(ss[i]) : WritesTo(c, k, es[i]),
         NEW w, w = Flattened(ss)
  PROVE  /\ CallsForAll(w, k, es, last)
         /\ \A i \in DOMAIN es : Served1(view, k, es[i]) \/ \E c \in Items(w) : WritesTo(c, k, es[i])
<1>1. CallsForAll(w, k, es, last) /\ \A i \in DOMAIN es : Items(ss[i]) \subseteq Items(w)
  BY CallsForEach
<1> QED
  BY <1>1

\* Such calls alone, for a creation.
LEMMA WithoutRemovals ==
  ASSUME NEW es, NEW last, NEW k, NEW view, NEW w, request.id = {}, CallsForAll(w, k, es, last),
         \A i \in DOMAIN es : Served1(view, k, es[i]) \/ \E c \in Items(w) : WritesTo(c, k, es[i])
  PROVE  SingleCalls(w, view, k, es, last, w, <<>>)
<1>1. w = w \o <<>>
  BY ConcatEmpty DEF CallsForAll
<1> QED
  BY <1>1, EmptyIsSeq DEF SingleCalls, Served1

\* What an update or a creation of Tencent Cloud does for an entry.
TencentWritten(set, y, route, e) ==
  LET status == Tencent!StatusFor(set, route, e)
  IN  IF e.id \notin Tencent!EntryIDs(set) THEN Tencent!Add(y, route, e, status)
      ELSE IF Tencent!NeedsUpdate(set, y, route, e, status) THEN Tencent!Modify(y, route, e, status)
      ELSE <<>>
TencentAdded(y, route, e) == Tencent!Add(y, route, e, Tencent!EffectiveStatus(e, route, ""))

LEMMA TencentWrittenOK ==
  ASSUME adapter = "tencent", NEW view, NEW set, NEW m, TencentLists(set, view, m), NEW y, NEW route,
         NEW e, y.type \in {"CNAME", "NS"} => e.num = None, NEW last, e.id \in 1..last,
         NEW k, k = TencentTarget(y, route), NEW s, s = TencentWritten(set, y, route, e)
  PROVE  /\ CallsFor(s, k, e, last)
         /\ Served1(view, k, e) \/ \E c \in Items(s) : WritesTo(c, k, e)
<1> DEFINE status == Tencent!StatusFor(set, route, e)
           add == Tencent!Add(y, route, e, status)
           modify == Tencent!Modify(y, route, e, status)
           new == e.id \notin Tencent!EntryIDs(set)
           needs == Tencent!NeedsUpdate(set, y, route, e, status)
<1>1. s = IF new THEN add ELSE IF needs THEN modify ELSE <<>>
  BY DEF TencentWritten
<1>2. CallsFor(add, k, e, last) /\ CallsFor(modify, k, e, last)
  BY TencentWrite
<1>3. (\E c \in Items(add) : WritesTo(c, k, e)) /\ \E c \in Items(modify) : WritesTo(c, k, e)
  BY TencentWrite
<1>4. ~ new /\ ~ needs => Served1(view, k, e)
  <2>1. Lists(set, view, m)
    BY DEF TencentLists
  <2>2. ~ new => e.id \in set.id
    BY <2>1, ListedIDs, SameRequest
  <2> QED BY <2>2, TencentKept DEF Served1
<1>5. CallsFor(<<>>, k, e, last)
  BY CallsForParts
<1> HIDE DEF add, modify, new, needs, status
<1> QED
  BY <1>1, <1>2, <1>3, <1>4, <1>5

TencentWrites(set, y, route, es) == [i \in DOMAIN es |-> TencentWritten(set, y, route, es[i])]
TencentAdds(y, route, es) == [i \in DOMAIN es |-> TencentAdded(y, route, es[i])]

LEMMA TencentUpdateEach ==
  ASSUME adapter = "tencent", issued \in Nat, NEW x, NEW y, NEW es, request.id \subseteq 1..issued,
         Wanted(x, y, es, request.id), NEW route, NEW last, last = LastID(x.entries),
         NEW k, k = TencentTarget(y, route), NEW view, NEW set, NEW m, TencentLists(set, view, m),
         NEW w, w = Flattened(TencentWrites(set, y, route, es))
  PROVE  /\ CallsForAll(w, k, es, last)
         /\ \A i \in DOMAIN es : Served1(view, k, es[i]) \/ \E c \in Items(w) : WritesTo(c, k, es[i])
<1> DEFINE writes == TencentWrites(set, y, route, es)
<1>1. \A i \in DOMAIN es : es[i].id \in 1..last /\ (y.type \in {"CNAME", "NS"} => es[i].num = None)
  BY WantedRange
<1>2. ASSUME NEW i \in DOMAIN es
      PROVE  /\ CallsFor(writes[i], k, es[i], last)
             /\ Served1(view, k, es[i]) \/ \E c \in Items(writes[i]) : WritesTo(c, k, es[i])
  <2> DEFINE e == es[i]
  <2>1. e.id \in 1..last /\ (y.type \in {"CNAME", "NS"} => e.num = None)
    BY <1>1
  <2>2. writes[i] = TencentWritten(set, y, route, e)
    BY DEF TencentWrites
  <2> HIDE DEF e, writes
  <2>3. CallsFor(writes[i], k, e, last) /\ (Served1(view, k, e) \/ \E c \in Items(writes[i]) : WritesTo(c, k, e))
    BY <2>1, <2>2, TencentWrittenOK
  <2> QED BY <2>3 DEF e
<1>3. writes = [i \in DOMAIN es |-> writes[i]]
  BY DEF TencentWrites
<1>4. IsSeq(es)
  BY WantedFacts
<1> HIDE DEF writes
<1> QED
  BY <1>2, <1>3, <1>4, EachWritten DEF writes

LEMMA TencentCreateEach ==
  ASSUME adapter = "tencent", issued \in Nat, NEW x, NEW y, NEW es, request.id = {},
         Wanted(x, y, es, request.id), NEW route, NEW last, last = LastID(x.entries),
         NEW k, k = TencentTarget(y, route), NEW view, NEW w, w = Flattened(TencentAdds(y, route, es))
  PROVE  SingleCalls(w, view, k, es, last, w, <<>>)
<1> DEFINE adds == TencentAdds(y, route, es)
<1>5. request.id \subseteq 1..issued
  OBVIOUS
<1>1. \A i \in DOMAIN es : es[i].id \in 1..last /\ (y.type \in {"CNAME", "NS"} => es[i].num = None)
  BY <1>5, WantedRange
<1>2. ASSUME NEW i \in DOMAIN es
      PROVE  CallsFor(adds[i], k, es[i], last) /\ \E c \in Items(adds[i]) : WritesTo(c, k, es[i])
  <2> DEFINE e == es[i]
             status == Tencent!EffectiveStatus(e, route, "")
             add == Tencent!Add(y, route, e, status)
  <2>1. e.id \in 1..last /\ (y.type \in {"CNAME", "NS"} => e.num = None)
    BY <1>1
  <2>2. adds[i] = add
    BY DEF TencentAdds, TencentAdded
  <2> HIDE DEF e, adds, status
  <2>3. CallsFor(add, k, e, last) /\ \E c \in Items(add) : WritesTo(c, k, e)
    BY <2>1, TencentWrite
  <2> HIDE DEF add
  <2> QED BY <2>2, <2>3 DEF e
<1>3. adds = [i \in DOMAIN es |-> adds[i]]
  BY DEF TencentAdds
<1>4. IsSeq(es)
  BY WantedFacts
<1> HIDE DEF adds
<1>6. /\ CallsForAll(w, k, es, last)
      /\ \A i \in DOMAIN es : Served1(view, k, es[i]) \/ \E c \in Items(w) : WritesTo(c, k, es[i])
  BY <1>2, <1>3, <1>4, EachWritten DEF adds
<1> QED
  BY <1>6, WithoutRemovals

\* What the last read must show of an entry.
TencentFinal(set, e, route) ==
  [line |-> route.line, status |-> Tencent!StatusFor(set, route, e), weight |-> Tencent!WeightOf(e),
   remark |-> IF e.ext = None THEN "" ELSE e.ext.remark]

LEMMA TencentExpected ==
  ASSUME NEW type, NEW es, EntriesOK(type, es), NEW route, NEW set
  PROVE  LET goal == Tencent!Expected(set, es, route) IN
         /\ SameEntries(goal, es)
         /\ \A i \in DOMAIN es : goal[i].ext = TencentFinal(set, es[i], route)
<1> DEFINE goal == Tencent!Expected(set, es, route)
<1>1. DOMAIN es = 1..Len(es) /\ Len(es) \in Nat
  BY SeqFacts DEF EntriesOK
<1>2. goal = [i \in DOMAIN es |-> [es[i] EXCEPT !.ext = TencentFinal(set, es[i], route)]]
  BY DEF Tencent!Expected, TencentFinal
<1> HIDE DEF goal
<1>3. goal = [i \in 1..Len(es) |-> goal[i]]
  BY <1>1, <1>2
<1>4. IsSeq(goal) /\ Len(goal) = Len(es) /\ DOMAIN goal = DOMAIN es
  BY <1>1, <1>3, FunctionIsSeq
<1>5. ASSUME NEW i \in DOMAIN es
      PROVE  /\ goal[i].id = es[i].id /\ goal[i].text = es[i].text /\ goal[i].num = es[i].num
             /\ goal[i].ext = TencentFinal(set, es[i], route)
  <2> DEFINE e == es[i]
             f == TencentFinal(set, e, route)
  <2>1. EntryOK(e)
    BY DEF EntriesOK
  <2>2. goal[i] = [e EXCEPT !.ext = f]
    BY <1>2
  <2> HIDE DEF e, f
  <2>3. [e EXCEPT !.ext = f] = [id |-> e.id, text |-> e.text, num |-> e.num, ext |-> f]
    BY <2>1, EntryWritten
  <2>4. /\ goal[i].id = e.id /\ goal[i].text = e.text /\ goal[i].num = e.num /\ goal[i].ext = f
    BY <2>2, <2>3
  <2> QED BY <2>4 DEF e, f
<1> QED
  BY <1>4, <1>5 DEF SameEntries, goal

LEMMA TencentGoalKey ==
  ASSUME adapter = "tencent", NEW p, NEW y, NEW route, p.key = Tencent!KeyFor(y, route)
  PROVE  GoalKey(p) = TencentTarget(y, route)
  BY DEF GoalKey, Tencent!KeyFor, TencentTarget

TencentNoRoute == [line |-> "", status |-> ""]
TencentNoSet(y) == [y EXCEPT !.entries = <<>>]

LEMMA TencentCreateSame ==
  ASSUME NEW x, NEW sets, NEW y, y = P!Normalized(x), NEW es, es = P!WithIDs(y.entries, issued),
         NEW route, route = Tencent!WantedRoute(y, TencentNoRoute), NEW p, p = Tencent!CreatePlan(x, sets, issued),
         Allowed(p)
  PROVE  /\ ~ Tencent!Objection(y, TencentNoRoute)
         /\ p = P!Mutate(Flattened(TencentAdds(y, route, es)), Tencent!Expected(TencentNoSet(y), es, route),
                         Tencent!KeyFor(y, route), NoStatus, {})
<1> DEFINE z == Tencent!Normalized(x)
           fs == Tencent!WithIDs(z.entries, issued)
           r == Tencent!WantedRoute(z, TencentNoRoute)
           key == Tencent!KeyFor(z, r)
           q == Tencent!Mutate(Flattened(TencentAdds(z, r, fs)), Tencent!Expected(TencentNoSet(z), fs, r), key, "", {})
           bad == ~ Tencent!Normalizable(x) \/ Tencent!Objection(z, TencentNoRoute)
           taken == \E set \in sets : Tencent!KeyOfSet(set) = key
<1>1. ~ Allowed(Tencent!Refuse("validation")) /\ ~ Allowed(Tencent!Refuse("conflict"))
  BY DEF Tencent!Refuse, Allowed
<1>2. p = IF bad THEN Tencent!Refuse("validation") ELSE IF taken THEN Tencent!Refuse("conflict") ELSE q
  BY SameFlatten DEF Tencent!CreatePlan, Tencent!ForEach, TencentAdds, TencentAdded, TencentNoRoute, TencentNoSet
<1>3. bad \/ ~ Tencent!Objection(z, TencentNoRoute)
  OBVIOUS
<1>4. q = P!Mutate(Flattened(TencentAdds(z, r, fs)), Tencent!Expected(TencentNoSet(z), fs, r), key, "", {})
  BY SameMutate
<1>5. z = y /\ fs = es /\ r = route
  BY SameRequest, SameIDs
<1> HIDE DEF bad, taken, q
<1>6. ~ bad /\ p = q
  BY <1>1, <1>2
<1> HIDE DEF z, fs, r
<1> QED
  BY <1>3, <1>4, <1>5, <1>6 DEF NoStatus

LEMMA TencentCreate ==
  ASSUME adapter = "tencent", issued \in Nat, NEW x, CreateRequest(x), NEW view, NEW status, NEW gone,
         NEW y, y = P!Normalized(x), NEW route, NEW set,
         NEW es, es = P!WithIDs(y.entries, issued), NEW p,
         p = P!Mutate(Flattened(TencentAdds(y, route, es)), Tencent!Expected(set, es, route), Tencent!KeyFor(y, route),
                      status, gone)
  PROVE  SinglePlan(p, view)
<1>1. Wanted(x, y, es, request.id) /\ request.id = {}
  BY CreateWanted DEF CreateRequest
<1> DEFINE last == LastID(x.entries)
           k == TencentTarget(y, route)
           w == Flattened(TencentAdds(y, route, es))
           goal == Tencent!Expected(set, es, route)
           key == Tencent!KeyFor(y, route)
<1>3. SingleCalls(w, view, k, es, last, w, <<>>)
  BY <1>1, TencentCreateEach
<1>4. SameEntries(goal, es)
  BY <1>1, WantedFacts, TencentExpected
<1>5. p = P!Mutate(w, goal, key, status, gone)
  OBVIOUS
<1> HIDE DEF w, goal, key
<1>6. p.key = key
  BY <1>5, PlanFields
<1>7. GoalKey(p) = k
  BY <1>6, TencentGoalKey DEF key
<1> HIDE DEF last, k
<1> QED
  BY <1>1, <1>3, <1>4, <1>5, <1>7, MadePlan DEF last

\* The IDs the last read must no longer show.
TencentGone(x, set) == P!EntryIDs(set) \ P!WantedIDs(x)

LEMMA TencentUpdateSame ==
  ASSUME NEW x, NEW set, NEW sets, NEW y, y = P!Normalized(x), NEW es, es = P!WithIDs(y.entries, issued),
         NEW route, route = Tencent!WantedRoute(y, Tencent!RouteOf(set)),
         NEW p, p = Tencent!UpdatePlan(x, set, sets, issued), Allowed(p)
  PROVE  /\ ~ Tencent!Objection(y, Tencent!RouteOf(set)) /\ ~ P!Repeats(x) /\ P!Strays(x, set) = {}
         /\ p = P!Mutate(Tencent!UpdateCalls(set, y, es, route), Tencent!Expected(set, es, route),
                         Tencent!KeyFor(y, route), NoStatus, TencentGone(x, set))
<1> DEFINE z == Tencent!Normalized(x)
           fs == Tencent!WithIDs(z.entries, issued)
           r == Tencent!WantedRoute(z, Tencent!RouteOf(set))
           key == Tencent!KeyFor(z, r)
           gone == Tencent!EntryIDs(set) \ Tencent!WantedIDs(x)
           q == Tencent!Mutate(Tencent!UpdateCalls(set, z, fs, r), Tencent!Expected(set, fs, r), key, "", gone)
           objection == Tencent!Objection(z, Tencent!RouteOf(set))
           repeats == Tencent!Repeats(x)
           strays == Tencent!Strays(x, set)
           default == Tencent!IsDefault(set)
           bad == ~ Tencent!Normalizable(x) \/ objection \/ repeats
           taken == Tencent!Merges(set, sets, key) \/ strays # {}
<1>1. /\ ~ Allowed(Tencent!Refuse("validation")) /\ ~ Allowed(Tencent!Refuse("conflict"))
      /\ ~ Allowed(Tencent!Refuse("unsupported"))
  BY DEF Tencent!Refuse, Allowed
<1>2. p = IF default THEN Tencent!Refuse("unsupported")
          ELSE IF bad THEN Tencent!Refuse("validation") ELSE IF taken THEN Tencent!Refuse("conflict") ELSE q
  BY DEF Tencent!UpdatePlan
<1>3. (bad \/ (~ objection /\ ~ repeats)) /\ (taken \/ strays = {})
  OBVIOUS
<1>4. q = P!Mutate(Tencent!UpdateCalls(set, z, fs, r), Tencent!Expected(set, fs, r), key, "", gone)
  BY SameMutate
<1>5. z = y /\ fs = es /\ r = route
  BY SameRequest, SameIDs
<1>6. repeats = P!Repeats(x) /\ strays = P!Strays(x, set) /\ gone = P!EntryIDs(set) \ P!WantedIDs(x)
  BY SameRequest, Zenon
<1> HIDE DEF bad, taken, q, default
<1>7. ~ bad /\ ~ taken /\ p = q
  BY <1>1, <1>2
<1>8. objection <=> Tencent!Objection(y, Tencent!RouteOf(set))
  BY <1>5
<1> HIDE DEF z, fs, r, objection, repeats, strays, gone
<1>9. ~ objection /\ ~ repeats /\ strays = {}
  BY <1>3, <1>7
<1>10. ~ P!Repeats(x)
  BY <1>6, <1>9, Zenon
<1> QED
  BY <1>4, <1>5, <1>6, <1>7, <1>8, <1>9, <1>10 DEF NoStatus, TencentGone

LEMMA TencentUpdateCalls ==
  ASSUME NEW set, NEW y, NEW es, NEW route
  PROVE  Joins(Tencent!UpdateCalls(set, y, es, route), Flattened(TencentWrites(set, y, route, es)), RemovalsOf(set, es))
  BY SameFlatten, SameRemovals DEF Joins, Tencent!UpdateCalls, Tencent!Writes, TencentWrites, Tencent!ForEach, TencentWritten

LEMMA TencentUpdate ==
  ASSUME adapter = "tencent", issued \in Nat, NEW x, NEW y, NEW es, request.id \subseteq 1..issued,
         Wanted(x, y, es, request.id),
         NEW view, NEW set, SetOK(set), NEW m, TencentLists(set, view, m), request.id = set.id,
         NEW route, NEW status, NEW gone, NEW p,
         p = P!Mutate(Tencent!UpdateCalls(set, y, es, route), Tencent!Expected(set, es, route), Tencent!KeyFor(y, route),
                      status, gone)
  PROVE  SinglePlan(p, view)
<1> DEFINE last == LastID(x.entries)
           k == TencentTarget(y, route)
           w == Flattened(TencentWrites(set, y, route, es))
           d == RemovalsOf(set, es)
           calls == Tencent!UpdateCalls(set, y, es, route)
           goal == Tencent!Expected(set, es, route)
           key == Tencent!KeyFor(y, route)
<1>1. P!EntryIDs(set) = request.id
  BY ListedIDs DEF TencentLists
<1>2. CallsForAll(w, k, es, last) /\ \A i \in DOMAIN es : Served1(view, k, es[i]) \/ \E c \in Items(w) : WritesTo(c, k, es[i])
  BY TencentUpdateEach
<1>3. Joins(calls, w, d)
  BY TencentUpdateCalls
<1>4. SameEntries(goal, es)
  BY WantedFacts, TencentExpected
<1>5. p = P!Mutate(calls, goal, key, status, gone)
  OBVIOUS
<1> HIDE DEF calls, w, goal, key
<1>6. p.key = key
  BY <1>5, PlanFields
<1>7. GoalKey(p) = k
  BY <1>6, TencentGoalKey DEF key
<1> HIDE DEF last, k
<1>8. SingleCalls(calls, view, k, es, last, w, d)
  BY <1>1, <1>2, <1>3, WithRemovals DEF Served1
<1> HIDE DEF d
<1> QED
  BY <1>4, <1>5, <1>7, <1>8, MadePlan DEF last

LEMMA TencentDelete ==
  ASSUME adapter = "tencent", issued \in Nat, NEW view, NEW set, SetOK(set), NEW m, TencentLists(set, view, m),
         request.id = set.id, NEW p, p = Tencent!DeletePlan(set), Allowed(p)
  PROVE  SinglePlan(p, view)
<1>1. P!EntryIDs(set) = request.id
  BY ListedIDs DEF TencentLists
<1> DEFINE calls == Tencent!Removals(set, <<>>)
           key == Tencent!KeyOfSet(set)
           gone == Tencent!EntryIDs(set)
           q == Tencent!Mutate(calls, <<>>, key, "", gone)
           default == Tencent!IsDefault(set)
<1>2. p = IF default THEN Tencent!Refuse("unsupported") ELSE q
  BY DEF Tencent!DeletePlan
<1>3. ~ Allowed(Tencent!Refuse("unsupported"))
  BY DEF Tencent!Refuse, Allowed
<1>4. q = P!Mutate(calls, <<>>, key, "", gone)
  BY SameMutate
<1>5. calls = RemovalsOf(set, <<>>)
  BY SameRemovals
<1> HIDE DEF calls, key, gone, q, default
<1>6. p = P!Mutate(calls, <<>>, key, "", gone)
  BY <1>2, <1>3, <1>4
<1> QED
  BY <1>1, <1>5, <1>6, DeleteSingle

---------------------------------------------------------------------------
(* The plans of Cloudflare. *)

CloudflareTarget(input, options) ==
  [name |-> input.name, type |-> input.type, ttl |-> input.ttl, proxied |-> options.proxied, proxiable |-> FALSE,
   automatic |-> options.automatic, comment |-> options.comment, tags |-> options.tags]

\* The TTL goes with the options: it is the automatic one, or one a client may set.
TTLFits(ttl, options) ==
  \/ options.automatic = TRUE /\ ttl = Cloudflare!AutomaticTTL
  \/ options.automatic = FALSE /\ ttl \in Cloudflare!ManualTTLs

LEMMA ManualTTL == 1 \notin Cloudflare!ManualTTLs
  BY DEF Cloudflare!ManualTTLs

LEMMA CloudflareFits ==
  ASSUME NEW input, NEW fallback, NEW allow, ~ Cloudflare!Objection(input, fallback, allow)
  PROVE  TTLFits(input.ttl, Cloudflare!WantedOptions(input, fallback))
<1> DEFINE o == Cloudflare!WantedOptions(input, fallback)
<1>1. o.automatic = TRUE \/ o.automatic = FALSE
  BY DEF Cloudflare!WantedOptions
<1>2. o.automatic => input.ttl = Cloudflare!AutomaticTTL
  BY Zenon DEF Cloudflare!Objection
<1>3. ~ o.automatic => input.ttl \in Cloudflare!ManualTTLs
  BY Zenon DEF Cloudflare!Objection
<1> HIDE DEF o
<1>4. TTLFits(input.ttl, o)
  <2>1. CASE o.automatic = TRUE
    BY <2>1, <1>2, Zenon DEF TTLFits
  <2>2. CASE o.automatic = FALSE
    BY <2>2, <1>3, Zenon DEF TTLFits
  <2> QED BY <1>1, <2>1, <2>2, Zenon
<1> QED
  BY <1>4, Zenon DEF o

\* What the provider stores, and what it shows.
LEMMA TTLShown ==
  ASSUME NEW t, NEW options, TTLFits(t, options), NEW u, u = IF options.automatic THEN 1 ELSE t
  PROVE  (IF u = 1 THEN Cloudflare!AutomaticTTL ELSE u) = t /\ (u = 1) = options.automatic
<1> DEFINE a == options.automatic
<1>0. (a = TRUE /\ t = Cloudflare!AutomaticTTL) \/ (a = FALSE /\ t \in Cloudflare!ManualTTLs)
  BY Zenon DEF TTLFits
<1>1. ASSUME a = TRUE, t = Cloudflare!AutomaticTTL
      PROVE (IF u = 1 THEN Cloudflare!AutomaticTTL ELSE u) = t /\ (u = 1) = a
  <2>1. u = 1
    BY <1>1, Zenon
  <2> QED BY <2>1, <1>1, Zenon
<1>2. ASSUME a = FALSE, t \in Cloudflare!ManualTTLs
      PROVE (IF u = 1 THEN Cloudflare!AutomaticTTL ELSE u) = t /\ (u = 1) = a
  <2>1. u = t
    BY <1>2, Zenon
  <2>2. t # 1
    BY <1>2, ManualTTL, Zenon
  <2>3. (u = 1) = FALSE
    BY <2>1, <2>2, Zenon
  <2> QED BY <2>1, <2>2, <2>3, <1>2, Zenon
<1> QED BY <1>0, <1>1, <1>2, Zenon

LEMMA CloudflareBody ==
  ASSUME adapter = "cloudflare", NEW input, NEW options, TTLFits(input.ttl, options), NEW e, NEW w,
         w = Cloudflare!Body(input, options, e)
  PROVE  /\ Serves(w) = Target(CloudflareTarget(input, options), e)
         /\ w.type = input.type /\ w.num = e.num /\ DOMAIN w = RecordFields.cloudflare
<1> DEFINE ttl == IF options.automatic THEN 1 ELSE input.ttl
           text == Cloudflare!Wire(input.type, e.text)
           proxiable == Cloudflare!CanBeProxied(input.type)
<1>1. w = [name |-> input.name, type |-> input.type, ttl |-> ttl, proxied |-> options.proxied, proxiable |-> proxiable,
           comment |-> options.comment, tags |-> options.tags, text |-> text, num |-> e.num]
  BY DEF Cloudflare!Body
<1>2. text.word = e.text.word
  BY DEF Cloudflare!Wire, Cloudflare!Quoted
<1>3. (IF ttl = 1 THEN Cloudflare!AutomaticTTL ELSE ttl) = input.ttl /\ (ttl = 1) = options.automatic
  BY TTLShown, Zenon
<1> HIDE DEF ttl, text, proxiable
<1>4. /\ w.name = input.name /\ w.type = input.type /\ w.ttl = ttl /\ w.proxied = options.proxied
      /\ w.comment = options.comment /\ w.tags = options.tags /\ w.text = text /\ w.num = e.num
      /\ DOMAIN w = RecordFields.cloudflare
  BY <1>1 DEF RecordFields
<1>5. Serves(w) = Target([name |-> w.name, type |-> w.type,
                          ttl |-> IF w.ttl = 1 THEN Cloudflare!AutomaticTTL ELSE w.ttl,
                             proxied |-> w.proxied, proxiable |-> FALSE, automatic |-> w.ttl = 1,
                             comment |-> w.comment, tags |-> w.tags], w)
  BY CloudflareServes, Zenon
<1>6. Serves(w) = Target([name |-> input.name, type |-> input.type, ttl |-> input.ttl,
                             proxied |-> options.proxied, proxiable |-> FALSE, automatic |-> options.automatic,
                             comment |-> options.comment, tags |-> options.tags], w)
  BY <1>3, <1>4, <1>5, Zenon
<1>7. \A k : Target(k, w) = Target(k, e)
  BY <1>2, <1>4 DEF Target
<1> QED
  BY <1>4, <1>6, <1>7, Zenon DEF CloudflareTarget

LEMMA CloudflareWrite ==
  ASSUME adapter = "cloudflare", NEW input, NEW options, TTLFits(input.ttl, options), NEW e, NEW op \in {"add", "set"},
         input.type \in {"CNAME", "NS"} => e.num = None, NEW last, e.id \in 1..last,
         NEW k, k = CloudflareTarget(input, options), NEW s, s = Cloudflare!Call(op, input, options, e)
  PROVE  CallsFor(s, k, e, last) /\ \E c \in Items(s) : WritesTo(c, k, e)
<1> DEFINE w == Cloudflare!Body(input, options, e)
           c == [op |-> op, id |-> e.id, with |-> w]
           a == <<c>>
<1>1. s = a
  BY DEF Cloudflare!Call
<1>2. Serves(w) = Target(k, e) /\ w.type = input.type /\ w.num = e.num /\ DOMAIN w = RecordFields.cloudflare
  BY CloudflareBody
<1>3. c.op = op /\ c.id = e.id /\ c.with = w /\ c = [op |-> c.op, id |-> c.id, with |-> c.with]
  OBVIOUS
<1> HIDE DEF c, w
<1>4. RecordOK("cloudflare", w)
  BY <1>2 DEF RecordOK
<1>5. {"type", "num"} \subseteq DOMAIN w /\ Serving \subseteq DOMAIN w
  BY <1>2 DEF RecordFields, Serving
<1>6. CallOK(c, last)
  BY <1>2, <1>3, <1>4, <1>5 DEF CallOK
<1>7. WritesTo(c, k, e)
  BY <1>2, <1>3, <1>5 DEF WritesTo
<1>8. Items(a) = {c} /\ CallsFor(a, k, e, last)
  BY <1>6, <1>7, CallsForParts, SingletonIsSeq
<1> HIDE DEF a
<1> QED
  BY <1>1, <1>7, <1>8

\* What an update of Cloudflare finds unchanged.
CloudflareCommon(set, y, options) ==
  \/ set.name # y.name \/ set.type # y.type \/ set.ttl # y.ttl
  \/ \E f \in {"proxied", "automatic", "comment", "tags"} : Cloudflare!OptionsOf(set)[f] # options[f]

\* A listed set has the options of each of its records.
ShowsOptions(set, r) ==
  /\ set.ext.proxied = r.proxied /\ set.ext.automatic = (r.ttl = 1)
  /\ set.ext.comment = r.comment /\ set.ext.tags = r.tags
  /\ set.ttl = IF r.ttl = 1 THEN Cloudflare!AutomaticTTL ELSE r.ttl

LEMMA CloudflareOptions ==
  ASSUME NEW view, NEW set, NEW m, CloudflareLists(set, view, m), NEW i \in DOMAIN m, NEW r, r = view[m[i]]
  PROVE  ShowsOptions(set, r)
<1> DEFINE rs == [j \in DOMAIN m |-> view[m[j]]]
           s == rs[1]
           key == Cloudflare!RecordKey(s)
<1>1. 1 \in DOMAIN m
  BY SeqFacts DEF CloudflareLists, Lists
<1>2. s = view[m[1]]
  BY <1>1
<1>3. Cloudflare!RecordKey(r) = key
  BY <1>1, <1>2 DEF CloudflareLists
<1>4. set.ext = [proxied |-> key.proxied, proxiable |-> key.proxiable, automatic |-> key.automatic,
                 comment |-> key.comment, tags |-> key.tags]
  BY Zenon DEF CloudflareLists, Cloudflare!SetExt
<1>5. set.ttl = Cloudflare!RecordKey(r).ttl
  BY DEF CloudflareLists
<1> DEFINE own == Cloudflare!RecordKey(r)
           ttl == IF r.ttl = 1 THEN Cloudflare!AutomaticTTL ELSE r.ttl
           automatic == r.ttl = 1
<1>10. own = [name |-> r.name, type |-> r.type, ttl |-> ttl, proxied |-> r.proxied, proxiable |-> r.proxiable,
              automatic |-> automatic, comment |-> r.comment, tags |-> r.tags]
  BY Zenon DEF Cloudflare!RecordKey
<1> HIDE DEF ttl, automatic, own, key
<1>6. /\ own.proxied = r.proxied /\ own.automatic = automatic /\ own.comment = r.comment /\ own.tags = r.tags
      /\ own.ttl = ttl
  BY <1>10
<1>7. /\ set.ext.proxied = key.proxied /\ set.ext.automatic = key.automatic
      /\ set.ext.comment = key.comment /\ set.ext.tags = key.tags
  BY <1>4
<1>8. own = key
  BY <1>3, Zenon DEF own
<1>9. set.ttl = own.ttl
  BY <1>5, Zenon DEF own
<1> QED
  BY <1>6, <1>7, <1>8, <1>9, Zenon DEF ttl, automatic, ShowsOptions

LEMMA CloudflareKept ==
  ASSUME adapter = "cloudflare", NEW view, NEW set, NEW m, CloudflareLists(set, view, m), NEW input, NEW options, NEW e,
         e.id \in set.id, ~ CloudflareCommon(set, input, options),
         Cloudflare!Compared(Cloudflare!EntryWith(set, e.id)) = Cloudflare!Compared(e)
  PROVE  Served1(view, CloudflareTarget(input, options), e)
<1>1. Lists(set, view, m)
  BY DEF CloudflareLists
<1>2. PICK i \in DOMAIN m : m[i] = e.id /\ P!EntryWith(set, e.id) = set.entries[i]
  BY <1>1, ListedIDs
<1> DEFINE was == set.entries[i]
           r == view[m[i]]
<1>3. /\ was.text.word = r.text.word /\ was.num = r.num /\ set.name = r.name /\ set.type = r.type
      /\ m[i] \in DOMAIN view
  BY <1>1 DEF Lists, Items
<1>5. Cloudflare!EntryWith(set, e.id) = was
  BY <1>2, SameIDs
<1>6. was.text = e.text /\ was.num = e.num
  BY <1>5 DEF Cloudflare!Compared
<1>7. /\ set.name = input.name /\ set.type = input.type /\ set.ttl = input.ttl
      /\ set.ext.proxied = options.proxied /\ set.ext.automatic = options.automatic
      /\ set.ext.comment = options.comment /\ set.ext.tags = options.tags
  BY DEF CloudflareCommon, Cloudflare!OptionsOf
<1>16. r = view[m[i]]
  OBVIOUS
<1> HIDE DEF was, r
<1>4. /\ set.ext.proxied = r.proxied /\ set.ext.automatic = (r.ttl = 1)
      /\ set.ext.comment = r.comment /\ set.ext.tags = r.tags
      /\ set.ttl = IF r.ttl = 1 THEN Cloudflare!AutomaticTTL ELSE r.ttl
  <2>1. ShowsOptions(set, r)
    BY <1>16, CloudflareOptions
  <2> QED BY <2>1, Zenon DEF ShowsOptions
<1>11. Serves(r) = Target([name |-> r.name, type |-> r.type, ttl |-> IF r.ttl = 1 THEN Cloudflare!AutomaticTTL ELSE r.ttl,
                             proxied |-> r.proxied, proxiable |-> FALSE, automatic |-> r.ttl = 1,
                             comment |-> r.comment, tags |-> r.tags], r)
  BY CloudflareServes, Zenon
<1>12. /\ r.name = input.name /\ r.type = input.type /\ (IF r.ttl = 1 THEN Cloudflare!AutomaticTTL ELSE r.ttl) = input.ttl
       /\ r.proxied = options.proxied /\ (r.ttl = 1) = options.automatic
       /\ r.comment = options.comment /\ r.tags = options.tags
  BY <1>3, <1>4, <1>7, Zenon
<1>14. Serves(r) = Target([name |-> input.name, type |-> input.type, ttl |-> input.ttl,
                             proxied |-> options.proxied, proxiable |-> FALSE, automatic |-> options.automatic,
                             comment |-> options.comment, tags |-> options.tags], r)
  BY <1>11, <1>12, Zenon
<1>13. \A k : Target(k, r) = Target(k, e)
  BY <1>3, <1>6 DEF Target
<1>15. Serves(r) = Target(CloudflareTarget(input, options), e)
  BY <1>13, <1>14, Zenon DEF CloudflareTarget
<1> QED
  BY <1>2, <1>3, <1>15, Zenon DEF r, Served1

\* What an update or a creation of Cloudflare does for an entry.
CloudflareWritten(set, y, options, e) ==
  IF e.id \notin Cloudflare!EntryIDs(set) THEN Cloudflare!Call("add", y, options, e)
  ELSE IF CloudflareCommon(set, y, options)
            \/ Cloudflare!Compared(Cloudflare!EntryWith(set, e.id)) # Cloudflare!Compared(e)
       THEN Cloudflare!Call("set", y, options, e)
  ELSE <<>>

LEMMA CloudflareWrittenOK ==
  ASSUME adapter = "cloudflare", NEW view, NEW set, NEW m, CloudflareLists(set, view, m), NEW y, NEW options,
         TTLFits(y.ttl, options), NEW e, y.type \in {"CNAME", "NS"} => e.num = None, NEW last, e.id \in 1..last,
         NEW k, k = CloudflareTarget(y, options), NEW s, s = CloudflareWritten(set, y, options, e)
  PROVE  /\ CallsFor(s, k, e, last)
         /\ Served1(view, k, e) \/ \E c \in Items(s) : WritesTo(c, k, e)
<1> DEFINE add == Cloudflare!Call("add", y, options, e)
           modify == Cloudflare!Call("set", y, options, e)
           new == e.id \notin Cloudflare!EntryIDs(set)
           needs == CloudflareCommon(set, y, options)
                    \/ Cloudflare!Compared(Cloudflare!EntryWith(set, e.id)) # Cloudflare!Compared(e)
<1>1. s = IF new THEN add ELSE IF needs THEN modify ELSE <<>>
  BY DEF CloudflareWritten
<1>2. CallsFor(add, k, e, last) /\ CallsFor(modify, k, e, last)
  BY CloudflareWrite
<1>3. (\E c \in Items(add) : WritesTo(c, k, e)) /\ \E c \in Items(modify) : WritesTo(c, k, e)
  BY CloudflareWrite
<1>4. ~ new /\ ~ needs => Served1(view, k, e)
  <2>1. Lists(set, view, m)
    BY DEF CloudflareLists
  <2>2. ~ new => e.id \in set.id
    BY <2>1, ListedIDs, SameRequest
  <2> QED BY <2>2, CloudflareKept
<1>5. CallsFor(<<>>, k, e, last)
  BY CallsForParts
<1> HIDE DEF add, modify, new, needs
<1> QED
  BY <1>1, <1>2, <1>3, <1>4, <1>5

CloudflareWrites(set, y, options, es) == [i \in DOMAIN es |-> CloudflareWritten(set, y, options, es[i])]
CloudflareAdds(y, options, es) == [i \in DOMAIN es |-> Cloudflare!Call("add", y, options, es[i])]

LEMMA CloudflareUpdateEach ==
  ASSUME adapter = "cloudflare", issued \in Nat, NEW x, NEW y, NEW es, request.id \subseteq 1..issued,
         Wanted(x, y, es, request.id), NEW options, TTLFits(y.ttl, options), NEW last, last = LastID(x.entries),
         NEW k, k = CloudflareTarget(y, options), NEW view, NEW set, NEW m, CloudflareLists(set, view, m),
         NEW w, w = Flattened(CloudflareWrites(set, y, options, es))
  PROVE  /\ CallsForAll(w, k, es, last)
         /\ \A i \in DOMAIN es : Served1(view, k, es[i]) \/ \E c \in Items(w) : WritesTo(c, k, es[i])
<1> DEFINE writes == CloudflareWrites(set, y, options, es)
<1>1. \A i \in DOMAIN es : es[i].id \in 1..last /\ (y.type \in {"CNAME", "NS"} => es[i].num = None)
  BY WantedRange
<1>2. ASSUME NEW i \in DOMAIN es
      PROVE  /\ CallsFor(writes[i], k, es[i], last)
             /\ Served1(view, k, es[i]) \/ \E c \in Items(writes[i]) : WritesTo(c, k, es[i])
  <2> DEFINE e == es[i]
  <2>1. e.id \in 1..last /\ (y.type \in {"CNAME", "NS"} => e.num = None)
    BY <1>1
  <2>2. writes[i] = CloudflareWritten(set, y, options, e)
    BY DEF CloudflareWrites
  <2> HIDE DEF e, writes
  <2>3. CallsFor(writes[i], k, e, last) /\ (Served1(view, k, e) \/ \E c \in Items(writes[i]) : WritesTo(c, k, e))
    BY <2>1, <2>2, CloudflareWrittenOK
  <2> QED BY <2>3 DEF e
<1>3. writes = [i \in DOMAIN es |-> writes[i]]
  BY DEF CloudflareWrites
<1>4. IsSeq(es)
  BY WantedFacts
<1> HIDE DEF writes
<1> QED
  BY <1>2, <1>3, <1>4, EachWritten DEF writes

LEMMA CloudflareCreateEach ==
  ASSUME adapter = "cloudflare", issued \in Nat, NEW x, NEW y, NEW es, request.id = {},
         Wanted(x, y, es, request.id), NEW options, TTLFits(y.ttl, options), NEW last, last = LastID(x.entries),
         NEW k, k = CloudflareTarget(y, options), NEW view, NEW w, w = Flattened(CloudflareAdds(y, options, es))
  PROVE  SingleCalls(w, view, k, es, last, w, <<>>)
<1> DEFINE adds == CloudflareAdds(y, options, es)
<1>5. request.id \subseteq 1..issued
  OBVIOUS
<1>1. \A i \in DOMAIN es : es[i].id \in 1..last /\ (y.type \in {"CNAME", "NS"} => es[i].num = None)
  BY <1>5, WantedRange
<1>2. ASSUME NEW i \in DOMAIN es
      PROVE  CallsFor(adds[i], k, es[i], last) /\ \E c \in Items(adds[i]) : WritesTo(c, k, es[i])
  <2> DEFINE e == es[i]
             add == Cloudflare!Call("add", y, options, e)
  <2>1. e.id \in 1..last /\ (y.type \in {"CNAME", "NS"} => e.num = None)
    BY <1>1
  <2>2. adds[i] = add
    BY DEF CloudflareAdds
  <2> HIDE DEF e, adds
  <2>3. CallsFor(add, k, e, last) /\ \E c \in Items(add) : WritesTo(c, k, e)
    BY <2>1, CloudflareWrite
  <2> HIDE DEF add
  <2> QED BY <2>2, <2>3 DEF e
<1>3. adds = [i \in DOMAIN es |-> adds[i]]
  BY DEF CloudflareAdds
<1>4. IsSeq(es)
  BY WantedFacts
<1> HIDE DEF adds
<1>6. /\ CallsForAll(w, k, es, last)
      /\ \A i \in DOMAIN es : Served1(view, k, es[i]) \/ \E c \in Items(w) : WritesTo(c, k, es[i])
  BY <1>2, <1>3, <1>4, EachWritten DEF adds
<1> QED
  BY <1>6, WithoutRemovals

\* The key of the wanted set, but for what the provider decides by itself.
CloudflareKey(y, options) == [Cloudflare!KeyFor(y, options) EXCEPT !.proxiable = FALSE]

LEMMA CloudflareGoalKey ==
  ASSUME adapter = "cloudflare", NEW p, NEW y, NEW options, p.key = CloudflareKey(y, options)
  PROVE  GoalKey(p) = CloudflareTarget(y, options)
<1> DEFINE k == Cloudflare!KeyFor(y, options)
<1>1. k = [name |-> y.name, type |-> y.type, ttl |-> y.ttl, proxied |-> options.proxied,
           proxiable |-> options.proxiable, automatic |-> options.automatic, comment |-> options.comment,
           tags |-> options.tags]
  BY DEF Cloudflare!KeyFor
<1> HIDE DEF k
<1>2. \A v : [k EXCEPT !.proxiable = v]
               = [name |-> y.name, type |-> y.type, ttl |-> y.ttl, proxied |-> options.proxied,
                  proxiable |-> v, automatic |-> options.automatic, comment |-> options.comment,
                  tags |-> options.tags]
  BY <1>1
<1>3. CloudflareKey(y, options) = CloudflareTarget(y, options)
  BY <1>2, Zenon DEF CloudflareKey, CloudflareTarget, k
<1>4. GoalKey(p) = p.key
  BY DEF GoalKey
<1> QED
  BY <1>3, <1>4

LEMMA SameGoal ==
  ASSUME NEW type, NEW es, EntriesOK(type, es)
  PROVE  SameEntries(es, es)
  BY DEF SameEntries, EntriesOK

\* What a creation starts from.
CloudflareDefaults(x) ==
  [proxied |-> FALSE, proxiable |-> Cloudflare!CanBeProxied(x.type), automatic |-> FALSE, comment |-> "", tags |-> {}]

\* What validation objects to.
CreateObjection(y, x) == Cloudflare!Objection(y, CloudflareDefaults(x), FALSE)
UpdateObjection(y, set) == Cloudflare!Objection(y, set.ext, TRUE)

LEMMA CloudflareCreateSame ==
  ASSUME NEW x, NEW sets, NEW y, y = P!Normalized(x), NEW es, es = P!WithIDs(y.entries, issued),
         NEW options, options = Cloudflare!WantedOptions(y, CloudflareDefaults(x)),
         NEW p, p = Cloudflare!CreatePlan(x, sets, issued), Allowed(p)
  PROVE  /\ ~ CreateObjection(y, x)
         /\ p = P!Mutate(Flattened(CloudflareAdds(y, options, es)), es, CloudflareKey(y, options), NoStatus, {})
<1> DEFINE z == Cloudflare!Normalized(x)
           fs == Cloudflare!WithIDs(z.entries, issued)
           o == Cloudflare!WantedOptions(z, CloudflareDefaults(x))
           key == CloudflareKey(z, o)
           q == Cloudflare!Mutate(Flattened(CloudflareAdds(z, o, fs)), fs, key, "", {})
           objection == Cloudflare!Objection(z, CloudflareDefaults(x), FALSE)
           bad == ~ Cloudflare!Normalizable(x) \/ objection
           taken == \E set \in sets : Cloudflare!KeyOfSet(set) = key
<1>1. ~ Allowed(Cloudflare!Refuse("validation")) /\ ~ Allowed(Cloudflare!Refuse("conflict"))
  BY DEF Cloudflare!Refuse, Allowed
<1>2. p = IF bad THEN Cloudflare!Refuse("validation") ELSE IF taken THEN Cloudflare!Refuse("conflict") ELSE q
  <2>1. Cloudflare!ForEach(fs, LAMBDA e : Cloudflare!Call("add", z, o, e)) = Flattened(CloudflareAdds(z, o, fs))
    BY SameFlatten DEF Cloudflare!ForEach, CloudflareAdds
  <2> QED BY <2>1, Zenon DEF Cloudflare!CreatePlan, CloudflareDefaults, CloudflareKey
<1>3. bad \/ ~ objection
  OBVIOUS
<1>4. q = P!Mutate(Flattened(CloudflareAdds(z, o, fs)), fs, key, "", {})
  BY SameMutate
<1>5. z = y /\ fs = es /\ o = options
  BY SameRequest, SameIDs
<1>7. objection <=> CreateObjection(y, x)
  BY <1>5, Zenon DEF CreateObjection
<1> HIDE DEF bad, taken, q
<1>6. ~ bad /\ p = q
  BY <1>1, <1>2
<1> HIDE DEF z, fs, o, objection
<1> QED
  BY <1>3, <1>4, <1>5, <1>6, <1>7 DEF NoStatus

LEMMA CloudflareCreate ==
  ASSUME adapter = "cloudflare", issued \in Nat, NEW x, CreateRequest(x), NEW view, NEW status, NEW gone,
         NEW y, y = P!Normalized(x), NEW options, TTLFits(y.ttl, options),
         NEW es, es = P!WithIDs(y.entries, issued), NEW p,
         p = P!Mutate(Flattened(CloudflareAdds(y, options, es)), es, CloudflareKey(y, options), status, gone)
  PROVE  SinglePlan(p, view)
<1>1. Wanted(x, y, es, request.id) /\ request.id = {}
  BY CreateWanted DEF CreateRequest
<1> DEFINE last == LastID(x.entries)
           k == CloudflareTarget(y, options)
           w == Flattened(CloudflareAdds(y, options, es))
           key == CloudflareKey(y, options)
<1>3. SingleCalls(w, view, k, es, last, w, <<>>)
  BY <1>1, CloudflareCreateEach
<1>4. SameEntries(es, es)
  BY <1>1, WantedFacts, SameGoal
<1>5. p = P!Mutate(w, es, key, status, gone)
  OBVIOUS
<1> HIDE DEF w, key
<1>6. p.key = key
  BY <1>5, PlanFields
<1>7. GoalKey(p) = k
  BY <1>6, CloudflareGoalKey DEF key
<1> HIDE DEF last, k
<1> QED
  BY <1>1, <1>3, <1>4, <1>5, <1>7, MadePlan DEF last

LEMMA CloudflareUpdateSame ==
  ASSUME NEW x, NEW set, NEW sets, NEW y, y = P!Normalized(x), NEW es, es = P!WithIDs(y.entries, issued),
         NEW options, options = Cloudflare!WantedOptions(y, set.ext),
         NEW p, p = Cloudflare!UpdatePlan(x, set, sets, issued), Allowed(p)
  PROVE  /\ ~ UpdateObjection(y, set) /\ ~ P!Repeats(x) /\ P!Strays(x, set) = {}
         /\ p = P!Mutate(Cloudflare!UpdateCalls(set, y, es, options), es, CloudflareKey(y, options), NoStatus, {})
<1> DEFINE z == Cloudflare!Normalized(x)
           fs == Cloudflare!WithIDs(z.entries, issued)
           o == Cloudflare!WantedOptions(z, set.ext)
           key == CloudflareKey(z, o)
           q == Cloudflare!Mutate(Cloudflare!UpdateCalls(set, z, fs, o), fs, key, "", {})
           objection == Cloudflare!Objection(z, set.ext, TRUE)
           repeats == Cloudflare!Repeats(x)
           strays == Cloudflare!Strays(x, set)
           bad == ~ Cloudflare!Normalizable(x) \/ objection \/ repeats
           taken == Cloudflare!Merges(set, sets, key) \/ strays # {}
<1>1. ~ Allowed(Cloudflare!Refuse("validation")) /\ ~ Allowed(Cloudflare!Refuse("conflict"))
  BY DEF Cloudflare!Refuse, Allowed
<1>2. p = IF bad THEN Cloudflare!Refuse("validation") ELSE IF taken THEN Cloudflare!Refuse("conflict") ELSE q
  BY Zenon DEF Cloudflare!UpdatePlan, Cloudflare!OptionsOf, CloudflareKey
<1>3. (bad \/ (~ objection /\ ~ repeats)) /\ (taken \/ strays = {})
  OBVIOUS
<1>4. q = P!Mutate(Cloudflare!UpdateCalls(set, z, fs, o), fs, key, "", {})
  BY SameMutate
<1>5. z = y /\ fs = es /\ o = options
  BY SameRequest, SameIDs
<1>6. repeats = P!Repeats(x) /\ strays = P!Strays(x, set)
  BY SameRequest, Zenon
<1> HIDE DEF bad, taken, q
<1>7. ~ bad /\ ~ taken /\ p = q
  BY <1>1, <1>2
<1>8. objection <=> UpdateObjection(y, set)
  BY <1>5, Zenon DEF UpdateObjection
<1> HIDE DEF z, fs, o, objection, repeats, strays
<1>9. ~ objection /\ ~ repeats /\ strays = {}
  BY <1>3, <1>7
<1>10. ~ P!Repeats(x)
  BY <1>6, <1>9, Zenon
<1> QED
  BY <1>4, <1>5, <1>6, <1>7, <1>8, <1>9, <1>10 DEF NoStatus

LEMMA CloudflareUpdateCalls ==
  ASSUME NEW set, NEW y, NEW es, NEW options
  PROVE  Joins(Cloudflare!UpdateCalls(set, y, es, options), Flattened(CloudflareWrites(set, y, options, es)),
               RemovalsOf(set, es))
  BY SameFlatten, SameRemovals, Zenon DEF Joins, Cloudflare!UpdateCalls, CloudflareWrites, Cloudflare!ForEach, CloudflareWritten,
     CloudflareCommon

LEMMA CloudflareUpdate ==
  ASSUME adapter = "cloudflare", issued \in Nat, NEW x, NEW y, NEW es, request.id \subseteq 1..issued,
         Wanted(x, y, es, request.id),
         NEW view, NEW set, SetOK(set), NEW m, CloudflareLists(set, view, m), request.id = set.id,
         NEW options, TTLFits(y.ttl, options), NEW status, NEW gone, NEW p,
         p = P!Mutate(Cloudflare!UpdateCalls(set, y, es, options), es, CloudflareKey(y, options), status, gone)
  PROVE  SinglePlan(p, view)
<1> DEFINE last == LastID(x.entries)
           k == CloudflareTarget(y, options)
           w == Flattened(CloudflareWrites(set, y, options, es))
           d == RemovalsOf(set, es)
           calls == Cloudflare!UpdateCalls(set, y, es, options)
           key == CloudflareKey(y, options)
<1>1. P!EntryIDs(set) = request.id
  BY ListedIDs DEF CloudflareLists
<1>2. CallsForAll(w, k, es, last) /\ \A i \in DOMAIN es : Served1(view, k, es[i]) \/ \E c \in Items(w) : WritesTo(c, k, es[i])
  BY CloudflareUpdateEach
<1>3. Joins(calls, w, d)
  BY CloudflareUpdateCalls
<1>4. SameEntries(es, es)
  BY WantedFacts, SameGoal
<1>5. p = P!Mutate(calls, es, key, status, gone)
  OBVIOUS
<1> HIDE DEF calls, w, key
<1>6. p.key = key
  BY <1>5, PlanFields
<1>7. GoalKey(p) = k
  BY <1>6, CloudflareGoalKey DEF key
<1> HIDE DEF last, k
<1>8. SingleCalls(calls, view, k, es, last, w, d)
  BY <1>1, <1>2, <1>3, WithRemovals DEF Served1
<1> HIDE DEF d
<1> QED
  BY <1>4, <1>5, <1>7, <1>8, MadePlan DEF last

LEMMA CloudflareDelete ==
  ASSUME adapter = "cloudflare", issued \in Nat, NEW view, NEW set, SetOK(set), NEW m, CloudflareLists(set, view, m),
         request.id = set.id, NEW p, p = Cloudflare!DeletePlan(set)
  PROVE  SinglePlan(p, view)
<1>1. P!EntryIDs(set) = request.id
  BY ListedIDs DEF CloudflareLists
<1> DEFINE calls == Cloudflare!Removals(set, <<>>)
           key == Cloudflare!KeyOfSet(set)
           gone == Cloudflare!EntryIDs(set)
<1>2. p = Cloudflare!Mutate(calls, <<>>, key, "", gone)
  BY DEF Cloudflare!DeletePlan
<1>3. calls = RemovalsOf(set, <<>>)
  BY SameRemovals
<1> HIDE DEF calls, key, gone
<1>4. p = P!Mutate(calls, <<>>, key, "", gone)
  BY <1>2, SameMutate
<1> QED
  BY <1>1, <1>3, <1>4, DeleteSingle

---------------------------------------------------------------------------
(* The plans of Huawei Cloud. *)

LEMMA HuaweiValue ==
  ASSUME NEW type, NEW e, NEW v,
         v = [text |-> IF type \in {"TXT", "CAA"} THEN Huawei!Quoted(e.text) ELSE e.text, num |-> e.num]
  PROVE  v.text.word = e.text.word /\ v.num = e.num /\ DOMAIN v = {"text", "num"}
  BY DEF Huawei!Quoted

\* The values sent are those of the wanted entries.
LEMMA HuaweiValues ==
  ASSUME NEW y, NEW es, es = y.entries, IsSeq(es), NEW values, values = Huawei!Values(y)
  PROVE  ValuesOK(values) /\ Words(values) = Words(es)
<1>1. values = [i \in DOMAIN es |->
                  [text |-> IF y.type \in {"TXT", "CAA"} THEN Huawei!Quoted(es[i].text) ELSE es[i].text,
                   num |-> es[i].num]]
  BY DEF Huawei!Values
<1>2. DOMAIN es = 1..Len(es) /\ Len(es) \in Nat
  BY SeqFacts
<1>3. DOMAIN values = DOMAIN es /\ values = [i \in 1..Len(es) |-> values[i]]
  BY <1>1, <1>2
<1>4. IsSeq(values)
  BY <1>2, <1>3, FunctionIsSeq
<1>5. ASSUME NEW i \in DOMAIN es
      PROVE  values[i].text.word = es[i].text.word /\ values[i].num = es[i].num /\ DOMAIN values[i] = {"text", "num"}
  <2> DEFINE e == es[i]
             v == values[i]
  <2>1. v = [text |-> IF y.type \in {"TXT", "CAA"} THEN Huawei!Quoted(e.text) ELSE e.text, num |-> e.num]
    BY <1>1
  <2> HIDE DEF e, v
  <2>2. v.text.word = e.text.word /\ v.num = e.num /\ DOMAIN v = {"text", "num"}
    BY <2>1, HuaweiValue
  <2> QED BY <2>2 DEF e, v
<1>6. ValuesOK(values)
  BY <1>3, <1>4, <1>5 DEF ValuesOK, IsSeq, Items
<1>7. Words(values) = Words(es)
  BY <1>3, <1>5 DEF Words
<1> QED
  BY <1>6, <1>7

LEMMA HuaweiRouting ==
  ASSUME adapter = "huawei", NEW type, NEW x, EntriesOK(type, x.entries)
  PROVE  /\ Huawei!RoutingOf(x) \in Routing \cup {None}
         /\ \E i \in DOMAIN x.entries : Huawei!RoutingOf(x) = x.entries[i].ext
<1> DEFINE es == x.entries
<1>1. 1 \in DOMAIN es
  BY SeqFacts DEF EntriesOK
<1>2. Huawei!Routings(x) = {es[i].ext : i \in DOMAIN es}
  BY DEF Huawei!Routings
<1>3. es[1].ext \in Huawei!Routings(x)
  BY <1>1, <1>2
<1>4. Huawei!RoutingOf(x) \in Huawei!Routings(x)
  BY <1>3 DEF Huawei!RoutingOf
<1>5. \A i \in DOMAIN es : es[i].ext \in Routing \cup {None}
  BY DEF EntriesOK, EntryOK
<1> QED
  BY <1>2, <1>4, <1>5

LEMMA HuaweiWeight ==
  ASSUME NEW now \in Routing \cup {None}, NEW wanted \in Routing \cup {None}
  PROVE  Huawei!MergedWeight(now, wanted) \in Weights
<1>1. None \in Weights
  BY DEF Weights
<1>2. \A r \in Routing : r.weight \in Weights
  BY DEF Routing
<1> QED
  BY <1>1, <1>2 DEF Huawei!MergedWeight

LEMMA HuaweiLine ==
  ASSUME NEW r \in Routing \cup {None}, NEW line, line = IF r = None THEN "" ELSE r.line
  PROVE  line \in Lines
<1>1. \A q \in Routing : q.line \in Lines
  BY DEF Routing
<1>2. "" \in Lines
  BY DEF Lines
<1>3. CASE r = None
  <2>1. line = ""
    BY <1>3
  <2> QED BY <2>1, <1>2
<1>4. CASE r # None
  <2>1. line = r.line
    BY <1>4
  <2> QED BY <2>1, <1>1, <1>4
<1> QED
  BY <1>3, <1>4

HuaweiLineOf(routing) == IF routing = None THEN "" ELSE routing.line

\* The line of a listed set is that of the provider's set.
LEMMA HuaweiListedLine ==
  ASSUME adapter = "huawei", NEW view, ViewOK(view), NEW set, SetOK(set), NEW id, HuaweiLists(set, view, id),
         NEW now, now = Huawei!RoutingOf(set)
  PROVE  HuaweiLineOf(now) = view[id].line
<1> DEFINE r == view[id]
           es == Huawei!EntriesOf(r)
           own == [line |-> r.line, weight |-> r.weight]
           ext == IF r.line = "" /\ r.weight = None THEN None ELSE own
<1>1. RecordOK("huawei", r)
  BY DEF ViewOK, HuaweiLists
<1>2. PICK i \in DOMAIN set.entries : now = set.entries[i].ext
  BY HuaweiRouting DEF SetOK
<1>3. i \in DOMAIN r.values /\ set.entries[i] = P!NormalEntry(r.type, es[i])
  BY <1>2 DEF HuaweiLists
<1>4. P!NormalEntry(r.type, es[i]).ext = es[i].ext
  BY NormalEntryFacts
<1>5. es[i].ext = ext
  BY <1>1, <1>3, HuaweiEntries
<1>6. now = ext
  BY <1>2, <1>3, <1>4, <1>5
<1>7. r.line \in Lines /\ r.weight \in Weights
  BY <1>1 DEF RecordOK
<1>8. own # None /\ own.line = r.line
  <2>1. own \in Routing
    BY <1>7 DEF Routing
  <2> QED BY <2>1, NoneAssumption
<1> HIDE DEF r, own
<1> QED
  BY <1>6, <1>8 DEF r, HuaweiLineOf

\* A call that makes the provider's set be what the plan wants.
HuaweiWrites(c, p) ==
  /\ c.op \in {"add", "set"} /\ c.id = p.key.id
  /\ {"name", "type", "ttl", "values", "phase"} \subseteq DOMAIN c.with
  /\ c.with.name = p.key.name /\ c.with.type = p.key.type /\ c.with.ttl = p.key.ttl
  /\ Words(c.with.values) = Words(p.goal)
  /\ c.with.phase # "PENDING_DELETE"
\* One that switches it on or off.
HuaweiToggles(c, id) ==
  c.op = "set" /\ c.id = id /\ DOMAIN c.with = {"enabled", "phase"} /\ c.with.phase # "PENDING_DELETE"

HuaweiCreates(p) ==
  /\ PlanShape(p) /\ p.goal # <<>> /\ p.key.id = issued + 1
  /\ \E c : /\ p.calls = <<c>> /\ c.op = "add" /\ CallOK(c, LastID(p.goal))
            /\ HuaweiWrites(c, p) /\ c.with.line = p.key.line
HuaweiUpdates(p, view) ==
  /\ PlanShape(p) /\ p.goal # <<>> /\ request.id = {p.key.id} /\ p.key.id \in DOMAIN view
  /\ view[p.key.id].line = p.key.line
  /\ \E c, s : /\ p.calls = <<c>> \o s /\ c.op = "set" /\ CallOK(c, LastID(p.goal)) /\ HuaweiWrites(c, p)
               /\ IsSeq(s) /\ \A d \in Items(s) : CallOK(d, LastID(p.goal)) /\ HuaweiToggles(d, p.key.id)
HuaweiDeletes(p, view) ==
  /\ PlanShape(p) /\ p.goal = <<>>
  /\ \E c : /\ p.calls = <<c>> /\ c.op = "set" /\ CallOK(c, LastID(p.goal)) /\ request.id = {c.id}
            /\ c.id \in DOMAIN view /\ DOMAIN c.with = {"phase"} /\ c.with.phase = "PENDING_DELETE"

LEMMA HuaweiBody ==
  ASSUME NEW y, NEW values, NEW weight, NEW f,
         f = [name |-> y.name, type |-> y.type, ttl |-> y.ttl, values |-> values, phase |-> "PENDING_UPDATE"],
         NEW b, b = IF weight = None THEN f ELSE Huawei!WithField(f, "weight", weight)
  PROVE  /\ b.name = y.name /\ b.type = y.type /\ b.ttl = y.ttl /\ b.values = values /\ b.phase = "PENDING_UPDATE"
         /\ {"name", "type", "ttl", "values", "phase"} \subseteq DOMAIN b /\ "line" \notin DOMAIN b
         /\ "weight" \in DOMAIN b => b.weight = weight
<1> DEFINE g == Huawei!WithField(f, "weight", weight)
<1>1. /\ f.name = y.name /\ f.type = y.type /\ f.ttl = y.ttl /\ f.values = values /\ f.phase = "PENDING_UPDATE"
      /\ DOMAIN f = {"name", "type", "ttl", "values", "phase"}
  OBVIOUS
<1>2. DOMAIN g = DOMAIN f \cup {"weight"} /\ \A h \in DOMAIN g : g[h] = IF h = "weight" THEN weight ELSE f[h]
  BY DEF Huawei!WithField
<1>3. b \in {f, g}
  OBVIOUS
<1> HIDE DEF g
<1>4. /\ g.name = y.name /\ g.type = y.type /\ g.ttl = y.ttl /\ g.values = values /\ g.phase = "PENDING_UPDATE"
      /\ {"name", "type", "ttl", "values", "phase"} \subseteq DOMAIN g /\ "line" \notin DOMAIN g
      /\ g.weight = weight
  BY <1>1, <1>2
<1> QED
  BY <1>1, <1>3, <1>4

LEMMA SinglesOK ==
  ASSUME NEW c
  PROVE  IsSeq(<<c>>) /\ Items(<<c>>) = {c}
  BY SingletonIsSeq

LEMMA HuaweiKey ==
  ASSUME NEW id, NEW y, NEW line, NEW k, k = Huawei!KeyFor(id, y, line)
  PROVE  k.id = id /\ k.name = y.name /\ k.type = y.type /\ k.ttl = y.ttl /\ k.line = line
  BY DEF Huawei!KeyFor

LEMMA HuaweiRecord ==
  ASSUME adapter = "huawei", NEW y, NEW values, ValuesOK(values), NEW line \in Lines, NEW weight \in Weights,
         NEW enabled, NEW w,
         w = [name |-> y.name, type |-> y.type, ttl |-> y.ttl, values |-> values, line |-> line, weight |-> weight,
              enabled |-> enabled, phase |-> "PENDING_CREATE", system |-> FALSE]
  PROVE  /\ RecordOK(adapter, w)
         /\ w.name = y.name /\ w.type = y.type /\ w.ttl = y.ttl /\ w.values = values /\ w.line = line
         /\ w.phase = "PENDING_CREATE"
         /\ {"name", "type", "ttl", "values", "phase"} \subseteq DOMAIN w
<1>1. /\ w.name = y.name /\ w.type = y.type /\ w.ttl = y.ttl /\ w.values = values /\ w.line = line
      /\ w.phase = "PENDING_CREATE" /\ w.weight = weight
      /\ DOMAIN w = RecordFields.huawei
  BY DEF RecordFields
<1>2. RecordOK(adapter, w)
  BY <1>1 DEF RecordOK, Phases, Huawei!Pendings
<1>3. {"name", "type", "ttl", "values", "phase"} \subseteq DOMAIN w
  BY <1>1 DEF RecordFields
<1> QED
  BY <1>1, <1>2, <1>3

\* What a creation of Huawei Cloud adds, and the list of that call.
HuaweiNew(y, routing) ==
  [name |-> y.name, type |-> y.type, ttl |-> y.ttl, values |-> Huawei!Values(y), line |-> HuaweiLineOf(routing),
   weight |-> Huawei!MergedWeight(None, routing), enabled |-> Huawei!StatusOf(y) # "DISABLE",
   phase |-> "PENDING_CREATE", system |-> FALSE]
OneCall(op, id, with) == <<[op |-> op, id |-> id, with |-> with]>>
NextID == issued + 1

LEMMA OneCallFacts ==
  ASSUME NEW op, NEW id, NEW with, NEW calls, calls = OneCall(op, id, with)
  PROVE  /\ IsSeq(calls)
         /\ \E c : /\ calls = <<c>> /\ Items(calls) = {c} /\ c.op = op /\ c.id = id /\ c.with = with
                   /\ c = [op |-> c.op, id |-> c.id, with |-> c.with]
<1> DEFINE c == [op |-> op, id |-> id, with |-> with]
<1>1. calls = <<c>> /\ IsSeq(<<c>>) /\ Items(<<c>>) = {c}
  BY SinglesOK DEF OneCall
<1>2. c.op = op /\ c.id = id /\ c.with = with /\ c = [op |-> c.op, id |-> c.id, with |-> c.with]
  OBVIOUS
<1> HIDE DEF c
<1> QED
  BY <1>1, <1>2

LEMMA HuaweiCreateSame ==
  ASSUME NEW x, NEW sets, NEW y, y = P!Normalized(x),
         NEW p, p = Huawei!CreatePlan(x, sets, issued), Allowed(p)
  PROVE  p = P!Mutate(OneCall("add", NextID, HuaweiNew(y, Huawei!RoutingOf(y))), y.entries,
                      Huawei!KeyFor(NextID, y, HuaweiLineOf(Huawei!RoutingOf(y))), NoStatus, {})
<1> DEFINE z == Huawei!Normalized(x)
           r == Huawei!RoutingOf(z)
           calls == OneCall("add", NextID, HuaweiNew(z, r))
           es == z.entries
           key == Huawei!KeyFor(NextID, z, HuaweiLineOf(r))
           q == Huawei!Mutate(calls, es, key, "", {})
           bad == ~ Huawei!Normalizable(x) \/ Huawei!Objection(z, "") \/ Huawei!CannotBeSent(z)
<1>1. ~ Allowed(Huawei!Refuse("validation"))
  BY DEF Huawei!Refuse, Allowed
<1>2. p = IF bad THEN Huawei!Refuse("validation") ELSE q
  BY Zenon DEF Huawei!CreatePlan, OneCall, HuaweiNew, HuaweiLineOf, NextID
<1>3. z = y
  BY SameRequest
<1>7. /\ calls = OneCall("add", NextID, HuaweiNew(y, Huawei!RoutingOf(y))) /\ es = y.entries
      /\ key = Huawei!KeyFor(NextID, y, HuaweiLineOf(Huawei!RoutingOf(y)))
  BY <1>3, Zenon
<1>8. q = Huawei!Mutate(calls, es, key, "", {})
  OBVIOUS
<1> HIDE DEF bad, q, calls, es, key
<1>9. p = q
  BY <1>1, <1>2
<1>10. q = P!Mutate(calls, es, key, "", {})
  BY <1>8, SameMutate
<1> QED
  BY <1>7, <1>9, <1>10, Zenon DEF NoStatus

LEMMA HuaweiNewOK ==
  ASSUME adapter = "huawei", NEW y, EntriesOK(y.type, y.entries),
         NEW routing, routing = Huawei!RoutingOf(y), NEW w, w = HuaweiNew(y, routing)
  PROVE  /\ RecordOK(adapter, w)
         /\ w.name = y.name /\ w.type = y.type /\ w.ttl = y.ttl /\ w.line = HuaweiLineOf(routing)
         /\ w.phase # "PENDING_DELETE" /\ Words(w.values) = Words(y.entries)
         /\ {"name", "type", "ttl", "values", "phase"} \subseteq DOMAIN w
<1> DEFINE values == Huawei!Values(y)
           line == HuaweiLineOf(routing)
           weight == Huawei!MergedWeight(None, routing)
           enabled == Huawei!StatusOf(y) # "DISABLE"
           es == y.entries
<1>1. IsSeq(es) /\ es = y.entries
  BY DEF EntriesOK
<1>2. w = [name |-> y.name, type |-> y.type, ttl |-> y.ttl, values |-> values, line |-> line, weight |-> weight,
           enabled |-> enabled, phase |-> "PENDING_CREATE", system |-> FALSE]
  BY Zenon DEF HuaweiNew
<1>3. routing \in Routing \cup {None} /\ None \in Routing \cup {None}
  BY HuaweiRouting
<1>4. line = IF routing = None THEN "" ELSE routing.line
  BY Zenon DEF HuaweiLineOf
<1> HIDE DEF enabled, line, values, es
<1>5. line \in Lines
  BY <1>3, <1>4, HuaweiLine
<1>6. weight \in Weights
  BY <1>3, HuaweiWeight
<1> HIDE DEF weight
<1>7. ValuesOK(values) /\ Words(values) = Words(es)
  BY <1>1, HuaweiValues DEF values
<1>8. /\ RecordOK(adapter, w)
      /\ w.name = y.name /\ w.type = y.type /\ w.ttl = y.ttl /\ w.values = values /\ w.line = line
      /\ w.phase = "PENDING_CREATE"
      /\ {"name", "type", "ttl", "values", "phase"} \subseteq DOMAIN w
  BY <1>2, <1>5, <1>6, <1>7, HuaweiRecord
<1>9. w.phase # "PENDING_DELETE"
  BY <1>8
<1> QED
  BY <1>7, <1>8, <1>9 DEF line, es

LEMMA HuaweiCreate ==
  ASSUME adapter = "huawei", issued \in Nat, NEW y, EntriesOK(y.type, y.entries),
         NEW routing, routing = Huawei!RoutingOf(y), NEW status, NEW gone, NEW p,
         p = P!Mutate(OneCall("add", NextID, HuaweiNew(y, routing)), y.entries,
                      Huawei!KeyFor(NextID, y, HuaweiLineOf(routing)), status, gone)
  PROVE  HuaweiCreates(p)
<1> DEFINE es == y.entries
           w == HuaweiNew(y, routing)
           line == HuaweiLineOf(routing)
           calls == OneCall("add", NextID, w)
           key == Huawei!KeyFor(NextID, y, line)
           last == LastID(es)
<1>1. IsSeq(es) /\ es # <<>>
  BY DEF EntriesOK
<1>2. NextID \in 1..last
  <2>1. Len(es) \in Nat /\ Len(es) # 0
    BY <1>1, SeqFacts
  <2> HIDE DEF es
  <2> QED BY <2>1 DEF NextID, LastID
<1>3. PICK c : /\ calls = <<c>> /\ Items(calls) = {c} /\ c.op = "add" /\ c.id = NextID /\ c.with = w
               /\ c = [op |-> c.op, id |-> c.id, with |-> c.with]
  BY OneCallFacts
<1>4. IsSeq(calls)
  BY OneCallFacts
<1>5. p = P!Mutate(calls, es, key, status, gone)
  OBVIOUS
<1>6. /\ RecordOK(adapter, w)
      /\ w.name = y.name /\ w.type = y.type /\ w.ttl = y.ttl /\ w.line = line
      /\ w.phase # "PENDING_DELETE" /\ Words(w.values) = Words(es)
      /\ {"name", "type", "ttl", "values", "phase"} \subseteq DOMAIN w
  BY HuaweiNewOK
<1> HIDE DEF w, line, calls
<1>7. key.id = NextID /\ key.name = y.name /\ key.type = y.type /\ key.ttl = y.ttl /\ key.line = line
  BY HuaweiKey
<1> HIDE DEF es, key, last
<1>8. p.calls = calls /\ p.goal = es /\ p.key = key
  BY <1>5, PlanFields
<1>9. PlanShape(p)
  BY <1>1, <1>4, <1>5, MutateShape
<1>10. CallOK(c, last)
  BY <1>2, <1>3, <1>6 DEF CallOK
<1>11. HuaweiWrites(c, p)
  BY <1>3, <1>6, <1>7, <1>8 DEF HuaweiWrites
<1>12. last = LastID(p.goal) /\ p.calls = <<c>> /\ c.with.line = p.key.line /\ p.key.id = issued + 1 /\ p.goal # <<>>
  BY <1>1, <1>3, <1>6, <1>7, <1>8 DEF last, NextID
<1> QED
  BY <1>3, <1>9, <1>10, <1>11, <1>12 DEF HuaweiCreates

\* What an update of Huawei Cloud writes, and how it switches the set.
HuaweiIDOf(set) == CHOOSE i \in set.id : TRUE
HuaweiFields(y) ==
  [name |-> y.name, type |-> y.type, ttl |-> y.ttl, values |-> Huawei!Values(y), phase |-> "PENDING_UPDATE"]
HuaweiChanged(y, now) ==
  LET weight == Huawei!MergedWeight(now, Huawei!RoutingOf(y))
  IN  IF weight = None THEN HuaweiFields(y) ELSE Huawei!WithField(HuaweiFields(y), "weight", weight)
HuaweiSwitch(status) ==
  [enabled |-> status = "ENABLE", phase |-> IF status = "ENABLE" THEN "PENDING_ENABLE" ELSE "PENDING_DISABLE"]
HuaweiSwitches(id, set, y) ==
  LET status == Huawei!StatusOf(y)
  IN  IF Huawei!ShouldSetStatus(Huawei!StatusOf(set), status) THEN OneCall("set", id, HuaweiSwitch(status)) ELSE <<>>
HuaweiUpdateCalls(id, set, y, now) == OneCall("set", id, HuaweiChanged(y, now)) \o HuaweiSwitches(id, set, y)

LEMMA HuaweiUpdateSame ==
  ASSUME NEW x, NEW set, NEW sets, NEW y, y = P!Normalized(x),
         NEW p, p = Huawei!UpdatePlan(x, set, sets, issued), Allowed(p)
  PROVE  p = P!Mutate(HuaweiUpdateCalls(HuaweiIDOf(set), set, y, Huawei!RoutingOf(set)), y.entries,
                      Huawei!KeyFor(HuaweiIDOf(set), y, HuaweiLineOf(Huawei!RoutingOf(set))), NoStatus, {})
<1> DEFINE z == Huawei!Normalized(x)
           now == Huawei!RoutingOf(set)
           id == HuaweiIDOf(set)
           calls == HuaweiUpdateCalls(id, set, z, now)
           es == z.entries
           key == Huawei!KeyFor(id, z, HuaweiLineOf(now))
           q == Huawei!Mutate(calls, es, key, "", {})
           default == set.ext.default # None
           bad == ~ Huawei!Normalizable(x) \/ Huawei!Objection(z, Huawei!StatusOf(set))
           moves == Huawei!LineChanges(now, Huawei!RoutingOf(z))
           unsent == Huawei!CannotBeSent(z)
<1>1. ~ Allowed(Huawei!Refuse("validation")) /\ ~ Allowed(Huawei!Refuse("unsupported"))
  BY DEF Huawei!Refuse, Allowed
<1>2. p = IF default THEN Huawei!Refuse("unsupported") ELSE IF bad THEN Huawei!Refuse("validation")
          ELSE IF moves THEN Huawei!Refuse("unsupported") ELSE IF unsent THEN Huawei!Refuse("validation") ELSE q
  BY Zenon DEF Huawei!UpdatePlan, HuaweiUpdateCalls, HuaweiSwitches, HuaweiSwitch, HuaweiChanged, HuaweiFields, OneCall,
               HuaweiLineOf, HuaweiIDOf
<1>3. z = y
  BY SameRequest
<1>7. /\ calls = HuaweiUpdateCalls(id, set, y, now) /\ es = y.entries
      /\ key = Huawei!KeyFor(id, y, HuaweiLineOf(now))
  BY <1>3, Zenon
<1>8. q = Huawei!Mutate(calls, es, key, "", {})
  OBVIOUS
<1> HIDE DEF default, bad, moves, unsent, q, calls, es, key
<1>9. p = q
  BY <1>1, <1>2
<1>10. q = P!Mutate(calls, es, key, "", {})
  BY <1>8, SameMutate
<1> QED
  BY <1>7, <1>9, <1>10, Zenon DEF NoStatus

LEMMA HuaweiChangedOK ==
  ASSUME adapter = "huawei", NEW y, EntriesOK(y.type, y.entries), NEW now \in Routing \cup {None},
         NEW w, w = HuaweiChanged(y, now)
  PROVE  /\ w.name = y.name /\ w.type = y.type /\ w.ttl = y.ttl
         /\ w.phase \in Phases \ {"PENDING_DELETE"} /\ ValuesOK(w.values) /\ Words(w.values) = Words(y.entries)
         /\ {"name", "type", "ttl", "values", "phase"} \subseteq DOMAIN w /\ "line" \notin DOMAIN w
         /\ "weight" \in DOMAIN w => w.weight \in Weights
<1> DEFINE values == Huawei!Values(y)
           weight == Huawei!MergedWeight(now, Huawei!RoutingOf(y))
           f == HuaweiFields(y)
           es == y.entries
<1>1. IsSeq(es) /\ es = y.entries
  BY DEF EntriesOK
<1>2. f = [name |-> y.name, type |-> y.type, ttl |-> y.ttl, values |-> values, phase |-> "PENDING_UPDATE"]
  BY Zenon DEF HuaweiFields
<1>3. w = IF weight = None THEN f ELSE Huawei!WithField(f, "weight", weight)
  BY Zenon DEF HuaweiChanged
<1>4. weight \in Weights
  BY HuaweiRouting, HuaweiWeight
<1> HIDE DEF values, weight, f, es
<1>5. /\ w.name = y.name /\ w.type = y.type /\ w.ttl = y.ttl /\ w.values = values /\ w.phase = "PENDING_UPDATE"
      /\ {"name", "type", "ttl", "values", "phase"} \subseteq DOMAIN w /\ "line" \notin DOMAIN w
      /\ "weight" \in DOMAIN w => w.weight = weight
  BY <1>2, <1>3, HuaweiBody
<1>6. ValuesOK(values) /\ Words(values) = Words(es)
  BY <1>1, HuaweiValues DEF values
<1>7. w.phase \in Phases \ {"PENDING_DELETE"}
  BY <1>5 DEF Phases, Huawei!Pendings
<1> QED
  BY <1>4, <1>5, <1>6, <1>7 DEF es

LEMMA HuaweiSwitchOK ==
  ASSUME NEW status \in {"ENABLE", "DISABLE"}, NEW w, w = HuaweiSwitch(status)
  PROVE  DOMAIN w = {"enabled", "phase"} /\ w.phase \in Phases \ {"PENDING_DELETE"}
<1> DEFINE on == status = "ENABLE"
           phase == IF status = "ENABLE" THEN "PENDING_ENABLE" ELSE "PENDING_DISABLE"
<1>1. w = [enabled |-> on, phase |-> phase]
  BY Zenon DEF HuaweiSwitch
<1>2. phase \in Huawei!Pendings \ {"PENDING_DELETE"}
  BY DEF Huawei!Pendings
<1> HIDE DEF on, phase
<1>3. w.phase = phase /\ DOMAIN w = {"enabled", "phase"}
  BY <1>1
<1> QED
  BY <1>2, <1>3 DEF Phases

LEMMA HuaweiSwitchesOK ==
  ASSUME adapter = "huawei", NEW id, NEW set, NEW y, NEW s, s = HuaweiSwitches(id, set, y), NEW last
  PROVE  IsSeq(s) /\ \A d \in Items(s) : CallOK(d, last) /\ HuaweiToggles(d, id)
<1> DEFINE status == Huawei!StatusOf(y)
           wanted == Huawei!ShouldSetStatus(Huawei!StatusOf(set), status)
           w == HuaweiSwitch(status)
           one == OneCall("set", id, w)
<1>1. s = IF wanted THEN one ELSE <<>>
  BY DEF HuaweiSwitches
<1>2. wanted => status \in {"ENABLE", "DISABLE"}
  BY DEF Huawei!ShouldSetStatus
<1> HIDE DEF wanted, status
<1>3. CASE ~ wanted
  <2>1. s = <<>>
    BY <1>1, <1>3
  <2> QED BY <2>1, EmptyIsSeq
<1>4. CASE wanted
  <2>1. DOMAIN w = {"enabled", "phase"} /\ w.phase \in Phases \ {"PENDING_DELETE"}
    BY <1>2, <1>4, HuaweiSwitchOK
  <2>2. s = one
    BY <1>1, <1>4
  <2> HIDE DEF w
  <2>3. IsSeq(one)
    BY OneCallFacts
  <2>4. PICK c : /\ Items(one) = {c} /\ c.op = "set" /\ c.id = id /\ c.with = w
                 /\ c = [op |-> c.op, id |-> c.id, with |-> c.with]
    BY OneCallFacts
  <2> HIDE DEF one
  <2>5. CallOK(c, last)
    BY <2>1, <2>4 DEF CallOK
  <2>6. HuaweiToggles(c, id)
    BY <2>1, <2>4 DEF HuaweiToggles
  <2> QED BY <2>2, <2>3, <2>4, <2>5, <2>6
<1> QED
  BY <1>3, <1>4

LEMMA HuaweiUpdate ==
  ASSUME adapter = "huawei", issued \in Nat, NEW view, ViewOK(view), NEW set, SetOK(set), NEW vid,
         HuaweiLists(set, view, vid), request.id = set.id, NEW y, EntriesOK(y.type, y.entries),
         NEW now, now = Huawei!RoutingOf(set), NEW id, id = HuaweiIDOf(set), NEW status, NEW gone, NEW p,
         p = P!Mutate(HuaweiUpdateCalls(id, set, y, now), y.entries,
                      Huawei!KeyFor(id, y, HuaweiLineOf(now)), status, gone)
  PROVE  HuaweiUpdates(p, view)
<1> DEFINE es == y.entries
           w == HuaweiChanged(y, now)
           line == HuaweiLineOf(now)
           one == OneCall("set", id, w)
           s == HuaweiSwitches(id, set, y)
           calls == HuaweiUpdateCalls(id, set, y, now)
           key == Huawei!KeyFor(id, y, line)
           last == LastID(es)
<1>1. IsSeq(es) /\ es # <<>>
  BY DEF EntriesOK
<1>2. id = vid /\ request.id = {id} /\ id \in DOMAIN view
  BY DEF HuaweiIDOf, HuaweiLists
<1>3. PICK c : /\ one = <<c>> /\ Items(one) = {c} /\ c.op = "set" /\ c.id = id /\ c.with = w
               /\ c = [op |-> c.op, id |-> c.id, with |-> c.with]
  BY OneCallFacts
<1>4. IsSeq(s) /\ \A d \in Items(s) : CallOK(d, last) /\ HuaweiToggles(d, id)
  BY HuaweiSwitchesOK
<1>5. p = P!Mutate(calls, es, key, status, gone)
  OBVIOUS
<1>6. now \in Routing \cup {None}
  BY HuaweiRouting DEF SetOK
<1>7. /\ w.name = y.name /\ w.type = y.type /\ w.ttl = y.ttl
      /\ w.phase \in Phases \ {"PENDING_DELETE"} /\ ValuesOK(w.values) /\ Words(w.values) = Words(es)
      /\ {"name", "type", "ttl", "values", "phase"} \subseteq DOMAIN w /\ "line" \notin DOMAIN w
      /\ "weight" \in DOMAIN w => w.weight \in Weights
  BY <1>6, HuaweiChangedOK
<1>8. calls = one \o s
  BY DEF HuaweiUpdateCalls
<1>9. line = view[id].line
  BY <1>2, HuaweiListedLine
<1> HIDE DEF w, line
<1>10. key.id = id /\ key.name = y.name /\ key.type = y.type /\ key.ttl = y.ttl /\ key.line = line
  BY HuaweiKey
<1> HIDE DEF es, key, one, s, calls, last
<1>11. IsSeq(calls)
  BY <1>3, <1>4, <1>8, SinglesOK, ConcatIsSeq
<1>12. p.calls = calls /\ p.goal = es /\ p.key = key
  BY <1>5, PlanFields
<1>13. PlanShape(p)
  BY <1>1, <1>5, <1>11, MutateShape
<1>14. CallOK(c, last)
  BY <1>3, <1>7 DEF CallOK
<1>15. HuaweiWrites(c, p)
  BY <1>3, <1>7, <1>10, <1>12 DEF HuaweiWrites
<1>16. last = LastID(p.goal)
  BY <1>12 DEF last
<1>17. \A d \in Items(s) : CallOK(d, LastID(p.goal)) /\ HuaweiToggles(d, p.key.id)
  BY <1>4, <1>10, <1>12, <1>16
<1>18. CallOK(c, LastID(p.goal)) /\ c.op = "set" /\ p.calls = <<c>> \o s
  BY <1>3, <1>8, <1>12, <1>14, <1>16
<1>19. /\ p.goal # <<>> /\ request.id = {p.key.id} /\ p.key.id \in DOMAIN view
       /\ view[p.key.id].line = p.key.line
  BY <1>1, <1>2, <1>9, <1>10, <1>12
<1> QED
  BY <1>4, <1>13, <1>15, <1>17, <1>18, <1>19 DEF HuaweiUpdates

LEMMA HuaweiDeleteSame ==
  ASSUME NEW set, NEW p, p = Huawei!DeletePlan(set), Allowed(p)
  PROVE  p = P!Mutate(OneCall("set", HuaweiIDOf(set), [phase |-> "PENDING_DELETE"]), <<>>, None, NoStatus, set.id)
<1> DEFINE calls == OneCall("set", HuaweiIDOf(set), [phase |-> "PENDING_DELETE"])
           q == Huawei!Mutate(calls, <<>>, None, "", set.id)
           default == set.ext.default # None
<1>1. ~ Allowed(Huawei!Refuse("unsupported"))
  BY DEF Huawei!Refuse, Allowed
<1>2. p = IF default THEN Huawei!Refuse("unsupported") ELSE q
  BY Zenon DEF Huawei!DeletePlan, OneCall, HuaweiIDOf
<1>3. q = P!Mutate(calls, <<>>, None, "", set.id)
  BY SameMutate
<1> HIDE DEF default, q, calls
<1>4. p = q
  BY <1>1, <1>2
<1> QED
  BY <1>3, <1>4 DEF calls, NoStatus

LEMMA HuaweiDelete ==
  ASSUME adapter = "huawei", NEW view, NEW set, NEW vid, HuaweiLists(set, view, vid),
         request.id = set.id, NEW key, NEW status, NEW gone, NEW p,
         p = P!Mutate(OneCall("set", HuaweiIDOf(set), [phase |-> "PENDING_DELETE"]), <<>>, key, status, gone)
  PROVE  HuaweiDeletes(p, view)
<1> DEFINE w == [phase |-> "PENDING_DELETE"]
           id == HuaweiIDOf(set)
           es == <<>>
           calls == OneCall("set", id, w)
           last == LastID(es)
<1>1. w.phase = "PENDING_DELETE" /\ DOMAIN w = {"phase"}
  OBVIOUS
<1>2. id = vid /\ request.id = {id} /\ id \in DOMAIN view
  BY DEF HuaweiIDOf, HuaweiLists
<1>3. PICK c : /\ calls = <<c>> /\ Items(calls) = {c} /\ c.op = "set" /\ c.id = id /\ c.with = w
               /\ c = [op |-> c.op, id |-> c.id, with |-> c.with]
  BY OneCallFacts
<1>4. IsSeq(calls) /\ IsSeq(es)
  BY OneCallFacts, EmptyIsSeq
<1>5. p = P!Mutate(calls, es, key, status, gone)
  OBVIOUS
<1>6. es = <<>>
  OBVIOUS
<1> HIDE DEF w, id, es, calls, last
<1>7. CallOK(c, last)
  BY <1>1, <1>3 DEF CallOK, Phases, Huawei!Pendings
<1>8. p.calls = calls /\ p.goal = es
  BY <1>5, PlanFields
<1>9. PlanShape(p)
  BY <1>4, <1>5, MutateShape
<1>10. last = LastID(p.goal)
  BY <1>8 DEF last
<1> QED
  BY <1>1, <1>2, <1>3, <1>6, <1>7, <1>8, <1>9, <1>10 DEF HuaweiDeletes

---------------------------------------------------------------------------
(* The plan made from a list, whatever the adapter. *)


LEMMA PlanFromParts ==
  ASSUME NEW view, NEW p, p = PlanFrom(view), Allowed(p)
  PROVE  /\ Readable(view)
         /\ request.kind = "create" => p = CreatePlan(Sets(view))
         /\ request.kind # "create" =>
              \E set \in Sets(view) :
                 /\ set.id = request.id /\ P!Matches(request.expected, set)
                 /\ p = IF request.kind = "update" THEN UpdatePlan(set, Sets(view)) ELSE DeletePlan(set)
<1> DEFINE sets == Sets(view)
           current == P!Current(sets, request.id)
           set == CHOOSE s \in current : TRUE
           gone == P!Refuse(IF adapter = "huawei" THEN "not_found" ELSE "conflict")
           made == IF request.kind = "update" THEN UpdatePlan(set, sets) ELSE DeletePlan(set)
           create == CreatePlan(sets)
           old == ~ P!Matches(request.expected, set)
           readable == Readable(view)
           unknown == P!Refuse("unknown")
           conflict == P!Refuse("conflict")
<1>1. p = IF ~ readable THEN unknown
          ELSE IF request.kind = "create" THEN create
          ELSE IF current = {} THEN gone
          ELSE IF old THEN conflict ELSE made
  BY Zenon DEF PlanFrom
<1>2. ~ Allowed(unknown) /\ ~ Allowed(conflict) /\ ~ Allowed(gone)
  BY DEF P!Refuse, Allowed
<1>3. current # {} => set \in sets /\ set.id = request.id
  BY DEF P!Current
<1>4. old \/ P!Matches(request.expected, set)
  OBVIOUS
<1> HIDE DEF current, set, gone, create, old, readable, unknown, conflict, sets
<1>5. readable
  BY <1>1, <1>2
<1>6. request.kind = "create" => p = create
  BY <1>1, <1>5
<1>7. request.kind # "create" => current # {} /\ ~ old /\ p = made
  BY <1>1, <1>2, <1>5
<1> QED
  BY <1>3, <1>4, <1>5, <1>6, <1>7 DEF readable, create, sets

\* What the plans of Alibaba Cloud are made of.
AliyunCreation(p, x) ==
  LET y == P!Normalized(x)
      es == P!WithIDs(y.entries, issued)
      route == Aliyun!WantedRoute(y, AliyunNoRoute)
  IN  p = P!Mutate(AliyunCreateCalls(y, route, es), Aliyun!Finalized(es, route), Aliyun!KeyFor(y, route),
                   route.status, {})
AliyunChange(p, x, set) ==
  LET y == P!Normalized(x)
      es == P!WithIDs(y.entries, issued)
      route == Aliyun!WantedRoute(y, Aliyun!RouteOf(set))
  IN  p = P!Mutate(Aliyun!UpdateCalls(set, y, es, route), Aliyun!Finalized(es, route), Aliyun!KeyFor(y, route),
                   route.status, {})

LEMMA AliyunPlanned ==
  ASSUME NEW x, NEW set, NEW sets, NEW p, Allowed(p)
  PROVE  /\ p = Aliyun!CreatePlan(x, sets, issued) => AliyunCreation(p, x)
         /\ p = Aliyun!UpdatePlan(x, set, sets, issued) =>
              AliyunChange(p, x, set) /\ ~ P!Repeats(x) /\ P!Strays(x, set) = {}
<1> DEFINE y == P!Normalized(x)
           es == P!WithIDs(y.entries, issued)
           route == Aliyun!WantedRoute(y, AliyunNoRoute)
           other == Aliyun!WantedRoute(y, Aliyun!RouteOf(set))
<1>1. y = P!Normalized(x) /\ es = P!WithIDs(y.entries, issued) /\ route = Aliyun!WantedRoute(y, AliyunNoRoute)
      /\ other = Aliyun!WantedRoute(y, Aliyun!RouteOf(set))
  OBVIOUS
<1> HIDE DEF y, es, route, other
<1>2. ASSUME p = Aliyun!CreatePlan(x, sets, issued)
      PROVE  p = P!Mutate(AliyunCreateCalls(y, route, es), Aliyun!Finalized(es, route), Aliyun!KeyFor(y, route),
                          route.status, {})
  BY <1>1, <1>2, AliyunCreateSame
<1>3. ASSUME p = Aliyun!UpdatePlan(x, set, sets, issued)
      PROVE  /\ ~ P!Repeats(x) /\ P!Strays(x, set) = {}
             /\ p = P!Mutate(Aliyun!UpdateCalls(set, y, es, other), Aliyun!Finalized(es, other),
                             Aliyun!KeyFor(y, other), other.status, {})
  BY <1>1, <1>3, AliyunUpdateSame
<1> QED
  BY <1>2, <1>3 DEF AliyunCreation, AliyunChange, y, es, route, other

LEMMA AliyunCreated ==
  ASSUME adapter = "aliyun", issued \in Nat, NEW view, NEW x, CreateRequest(x), NEW p, AliyunCreation(p, x)
  PROVE  SinglePlan(p, view)
<1> DEFINE y == P!Normalized(x)
           es == P!WithIDs(y.entries, issued)
           route == Aliyun!WantedRoute(y, AliyunNoRoute)
           calls == AliyunCreateCalls(y, route, es)
           status == route.status
<1>1. p = P!Mutate(calls, Aliyun!Finalized(es, route), Aliyun!KeyFor(y, route), status, {})
  BY DEF AliyunCreation
<1>2. y = P!Normalized(x) /\ es = P!WithIDs(y.entries, issued) /\ route = Aliyun!WantedRoute(y, AliyunNoRoute)
      /\ calls = AliyunCreateCalls(y, route, es)
  OBVIOUS
<1> HIDE DEF y, es, route, calls, status
<1> QED
  BY <1>1, <1>2, AliyunCreate

LEMMA AliyunUpdated ==
  ASSUME adapter = "aliyun", issued \in Nat, NEW view, ViewOK(view), NEW x, InputOK(x),
         NEW set \in Aliyun!Sets(view), set.id = request.id,
         NEW p, AliyunChange(p, x, set), ~ P!Repeats(x), P!Strays(x, set) = {}
  PROVE  SinglePlan(p, view)
<1> DEFINE y == P!Normalized(x)
           es == P!WithIDs(y.entries, issued)
           route == Aliyun!WantedRoute(y, Aliyun!RouteOf(set))
           status == route.status
<1>1. p = P!Mutate(Aliyun!UpdateCalls(set, y, es, route), Aliyun!Finalized(es, route), Aliyun!KeyFor(y, route),
                   status, {})
  BY DEF AliyunChange
<1>2. HasLine(route)
  BY AliyunLine
<1>3. SetOK(set)
  BY AliyunSets
<1>4. PICK m : AliyunLists(set, view, m)
  BY AliyunSets
<1>5. Lists(set, view, m)
  BY <1>4 DEF AliyunLists
<1>6. request.id \subseteq 1..issued /\ Wanted(x, y, es, request.id)
  BY <1>5, UpdateWanted
<1> HIDE DEF y, es, route, status
<1> QED
  BY <1>1, <1>2, <1>3, <1>4, <1>6, AliyunUpdate

LEMMA AliyunPlans ==
  ASSUME adapter = "aliyun", issued \in Nat, NEW view, ViewOK(view), NEW x, NEW p, Allowed(p)
  PROVE  /\ CreateRequest(x) /\ p = Aliyun!CreatePlan(x, Aliyun!Sets(view), issued) => SinglePlan(p, view)
         /\ \A set \in Aliyun!Sets(view) : set.id = request.id =>
              /\ InputOK(x) /\ p = Aliyun!UpdatePlan(x, set, Aliyun!Sets(view), issued) => SinglePlan(p, view)
              /\ p = Aliyun!DeletePlan(set) => SinglePlan(p, view)
<1>1. ASSUME CreateRequest(x), p = Aliyun!CreatePlan(x, Aliyun!Sets(view), issued) PROVE SinglePlan(p, view)
  BY <1>1, AliyunPlanned, AliyunCreated
<1>2. ASSUME NEW set \in Aliyun!Sets(view), set.id = request.id
      PROVE  /\ InputOK(x) /\ p = Aliyun!UpdatePlan(x, set, Aliyun!Sets(view), issued) => SinglePlan(p, view)
             /\ p = Aliyun!DeletePlan(set) => SinglePlan(p, view)
  <2>1. SetOK(set)
    BY AliyunSets
  <2>2. PICK m : AliyunLists(set, view, m)
    BY AliyunSets
  <2>3. ASSUME InputOK(x), p = Aliyun!UpdatePlan(x, set, Aliyun!Sets(view), issued) PROVE SinglePlan(p, view)
    BY <1>2, <2>3, AliyunPlanned, AliyunUpdated
  <2>4. ASSUME p = Aliyun!DeletePlan(set) PROVE SinglePlan(p, view)
    BY <1>2, <2>1, <2>2, <2>4, AliyunDelete
  <2> QED BY <2>3, <2>4
<1> QED
  BY <1>1, <1>2

\* What the plans of Tencent Cloud are made of.
TencentCreation(p, x) ==
  LET y == P!Normalized(x)
      es == P!WithIDs(y.entries, issued)
      route == Tencent!WantedRoute(y, TencentNoRoute)
  IN  p = P!Mutate(Flattened(TencentAdds(y, route, es)), Tencent!Expected(TencentNoSet(y), es, route),
                   Tencent!KeyFor(y, route), NoStatus, {})
TencentChange(p, x, set) ==
  LET y == P!Normalized(x)
      es == P!WithIDs(y.entries, issued)
      route == Tencent!WantedRoute(y, Tencent!RouteOf(set))
  IN  p = P!Mutate(Tencent!UpdateCalls(set, y, es, route), Tencent!Expected(set, es, route), Tencent!KeyFor(y, route),
                   NoStatus, TencentGone(x, set))

LEMMA TencentPlanned ==
  ASSUME NEW x, NEW set, NEW sets, NEW p, Allowed(p)
  PROVE  /\ p = Tencent!CreatePlan(x, sets, issued) => TencentCreation(p, x)
         /\ p = Tencent!UpdatePlan(x, set, sets, issued) =>
              TencentChange(p, x, set) /\ ~ P!Repeats(x) /\ P!Strays(x, set) = {}
<1> DEFINE y == P!Normalized(x)
           es == P!WithIDs(y.entries, issued)
           route == Tencent!WantedRoute(y, TencentNoRoute)
           other == Tencent!WantedRoute(y, Tencent!RouteOf(set))
<1>1. y = P!Normalized(x) /\ es = P!WithIDs(y.entries, issued) /\ route = Tencent!WantedRoute(y, TencentNoRoute)
      /\ other = Tencent!WantedRoute(y, Tencent!RouteOf(set))
  OBVIOUS
<1> HIDE DEF y, es, route, other
<1>2. ASSUME p = Tencent!CreatePlan(x, sets, issued)
      PROVE  p = P!Mutate(Flattened(TencentAdds(y, route, es)), Tencent!Expected(TencentNoSet(y), es, route),
                          Tencent!KeyFor(y, route), NoStatus, {})
  BY <1>1, <1>2, TencentCreateSame
<1>3. ASSUME p = Tencent!UpdatePlan(x, set, sets, issued)
      PROVE  /\ ~ P!Repeats(x) /\ P!Strays(x, set) = {}
             /\ p = P!Mutate(Tencent!UpdateCalls(set, y, es, other), Tencent!Expected(set, es, other),
                             Tencent!KeyFor(y, other), NoStatus, TencentGone(x, set))
  BY <1>1, <1>3, TencentUpdateSame
<1> QED
  BY <1>2, <1>3 DEF TencentCreation, TencentChange, y, es, route, other

LEMMA TencentCreated ==
  ASSUME adapter = "tencent", issued \in Nat, NEW view, NEW x, CreateRequest(x), NEW p, TencentCreation(p, x)
  PROVE  SinglePlan(p, view)
<1> DEFINE y == P!Normalized(x)
           es == P!WithIDs(y.entries, issued)
           route == Tencent!WantedRoute(y, TencentNoRoute)
           none == TencentNoSet(y)
           status == NoStatus
<1>1. p = P!Mutate(Flattened(TencentAdds(y, route, es)), Tencent!Expected(none, es, route), Tencent!KeyFor(y, route),
                   status, {})
  BY DEF TencentCreation
<1>2. y = P!Normalized(x) /\ es = P!WithIDs(y.entries, issued)
  OBVIOUS
<1> HIDE DEF y, es, route, none, status
<1> QED
  BY <1>1, <1>2, TencentCreate

LEMMA TencentUpdated ==
  ASSUME adapter = "tencent", issued \in Nat, NEW view, ViewOK(view), NEW x, InputOK(x),
         NEW set \in Tencent!Sets(view), set.id = request.id,
         NEW p, TencentChange(p, x, set), ~ P!Repeats(x), P!Strays(x, set) = {}
  PROVE  SinglePlan(p, view)
<1> DEFINE y == P!Normalized(x)
           es == P!WithIDs(y.entries, issued)
           route == Tencent!WantedRoute(y, Tencent!RouteOf(set))
           status == NoStatus
           gone == TencentGone(x, set)
<1>1. p = P!Mutate(Tencent!UpdateCalls(set, y, es, route), Tencent!Expected(set, es, route), Tencent!KeyFor(y, route),
                   status, gone)
  BY DEF TencentChange
<1>3. SetOK(set)
  BY TencentSets
<1>4. PICK m : TencentLists(set, view, m)
  BY TencentSets
<1>5. Lists(set, view, m)
  BY <1>4 DEF TencentLists
<1>6. request.id \subseteq 1..issued /\ Wanted(x, y, es, request.id)
  BY <1>5, UpdateWanted
<1> HIDE DEF y, es, route, status, gone
<1> QED
  BY <1>1, <1>3, <1>4, <1>6, TencentUpdate

LEMMA TencentPlans ==
  ASSUME adapter = "tencent", issued \in Nat, NEW view, ViewOK(view), NEW x, NEW p, Allowed(p)
  PROVE  /\ CreateRequest(x) /\ p = Tencent!CreatePlan(x, Tencent!Sets(view), issued) => SinglePlan(p, view)
         /\ \A set \in Tencent!Sets(view) : set.id = request.id =>
              /\ InputOK(x) /\ p = Tencent!UpdatePlan(x, set, Tencent!Sets(view), issued) => SinglePlan(p, view)
              /\ p = Tencent!DeletePlan(set) => SinglePlan(p, view)
<1>1. ASSUME CreateRequest(x), p = Tencent!CreatePlan(x, Tencent!Sets(view), issued) PROVE SinglePlan(p, view)
  BY <1>1, TencentPlanned, TencentCreated
<1>2. ASSUME NEW set \in Tencent!Sets(view), set.id = request.id
      PROVE  /\ InputOK(x) /\ p = Tencent!UpdatePlan(x, set, Tencent!Sets(view), issued) => SinglePlan(p, view)
             /\ p = Tencent!DeletePlan(set) => SinglePlan(p, view)
  <2>1. SetOK(set)
    BY TencentSets
  <2>2. PICK m : TencentLists(set, view, m)
    BY TencentSets
  <2>3. ASSUME InputOK(x), p = Tencent!UpdatePlan(x, set, Tencent!Sets(view), issued) PROVE SinglePlan(p, view)
    BY <1>2, <2>3, TencentPlanned, TencentUpdated
  <2>4. ASSUME p = Tencent!DeletePlan(set) PROVE SinglePlan(p, view)
    BY <1>2, <2>1, <2>2, <2>4, TencentDelete
  <2> QED BY <2>3, <2>4
<1> QED
  BY <1>1, <1>2

\* What the plans of Cloudflare are made of.
CloudflareCreation(p, x) ==
  LET y == P!Normalized(x)
      es == P!WithIDs(y.entries, issued)
      options == Cloudflare!WantedOptions(y, CloudflareDefaults(x))
  IN  p = P!Mutate(Flattened(CloudflareAdds(y, options, es)), es, CloudflareKey(y, options), NoStatus, {})
CloudflareChange(p, x, set) ==
  LET y == P!Normalized(x)
      es == P!WithIDs(y.entries, issued)
      options == Cloudflare!WantedOptions(y, set.ext)
  IN  p = P!Mutate(Cloudflare!UpdateCalls(set, y, es, options), es, CloudflareKey(y, options), NoStatus, {})

LEMMA CloudflarePlanned ==
  ASSUME NEW x, NEW set, NEW sets, NEW p, Allowed(p)
  PROVE  /\ p = Cloudflare!CreatePlan(x, sets, issued) =>
              CloudflareCreation(p, x) /\ ~ CreateObjection(P!Normalized(x), x)
         /\ p = Cloudflare!UpdatePlan(x, set, sets, issued) =>
              /\ CloudflareChange(p, x, set) /\ ~ P!Repeats(x) /\ P!Strays(x, set) = {}
              /\ ~ UpdateObjection(P!Normalized(x), set)
<1> DEFINE y == P!Normalized(x)
           es == P!WithIDs(y.entries, issued)
           options == Cloudflare!WantedOptions(y, CloudflareDefaults(x))
           other == Cloudflare!WantedOptions(y, set.ext)
<1>1. y = P!Normalized(x) /\ es = P!WithIDs(y.entries, issued)
      /\ options = Cloudflare!WantedOptions(y, CloudflareDefaults(x))
      /\ other = Cloudflare!WantedOptions(y, set.ext)
  OBVIOUS
<1> HIDE DEF y, es, options, other
<1>2. ASSUME p = Cloudflare!CreatePlan(x, sets, issued)
      PROVE  /\ ~ CreateObjection(y, x)
             /\ p = P!Mutate(Flattened(CloudflareAdds(y, options, es)), es, CloudflareKey(y, options), NoStatus, {})
  BY <1>1, <1>2, CloudflareCreateSame
<1>3. ASSUME p = Cloudflare!UpdatePlan(x, set, sets, issued)
      PROVE  /\ ~ UpdateObjection(y, set) /\ ~ P!Repeats(x) /\ P!Strays(x, set) = {}
             /\ p = P!Mutate(Cloudflare!UpdateCalls(set, y, es, other), es, CloudflareKey(y, other), NoStatus, {})
  BY <1>1, <1>3, CloudflareUpdateSame
<1> QED
  BY <1>2, <1>3 DEF CloudflareCreation, CloudflareChange, y, es, options, other

LEMMA CloudflareCreated ==
  ASSUME adapter = "cloudflare", issued \in Nat, NEW view, NEW x, CreateRequest(x), NEW p, CloudflareCreation(p, x),
         ~ CreateObjection(P!Normalized(x), x)
  PROVE  SinglePlan(p, view)
<1> DEFINE y == P!Normalized(x)
           es == P!WithIDs(y.entries, issued)
           options == Cloudflare!WantedOptions(y, CloudflareDefaults(x))
           status == NoStatus
<1>1. p = P!Mutate(Flattened(CloudflareAdds(y, options, es)), es, CloudflareKey(y, options), status, {})
  BY DEF CloudflareCreation
<1>2. TTLFits(y.ttl, options)
  BY CloudflareFits DEF CreateObjection, UpdateObjection
<1>3. y = P!Normalized(x) /\ es = P!WithIDs(y.entries, issued)
  OBVIOUS
<1> HIDE DEF y, es, options, status
<1> QED
  BY <1>1, <1>2, <1>3, CloudflareCreate

LEMMA CloudflareUpdated ==
  ASSUME adapter = "cloudflare", issued \in Nat, NEW view, ViewOK(view), NEW x, InputOK(x),
         NEW set \in Cloudflare!Sets(view), set.id = request.id,
         NEW p, CloudflareChange(p, x, set), ~ P!Repeats(x), P!Strays(x, set) = {},
         ~ UpdateObjection(P!Normalized(x), set)
  PROVE  SinglePlan(p, view)
<1> DEFINE y == P!Normalized(x)
           es == P!WithIDs(y.entries, issued)
           options == Cloudflare!WantedOptions(y, set.ext)
           status == NoStatus
<1>1. p = P!Mutate(Cloudflare!UpdateCalls(set, y, es, options), es, CloudflareKey(y, options), status, {})
  BY DEF CloudflareChange
<1>2. TTLFits(y.ttl, options)
  BY CloudflareFits DEF CreateObjection, UpdateObjection
<1>3. SetOK(set)
  BY CloudflareSets
<1>4. PICK m : CloudflareLists(set, view, m)
  BY CloudflareSets
<1>5. Lists(set, view, m)
  BY <1>4 DEF CloudflareLists
<1>6. request.id \subseteq 1..issued /\ Wanted(x, y, es, request.id)
  BY <1>5, UpdateWanted
<1> HIDE DEF y, es, options, status
<1> QED
  BY <1>1, <1>2, <1>3, <1>4, <1>6, CloudflareUpdate

LEMMA CloudflarePlans ==
  ASSUME adapter = "cloudflare", issued \in Nat, NEW view, ViewOK(view), NEW x, NEW p, Allowed(p)
  PROVE  /\ CreateRequest(x) /\ p = Cloudflare!CreatePlan(x, Cloudflare!Sets(view), issued) => SinglePlan(p, view)
         /\ \A set \in Cloudflare!Sets(view) : set.id = request.id =>
              /\ InputOK(x) /\ p = Cloudflare!UpdatePlan(x, set, Cloudflare!Sets(view), issued) => SinglePlan(p, view)
              /\ p = Cloudflare!DeletePlan(set) => SinglePlan(p, view)
<1>1. ASSUME CreateRequest(x), p = Cloudflare!CreatePlan(x, Cloudflare!Sets(view), issued) PROVE SinglePlan(p, view)
  BY <1>1, CloudflarePlanned, CloudflareCreated
<1>2. ASSUME NEW set \in Cloudflare!Sets(view), set.id = request.id
      PROVE  /\ InputOK(x) /\ p = Cloudflare!UpdatePlan(x, set, Cloudflare!Sets(view), issued) => SinglePlan(p, view)
             /\ p = Cloudflare!DeletePlan(set) => SinglePlan(p, view)
  <2>1. SetOK(set)
    BY CloudflareSets
  <2>2. PICK m : CloudflareLists(set, view, m)
    BY CloudflareSets
  <2>3. ASSUME InputOK(x), p = Cloudflare!UpdatePlan(x, set, Cloudflare!Sets(view), issued) PROVE SinglePlan(p, view)
    BY <1>2, <2>3, CloudflarePlanned, CloudflareUpdated
  <2>4. ASSUME p = Cloudflare!DeletePlan(set) PROVE SinglePlan(p, view)
    BY <1>2, <2>1, <2>2, <2>4, CloudflareDelete
  <2> QED BY <2>3, <2>4
<1> QED
  BY <1>1, <1>2

\* What those of Huawei Cloud are made of.
HuaweiCreation(p, x) ==
  LET y == P!Normalized(x)
      routing == Huawei!RoutingOf(y)
  IN  p = P!Mutate(OneCall("add", NextID, HuaweiNew(y, routing)), y.entries,
                   Huawei!KeyFor(NextID, y, HuaweiLineOf(routing)), NoStatus, {})
HuaweiChange(p, x, set) ==
  LET y == P!Normalized(x)
      now == Huawei!RoutingOf(set)
      id == HuaweiIDOf(set)
  IN  p = P!Mutate(HuaweiUpdateCalls(id, set, y, now), y.entries, Huawei!KeyFor(id, y, HuaweiLineOf(now)), NoStatus, {})

LEMMA HuaweiPlanned ==
  ASSUME NEW x, NEW set, NEW sets, NEW p, Allowed(p)
  PROVE  /\ p = Huawei!CreatePlan(x, sets, issued) => HuaweiCreation(p, x)
         /\ p = Huawei!UpdatePlan(x, set, sets, issued) => HuaweiChange(p, x, set)
<1> DEFINE y == P!Normalized(x)
<1>1. y = P!Normalized(x)
  OBVIOUS
<1> HIDE DEF y
<1>2. ASSUME p = Huawei!CreatePlan(x, sets, issued)
      PROVE  p = P!Mutate(OneCall("add", NextID, HuaweiNew(y, Huawei!RoutingOf(y))), y.entries,
                          Huawei!KeyFor(NextID, y, HuaweiLineOf(Huawei!RoutingOf(y))), NoStatus, {})
  BY <1>1, <1>2, HuaweiCreateSame
<1>3. ASSUME p = Huawei!UpdatePlan(x, set, sets, issued)
      PROVE  p = P!Mutate(HuaweiUpdateCalls(HuaweiIDOf(set), set, y, Huawei!RoutingOf(set)), y.entries,
                          Huawei!KeyFor(HuaweiIDOf(set), y, HuaweiLineOf(Huawei!RoutingOf(set))), NoStatus, {})
  BY <1>1, <1>3, HuaweiUpdateSame
<1> QED
  BY <1>2, <1>3 DEF HuaweiCreation, HuaweiChange, y

LEMMA HuaweiPlans ==
  ASSUME adapter = "huawei", issued \in Nat, NEW view, ViewOK(view), Huawei!Readable(view), NEW x, NEW p, Allowed(p)
  PROVE  /\ InputOK(x) /\ p = Huawei!CreatePlan(x, Huawei!Sets(view), issued) => HuaweiCreates(p)
         /\ \A set \in Huawei!Sets(view) : set.id = request.id =>
              /\ InputOK(x) /\ p = Huawei!UpdatePlan(x, set, Huawei!Sets(view), issued) => HuaweiUpdates(p, view)
              /\ p = Huawei!DeletePlan(set) => HuaweiDeletes(p, view)
<1> DEFINE y == P!Normalized(x)
           routing == Huawei!RoutingOf(y)
           status == NoStatus
<1>1. y = P!Normalized(x) /\ routing = Huawei!RoutingOf(y)
  OBVIOUS
<1>2. InputOK(x) => EntriesOK(y.type, y.entries)
  <2>1. SUFFICES ASSUME InputOK(x) PROVE EntriesOK(y.type, y.entries)
    OBVIOUS
  <2> HIDE DEF y
  <2>2. EntriesOK(x.type, y.entries) /\ y = [name |-> x.name, type |-> x.type, ttl |-> x.ttl, entries |-> y.entries, ext |-> x.ext]
    BY <1>1, <2>1, NormalizedInput
  <2> QED BY <2>2
<1>3. ASSUME InputOK(x), p = Huawei!CreatePlan(x, Huawei!Sets(view), issued) PROVE HuaweiCreates(p)
  <2>1. HuaweiCreation(p, x)
    BY <1>3, HuaweiPlanned
  <2>2. p = P!Mutate(OneCall("add", NextID, HuaweiNew(y, routing)), y.entries,
                     Huawei!KeyFor(NextID, y, HuaweiLineOf(routing)), status, {})
    BY <2>1 DEF HuaweiCreation
  <2> HIDE DEF y, routing, status
  <2> QED BY <1>1, <1>2, <1>3, <2>2, HuaweiCreate
<1>4. ASSUME NEW set \in Huawei!Sets(view), set.id = request.id
      PROVE  /\ InputOK(x) /\ p = Huawei!UpdatePlan(x, set, Huawei!Sets(view), issued) => HuaweiUpdates(p, view)
             /\ p = Huawei!DeletePlan(set) => HuaweiDeletes(p, view)
  <2>1. SetOK(set)
    BY HuaweiSets
  <2>2. PICK vid : HuaweiLists(set, view, vid)
    BY HuaweiSets
  <2>3. ASSUME InputOK(x), p = Huawei!UpdatePlan(x, set, Huawei!Sets(view), issued) PROVE HuaweiUpdates(p, view)
    <3> DEFINE now == Huawei!RoutingOf(set)
               id == HuaweiIDOf(set)
    <3>1. HuaweiChange(p, x, set)
      BY <2>3, HuaweiPlanned
    <3>2. p = P!Mutate(HuaweiUpdateCalls(id, set, y, now), y.entries, Huawei!KeyFor(id, y, HuaweiLineOf(now)), status, {})
      BY <3>1 DEF HuaweiChange
    <3>3. now = Huawei!RoutingOf(set) /\ id = HuaweiIDOf(set)
      OBVIOUS
    <3> HIDE DEF now, id, y, status
    <3> QED BY <1>2, <1>4, <2>1, <2>2, <2>3, <3>2, <3>3, HuaweiUpdate
  <2>4. ASSUME p = Huawei!DeletePlan(set) PROVE HuaweiDeletes(p, view)
    <3> DEFINE key == None
               gone == set.id
    <3>1. p = P!Mutate(OneCall("set", HuaweiIDOf(set), [phase |-> "PENDING_DELETE"]), <<>>, key, status, gone)
      BY <2>4, HuaweiDeleteSame
    <3> HIDE DEF key, gone, status
    <3> QED BY <1>4, <2>2, <3>1, HuaweiDelete
  <2> QED BY <2>3, <2>4
<1> QED
  BY <1>3, <1>4

---------------------------------------------------------------------------
(* The plan made from a list, whatever the adapter. *)

PlanMade(p, view) ==
  IF adapter = "huawei"
  THEN IF request.kind = "create" THEN HuaweiCreates(p)
       ELSE IF request.kind = "update" THEN HuaweiUpdates(p, view) ELSE HuaweiDeletes(p, view)
  ELSE SinglePlan(p, view)

\* Whether an adapter is in use, hidden from the solver.
Uses(a) == adapter = a

LEMMA SinglePlansMade ==
  ASSUME issued \in Nat, ~ Uses("huawei"), adapter \in Adapters, NEW view, ViewOK(view), NEW x, NEW p, Allowed(p)
  PROVE  /\ CreateRequest(x) /\ x = request.input /\ p = CreatePlan(Sets(view)) => SinglePlan(p, view)
         /\ \A set \in Sets(view) : set.id = request.id =>
              /\ InputOK(x) /\ x = request.input /\ p = UpdatePlan(set, Sets(view)) => SinglePlan(p, view)
              /\ p = DeletePlan(set) => SinglePlan(p, view)
<1>1. CASE adapter = "aliyun"
  BY <1>1, AliyunPlans DEF Sets, CreatePlan, UpdatePlan, DeletePlan
<1>2. CASE adapter = "tencent"
  BY <1>2, TencentPlans DEF Sets, CreatePlan, UpdatePlan, DeletePlan
<1>3. CASE adapter = "cloudflare"
  BY <1>3, CloudflarePlans DEF Sets, CreatePlan, UpdatePlan, DeletePlan
<1> QED
  BY <1>1, <1>2, <1>3, AdaptersAssumption DEF Uses

LEMMA HuaweiPlansMade ==
  ASSUME issued \in Nat, adapter = "huawei", NEW view, ViewOK(view), Readable(view), NEW x, NEW p, Allowed(p)
  PROVE  /\ InputOK(x) /\ x = request.input /\ p = CreatePlan(Sets(view)) => HuaweiCreates(p)
         /\ \A set \in Sets(view) : set.id = request.id =>
              /\ InputOK(x) /\ x = request.input /\ p = UpdatePlan(set, Sets(view)) => HuaweiUpdates(p, view)
              /\ p = DeletePlan(set) => HuaweiDeletes(p, view)
BY HuaweiPlans DEF Sets, CreatePlan, UpdatePlan, DeletePlan, Readable

\* What the service passes on: the normal form of what the client wants.
PassedOn(r) == InputOK(r.desired) /\ r.input = P!Normalized(r.desired)

LEMMA PassedInput ==
  ASSUME NEW r, PassedOn(r)
  PROVE  /\ InputOK(r.input)
         /\ r.input.name = r.desired.name /\ r.input.type = r.desired.type
         /\ r.input.ttl = r.desired.ttl /\ r.input.ext = r.desired.ext
         /\ DOMAIN r.input.entries = DOMAIN r.desired.entries
         /\ Len(r.input.entries) = Len(r.desired.entries)
         /\ \A i \in DOMAIN r.desired.entries :
              LET e == r.desired.entries[i]  f == r.input.entries[i] IN
              f.id = e.id /\ f.text.word = e.text.word /\ f.num = e.num /\ f.ext = e.ext
<1> DEFINE x == r.desired
           y == r.input
<1>1. InputOK(x) /\ y = P!Normalized(x)
  BY DEF PassedOn
<1> HIDE DEF x, y
<1>2. /\ y = [name |-> x.name, type |-> x.type, ttl |-> x.ttl, entries |-> y.entries, ext |-> x.ext]
      /\ EntriesOK(x.type, y.entries) /\ DOMAIN y.entries = DOMAIN x.entries
      /\ Len(y.entries) = Len(x.entries)
      /\ \A i \in DOMAIN x.entries :
              LET e == x.entries[i]  f == y.entries[i] IN
              f.id = e.id /\ f.text.word = e.text.word /\ f.num = e.num /\ f.ext = e.ext
  BY <1>1, NormalizedInput
<1>3. InputOK(y) /\ y.name = x.name /\ y.type = x.type /\ y.ttl = x.ttl /\ y.ext = x.ext
  BY <1>2 DEF InputOK
<1> QED
  BY <1>2, <1>3 DEF x, y

LEMMA CreateIsNew ==
  ASSUME RequestOK(request), request.kind = "create", PassedOn(request)
  PROVE  CreateRequest(request.input)
<1>1. /\ request.id = {} /\ \A i \in DOMAIN request.desired.entries : request.desired.entries[i].id = None
  BY DEF RequestOK
<1> QED
  BY <1>1, PassedInput DEF CreateRequest

LEMMA PlansMade ==
  ASSUME issued \in Nat, adapter \in Adapters, RequestOK(request),
         request.kind # "delete" => PassedOn(request),
         NEW view, ViewOK(view), NEW p, p = PlanFrom(view), Allowed(p)
  PROVE  PlanMade(p, view) /\ Readable(view)
<1> DEFINE x == request.input
<1>1. x = request.input
  OBVIOUS
<1>2. CASE request.kind = "create"
  <2>1. p = CreatePlan(Sets(view)) /\ Readable(view)
    BY <1>2, PlanFromParts
  <2>2. InputOK(x) /\ CreateRequest(x)
    BY <1>2, CreateIsNew, PassedInput
  <2> HIDE DEF x
  <2>3. CASE adapter = "huawei"
    <3>1. HuaweiCreates(p)
      BY <1>1, <2>1, <2>2, <2>3, HuaweiPlansMade
    <3> QED BY <1>2, <2>1, <2>3, <3>1 DEF PlanMade
  <2>4. CASE ~ Uses("huawei")
    <3>1. SinglePlan(p, view)
      BY <1>1, <2>1, <2>2, <2>4, SinglePlansMade
    <3> QED BY <2>1, <2>4, <3>1 DEF PlanMade, Uses
  <2> QED BY <2>3, <2>4 DEF Uses
<1>3. CASE request.kind = "update"
  <2>1. PICK set \in Sets(view) : set.id = request.id /\ p = UpdatePlan(set, Sets(view))
    BY <1>3, PlanFromParts
  <2>2. Readable(view)
    BY PlanFromParts
  <2>3. InputOK(x)
    BY <1>3, PassedInput
  <2> HIDE DEF x
  <2>4. CASE adapter = "huawei"
    <3>1. HuaweiUpdates(p, view)
      BY <1>1, <2>1, <2>2, <2>3, <2>4, HuaweiPlansMade
    <3> QED BY <1>3, <2>2, <2>4, <3>1 DEF PlanMade
  <2>5. CASE ~ Uses("huawei")
    <3>1. SinglePlan(p, view)
      BY <1>1, <2>1, <2>3, <2>5, SinglePlansMade
    <3> QED BY <2>2, <2>5, <3>1 DEF PlanMade, Uses
  <2> QED BY <2>4, <2>5 DEF Uses
<1>4. CASE request.kind = "delete"
  <2>1. PICK set \in Sets(view) : set.id = request.id /\ p = DeletePlan(set)
    BY <1>4, PlanFromParts
  <2>2. Readable(view)
    BY PlanFromParts
  <2>4. CASE adapter = "huawei"
    <3>1. HuaweiDeletes(p, view)
      BY <2>1, <2>2, <2>4, HuaweiPlansMade
    <3> QED BY <1>4, <2>2, <2>4, <3>1 DEF PlanMade
  <2>5. CASE ~ Uses("huawei")
    <3>1. SinglePlan(p, view)
      BY <2>1, <2>5, SinglePlansMade
    <3> QED BY <2>2, <2>5, <3>1 DEF PlanMade, Uses
  <2> QED BY <2>4, <2>5 DEF Uses
<1> QED
  BY <1>2, <1>3, <1>4 DEF RequestOK

\* What every plan is, for the records to stay what they are.
PlanOK(p) ==
  PlanShape(p) /\ \A c \in Items(p.calls) : CallOK(c, LastID(p.goal))

LEMMA SinglePlanOK ==
  ASSUME NEW p, NEW view, SinglePlan(p, view)
  PROVE  PlanOK(p)
<1>1. PICK w, d : SingleCalls(p.calls, view, GoalKey(p), p.goal, LastID(p.goal), w, d)
  BY DEF SinglePlan
<1>2. IsSeq(w) /\ IsSeq(d) /\ Joins(p.calls, w, d)
  BY <1>1 DEF SingleCalls, CallsForAll, Joins
<1>3. Items(p.calls) = Items(w) \cup Items(d)
  BY <1>2, ConcatIsSeq DEF Joins
<1>4. \A c \in Items(w) \cup Items(d) : CallOK(c, LastID(p.goal))
  BY <1>1 DEF SingleCalls, CallsForAll
<1>5. PlanShape(p)
  BY DEF SinglePlan
<1> QED
  BY <1>3, <1>4, <1>5 DEF PlanOK

LEMMA HuaweiPlanOK ==
  ASSUME NEW p, NEW view, HuaweiCreates(p) \/ HuaweiUpdates(p, view) \/ HuaweiDeletes(p, view)
  PROVE  PlanOK(p)
<1>1. CASE HuaweiCreates(p)
  <2>1. PICK c : p.calls = <<c>> /\ CallOK(c, LastID(p.goal))
    BY <1>1 DEF HuaweiCreates
  <2> QED BY <1>1, <2>1, SingletonIsSeq DEF PlanOK, HuaweiCreates
<1>2. CASE HuaweiUpdates(p, view)
  <2>1. PICK c, s : /\ Joins(p.calls, <<c>>, s) /\ CallOK(c, LastID(p.goal)) /\ IsSeq(s)
                    /\ \A d \in Items(s) : CallOK(d, LastID(p.goal))
    BY <1>2 DEF HuaweiUpdates, Joins
  <2>2. IsSeq(<<c>>) /\ Items(<<c>>) = {c}
    BY SinglesOK
  <2>3. Items(p.calls) = {c} \cup Items(s)
    BY <2>1, <2>2, ConcatIsSeq DEF Joins
  <2> QED BY <1>2, <2>1, <2>3 DEF PlanOK, HuaweiUpdates
<1>3. CASE HuaweiDeletes(p, view)
  <2>1. PICK c : p.calls = <<c>> /\ CallOK(c, LastID(p.goal))
    BY <1>3 DEF HuaweiDeletes
  <2> QED BY <1>3, <2>1, SingletonIsSeq DEF PlanOK, HuaweiDeletes
<1> QED
  BY <1>1, <1>2, <1>3

LEMMA PlansOK ==
  ASSUME NEW p, NEW view, PlanMade(p, view)
  PROVE  PlanOK(p)
BY SinglePlanOK, HuaweiPlanOK DEF PlanMade

---------------------------------------------------------------------------
(* What a mutation asks for, and what its last read shows. *)

\* The routing fields of an entry as the client wants them: a line or a weight
\* it does not name may be any.
NoLine == ""
Fits(own, wanted) ==
  wanted # None =>
    /\ "line" \in DOMAIN wanted => wanted.line = NoLine \/ own.line = wanted.line
    /\ "weight" \in DOMAIN wanted => wanted.weight = None \/ own.weight = wanted.weight
    /\ "remark" \in DOMAIN wanted => own.remark = wanted.remark

LEMMA AskedParts ==
  ASSUME NEW e, NEW w
  PROVE  Asked(e, w) <=> e.text.word = w.text.word /\ e.num = w.num /\ Fits(e.ext, w.ext)
BY Zenon DEF Asked, Fits, NoLine

\* The fields of the set itself.
StatusFits(x, status) == x.ext # None => x.ext.status \in {NoStatus, status}
OptionsFit(x, options) ==
  x.ext # None =>
    /\ options.proxied \/ x.ext.proxied # TRUE
    /\ options.comment = x.ext.comment /\ options.tags = x.ext.tags

Shows(set, x) ==
  /\ set.name = x.name /\ set.type = x.type /\ set.ttl = x.ttl
  /\ Len(set.entries) = Len(x.entries)
  /\ \A i \in DOMAIN x.entries : \E j \in DOMAIN set.entries : Asked(set.entries[j], x.entries[i])
  /\ IF adapter = "cloudflare" THEN OptionsFit(x, set.ext)
     ELSE StatusFits(x, set.ext.status) \/ (adapter = "huawei" /\ set.ext.provider \in Huawei!Stops)

LEMMA ShownParts ==
  ASSUME (result.set # None /\ (adapter = "huawei" => ~ disturbed)) => Shows(result.set, request.desired)
  PROVE  SuccessShowsTheRequest
BY Zenon DEF SuccessShowsTheRequest, Shows, OptionsFit, StatusFits, NoStatus

\* What shows the normal form shows what the client wants.
LEMMA PassedShows ==
  ASSUME NEW r, PassedOn(r), NEW set, Shows(set, r.input)
  PROVE  Shows(set, r.desired)
<1> DEFINE x == r.desired
           y == r.input
<1>1. /\ y.name = x.name /\ y.type = x.type /\ y.ttl = x.ttl /\ y.ext = x.ext
      /\ DOMAIN y.entries = DOMAIN x.entries /\ Len(y.entries) = Len(x.entries)
      /\ \A i \in DOMAIN x.entries :
              LET e == x.entries[i]  f == y.entries[i] IN
              f.text.word = e.text.word /\ f.num = e.num /\ f.ext = e.ext
  BY PassedInput
<1>2. Shows(set, y)
  OBVIOUS
<1> HIDE DEF x, y
<1>3. \A i \in DOMAIN x.entries : \E j \in DOMAIN set.entries : Asked(set.entries[j], x.entries[i])
  <2> SUFFICES ASSUME NEW i \in DOMAIN x.entries
               PROVE  \E j \in DOMAIN set.entries : Asked(set.entries[j], x.entries[i])
    OBVIOUS
  <2>1. PICK j \in DOMAIN set.entries : Asked(set.entries[j], y.entries[i])
    BY <1>1, <1>2 DEF Shows
  <2>2. Asked(set.entries[j], x.entries[i])
    BY <1>1, <2>1, AskedParts
  <2> QED BY <2>2
<1>4. Shows(set, x)
  BY <1>1, <1>2, <1>3 DEF Shows, OptionsFit, StatusFits
<1> QED
  BY <1>4 DEF x

\* A set with no two members.
Many(n) == n > 1

LEMMA AtMostOne ==
  ASSUME NEW n \in Nat, NEW f, NEW S, \A s \in S : \E i \in 1..n : s = f[i], ~ Many(Cardinality(S))
  PROVE  \A s, t \in S : s = t
<1> DEFINE T == {f[i] : i \in 1..n}
           g == [i \in 1..n |-> f[i]]
<1>1. g \in Surjection(1..n, T)
  BY DEF Surjection
<1>2. IsFiniteSet(1..n)
  BY FS_Interval
<1> HIDE DEF T, g
<1>3. IsFiniteSet(T)
  BY <1>1, <1>2, FS_Surjection
<1>4. S \in SUBSET T
  BY DEF T
<1>5. IsFiniteSet(S)
  BY <1>3, <1>4, FS_Subset
<1>6. Cardinality(S) \in {0, 1}
  <2>1. Cardinality(S) \in Nat
    BY <1>5, FS_CardinalityType
  <2> QED BY <2>1 DEF Many
<1>7. CASE Cardinality(S) = 0
  BY <1>5, <1>7, FS_EmptySet
<1>8. CASE Cardinality(S) = 1
  <2>1. PICK s : S = {s}
    BY <1>5, <1>8, FS_Singleton
  <2> QED BY <2>1
<1> QED
  BY <1>6, <1>7, <1>8

\* What a plan for single records asks the last read to show.
Aims(p, x) ==
  /\ p.key.name = x.name /\ p.key.type = x.type /\ p.key.ttl = x.ttl
  /\ IsSeq(p.goal) /\ DOMAIN p.goal = DOMAIN x.entries /\ Len(p.goal) = Len(x.entries)
  /\ \A i, j \in DOMAIN p.goal : p.goal[i].id = p.goal[j].id => i = j
  /\ \A i \in DOMAIN x.entries :
       /\ p.goal[i].text.word = x.entries[i].text.word /\ p.goal[i].num = x.entries[i].num
       /\ adapter # "cloudflare" => Fits(p.goal[i].ext, x.entries[i].ext)

LEMMA AimsAt ==
  ASSUME NEW x, NEW y, NEW es, NEW ids, Wanted(x, y, es, ids), NEW p, SameEntries(p.goal, es),
         p.key.name = y.name, p.key.type = y.type, p.key.ttl = y.ttl,
         \A i \in DOMAIN es : adapter # "cloudflare" => Fits(p.goal[i].ext, es[i].ext)
  PROVE  Aims(p, x)
<1>1. /\ IsSeq(p.goal) /\ DOMAIN p.goal = DOMAIN es /\ Len(p.goal) = Len(es)
      /\ \A i \in DOMAIN es :
           p.goal[i].id = es[i].id /\ p.goal[i].text = es[i].text /\ p.goal[i].num = es[i].num
  BY DEF SameEntries
<1>2. /\ DOMAIN es = DOMAIN x.entries /\ Len(es) = Len(x.entries)
      /\ \A i \in DOMAIN x.entries :
           /\ es[i].text = y.entries[i].text /\ y.entries[i].text.word = x.entries[i].text.word
           /\ es[i].num = x.entries[i].num /\ es[i].ext = x.entries[i].ext
      /\ \A i, j \in DOMAIN x.entries : es[i].id = es[j].id => i = j
  BY DEF Wanted
<1>3. y.type = x.type /\ y.name = x.name /\ y.ttl = x.ttl
  BY WantedFacts
<1> QED
  BY <1>1, <1>2, <1>3 DEF Aims

---------------------------------------------------------------------------
(* What a plan of Alibaba Cloud aims at, and its last read. *)

\* The routing of a plan is what the entries and the set name.
LEMMA AliyunRouted ==
  ASSUME NEW y, IsSeq(y.entries), NEW fallback, ~ Aliyun!Objection(y, fallback),
         NEW route, route = Aliyun!WantedRoute(y, fallback)
  PROVE  /\ \A i \in DOMAIN y.entries :
              LET w == y.entries[i].ext IN
              w # None => /\ w.line = NoLine \/ route.line = w.line
                          /\ w.weight # None => route.weighted
         /\ StatusFits(y, route.status)
<1> DEFINE es == y.entries
           lines == Aliyun!LinesOf(y)
           f == [i \in DOMAIN es |-> es[i].ext.line]
<1>1. DOMAIN es = 1..Len(es) /\ Len(es) \in Nat
  BY SeqFacts
<1>2. ~ Many(Cardinality(lines))
  <2>1. ~ (Aliyun!Cardinality(Aliyun!LinesOf(y)) > 1)
    BY PTL DEF Aliyun!Objection
  <2>2. ~ Many(Aliyun!Cardinality(lines))
    BY <2>1, Zenon DEF Many
  <2> QED BY <2>2, SameCardinality, Zenon
<1>3. lines = {es[i].ext.line : i \in {j \in DOMAIN es : es[j].ext # None}} \ {NoLine}
  BY Zenon DEF Aliyun!LinesOf, NoLine
<1>4. route.line = IF lines # {} THEN CHOOSE line \in lines : TRUE
                   ELSE IF fallback.line = NoLine THEN Aliyun!DefaultLine ELSE fallback.line
  <2> DEFINE line == IF lines # {} THEN CHOOSE line \in lines : TRUE
                     ELSE IF fallback.line = NoLine THEN Aliyun!DefaultLine ELSE fallback.line
             status == IF Aliyun!StatusOf(y) # "" THEN Aliyun!StatusOf(y) ELSE fallback.status
             weighted == \E i \in DOMAIN y.entries : Aliyun!WeightOf(y.entries[i]) # None
  <2>1. route = [line |-> line, status |-> status, weighted |-> weighted]
    BY Zenon DEF Aliyun!WantedRoute, NoLine
  <2> HIDE DEF line, status, weighted
  <2>2. route.line = line
    BY <2>1
  <2> QED BY <2>2 DEF line
<1>5. route.status = (IF Aliyun!StatusOf(y) # NoStatus THEN Aliyun!StatusOf(y) ELSE fallback.status)
      /\ (route.weighted <=> \E i \in DOMAIN es : Aliyun!WeightOf(es[i]) # None)
  BY Zenon DEF Aliyun!WantedRoute, NoStatus
<1>6. \A s, t \in lines : s = t
  <2>1. \A s \in lines : \E i \in 1..Len(es) : s = f[i]
    BY <1>1, <1>3
  <2> DEFINE n == Len(es)
  <2>2. n \in Nat /\ \A s \in lines : \E i \in 1..n : s = f[i]
    BY <1>1, <2>1
  <2> HIDE DEF lines, f, es, n
  <2> QED BY <1>2, <2>2, AtMostOne
<1>7. ASSUME NEW i \in DOMAIN es, es[i].ext # None
      PROVE  /\ es[i].ext.line = NoLine \/ route.line = es[i].ext.line
             /\ es[i].ext.weight # None => route.weighted
  <2>1. es[i].ext.line # NoLine => es[i].ext.line \in lines
    BY <1>3, <1>7
  <2> HIDE DEF lines
  <2>2. es[i].ext.line # NoLine => route.line = es[i].ext.line
    BY <1>4, <1>6, <2>1
  <2>3. es[i].ext.weight # None => Aliyun!WeightOf(es[i]) # None
    BY <1>7 DEF Aliyun!WeightOf
  <2>4. es[i].ext.weight # None => route.weighted
    BY <1>5, <2>3, Zenon
  <2> QED BY <2>2, <2>4
<1>8. StatusFits(y, route.status)
  <2>1. y.ext # None => Aliyun!StatusOf(y) = y.ext.status
    BY Zenon DEF Aliyun!StatusOf
  <2> QED BY <1>5, <2>1 DEF StatusFits
<1> QED
  BY <1>7, <1>8

LEMMA AliyunFinalFits ==
  ASSUME NEW e, NEW route,
         e.ext # None => /\ e.ext.line = NoLine \/ route.line = e.ext.line
                         /\ e.ext.weight # None => route.weighted
  PROVE  Fits(AliyunFinal(e, route), e.ext)
<1> DEFINE weight == IF route.weighted THEN Aliyun!WeightOf(e) ELSE None
           remark == IF e.ext = None THEN "" ELSE e.ext.remark
           own == [line |-> route.line, status |-> route.status, weight |-> weight, remark |-> remark]
<1>1. AliyunFinal(e, route) = own
  BY Zenon DEF AliyunFinal
<1>2. own.line = route.line /\ own.weight = weight /\ own.remark = remark
  BY DEF own
<1>3. e.ext # None => remark = e.ext.remark
  BY Zenon
<1>4. e.ext # None /\ e.ext.weight # None => weight = e.ext.weight
  BY Zenon DEF Aliyun!WeightOf
<1> HIDE DEF own, weight, remark
<1> QED
  BY <1>1, <1>2, <1>3, <1>4 DEF Fits

LEMMA AliyunAims ==
  ASSUME adapter = "aliyun", NEW x, NEW y, NEW es, NEW ids, Wanted(x, y, es, ids),
         NEW fallback, ~ Aliyun!Objection(y, fallback), NEW route, route = Aliyun!WantedRoute(y, fallback),
         NEW calls, NEW p,
         p = P!Mutate(calls, Aliyun!Finalized(es, route), Aliyun!KeyFor(y, route), route.status, {})
  PROVE  Aims(p, x) /\ StatusFits(x, p.status)
<1> DEFINE goal == Aliyun!Finalized(es, route)
           key == Aliyun!KeyFor(y, route)
<1>1. key.name = y.name /\ key.type = y.type /\ key.ttl = y.ttl
  BY DEF Aliyun!KeyFor
<1>2. SameEntries(goal, es) /\ \A i \in DOMAIN es : goal[i].ext = AliyunFinal(es[i], route)
  BY WantedFacts, AliyunFinalized
<1>3. p.goal = goal /\ p.key = key /\ p.status = route.status
  BY PlanFields
<1> HIDE DEF goal, key
<1>4. IsSeq(y.entries) /\ DOMAIN es = DOMAIN y.entries /\ \A i \in DOMAIN es : es[i].ext = y.entries[i].ext
  BY DEF Wanted, EntriesOK
<1>5. \A i \in DOMAIN es : Fits(goal[i].ext, es[i].ext)
  BY <1>2, <1>4, AliyunRouted, AliyunFinalFits
<1>6. y.ext = x.ext
  BY WantedFacts
<1>7. StatusFits(x, p.status)
  BY <1>3, <1>4, <1>6, AliyunRouted DEF StatusFits
<1>8. SameEntries(p.goal, es) /\ p.key.name = y.name /\ p.key.type = y.type /\ p.key.ttl = y.ttl
      /\ \A i \in DOMAIN es : adapter # "cloudflare" => Fits(p.goal[i].ext, es[i].ext)
  BY <1>1, <1>2, <1>3, <1>5
<1>9. Aims(p, x)
  BY <1>8, AimsAt
<1> QED
  BY <1>7, <1>9

\* A last read that finds all that the plan expects of the entries.
LEMMA EntriesShown ==
  ASSUME NEW p, NEW x, Aims(p, x), NEW set, Len(set.entries) = Len(p.goal),
         \A i \in DOMAIN p.goal : \E j \in DOMAIN set.entries :
            /\ set.entries[j].text = p.goal[i].text /\ set.entries[j].num = p.goal[i].num
            /\ Fits(set.entries[j].ext, x.entries[i].ext)
  PROVE  /\ Len(set.entries) = Len(x.entries)
         /\ \A i \in DOMAIN x.entries : \E j \in DOMAIN set.entries : Asked(set.entries[j], x.entries[i])
<1>1. /\ DOMAIN p.goal = DOMAIN x.entries /\ Len(p.goal) = Len(x.entries)
      /\ \A i \in DOMAIN x.entries :
           p.goal[i].text.word = x.entries[i].text.word /\ p.goal[i].num = x.entries[i].num
  BY DEF Aims
<1>2. ASSUME NEW i \in DOMAIN x.entries PROVE \E j \in DOMAIN set.entries : Asked(set.entries[j], x.entries[i])
  <2>1. PICK j \in DOMAIN set.entries :
            /\ set.entries[j].text = p.goal[i].text /\ set.entries[j].num = p.goal[i].num
            /\ Fits(set.entries[j].ext, x.entries[i].ext)
    BY <1>1
  <2>2. Asked(set.entries[j], x.entries[i])
    BY <1>1, <2>1, AskedParts
  <2> QED BY <2>2
<1> QED
  BY <1>1, <1>2

LEMMA AliyunShown ==
  ASSUME adapter = "aliyun", NEW p, NEW x, Aims(p, x), StatusFits(x, p.status), NEW sets,
         NEW set \in Aliyun!FinalSets(p, sets)
  PROVE  Shows(set, x)
<1>1. /\ Aliyun!ContainsExactly(set, p.goal, {"text", "num", "ext"}) /\ Aliyun!KeyOfSet(set) = p.key
      /\ p.status \in {NoStatus, Aliyun!RouteOf(set).status}
  BY Zenon DEF Aliyun!FinalSets, NoStatus
<1>2. /\ Len(set.entries) = Len(p.goal)
      /\ \A i \in DOMAIN p.goal : \E j \in DOMAIN set.entries :
            /\ set.entries[j].text = p.goal[i].text /\ set.entries[j].num = p.goal[i].num
            /\ set.entries[j].ext = p.goal[i].ext
  <2>1. "text" \in {"text", "num", "ext"} \cup {"id"} /\ "num" \in {"text", "num", "ext"} \cup {"id"}
        /\ "ext" \in {"text", "num", "ext"} \cup {"id"}
    OBVIOUS
  <2> QED BY <1>1, <2>1, Zenon DEF Aliyun!ContainsExactly
<1>3. set.name = p.key.name /\ set.type = p.key.type /\ set.ttl = p.key.ttl
  <2> DEFINE route == Aliyun!RouteOf(set)
  <2>1. p.key = Aliyun!KeyFor(set, route)
    BY <1>1 DEF Aliyun!KeyOfSet
  <2> HIDE DEF route
  <2> QED BY <2>1 DEF Aliyun!KeyFor
<1>4. Aliyun!RouteOf(set).status = set.ext.status
  BY DEF Aliyun!RouteOf
<1>5. StatusFits(x, set.ext.status)
  BY <1>1, <1>4 DEF StatusFits
<1>6. \A i \in DOMAIN p.goal : Fits(p.goal[i].ext, x.entries[i].ext)
  BY DEF Aims
<1>7. \A i \in DOMAIN p.goal : \E j \in DOMAIN set.entries :
            /\ set.entries[j].text = p.goal[i].text /\ set.entries[j].num = p.goal[i].num
            /\ Fits(set.entries[j].ext, x.entries[i].ext)
  BY <1>2, <1>6
<1>8. /\ Len(set.entries) = Len(x.entries)
      /\ \A i \in DOMAIN x.entries : \E j \in DOMAIN set.entries : Asked(set.entries[j], x.entries[i])
  BY <1>2, <1>7, EntriesShown
<1> QED
  BY <1>3, <1>5, <1>8 DEF Shows, Aims

---------------------------------------------------------------------------
(* The same of Cloudflare. *)

LEMMA CloudflareOptionsFit ==
  ASSUME NEW y, NEW fallback, NEW options, options = Cloudflare!WantedOptions(y, fallback)
  PROVE  OptionsFit(y, options)
<1> DEFINE FieldFor(f) == IF y.ext # None /\ y.ext[f] # None THEN y.ext[f] ELSE fallback[f]
           proxied == FieldFor("proxied")
           automatic == proxied \/ FieldFor("automatic")
           comment == IF y.ext = None THEN fallback.comment ELSE y.ext.comment
           tags == IF y.ext = None THEN fallback.tags ELSE y.ext.tags
           o == [proxied |-> proxied, proxiable |-> fallback.proxiable, automatic |-> automatic,
                 comment |-> comment, tags |-> tags]
<1>1. options = o
  BY Zenon DEF Cloudflare!WantedOptions
<1>2. o.proxied = proxied /\ o.comment = comment /\ o.tags = tags
  BY DEF o
<1>3. y.ext # None => comment = y.ext.comment /\ tags = y.ext.tags
  BY Zenon
<1>4. TRUE # None
  BY NoneAssumption
<1>5. y.ext # None /\ y.ext.proxied = TRUE => proxied
  BY <1>4, Zenon
<1> HIDE DEF o, proxied, comment, tags
<1> QED
  BY <1>1, <1>2, <1>3, <1>5, Zenon DEF OptionsFit

LEMMA CloudflareKeyParts ==
  ASSUME NEW y, NEW options, NEW k, k = CloudflareKey(y, options)
  PROVE  /\ k.name = y.name /\ k.type = y.type /\ k.ttl = y.ttl
         /\ k.proxied = options.proxied /\ k.comment = options.comment /\ k.tags = options.tags
BY DEF CloudflareKey, Cloudflare!KeyFor

LEMMA SameOptions ==
  ASSUME NEW x, NEW o, NEW p, p.proxied = o.proxied, p.comment = o.comment, p.tags = o.tags, OptionsFit(x, o)
  PROVE  OptionsFit(x, p)
BY Zenon DEF OptionsFit

LEMMA CloudflareAims ==
  ASSUME adapter = "cloudflare", NEW x, NEW y, NEW es, NEW ids, Wanted(x, y, es, ids),
         NEW fallback, NEW options, options = Cloudflare!WantedOptions(y, fallback),
         NEW calls, NEW p, p = P!Mutate(calls, es, CloudflareKey(y, options), NoStatus, {})
  PROVE  Aims(p, x) /\ OptionsFit(x, p.key)
<1> DEFINE key == CloudflareKey(y, options)
<1>1. /\ key.name = y.name /\ key.type = y.type /\ key.ttl = y.ttl
      /\ key.proxied = options.proxied /\ key.comment = options.comment /\ key.tags = options.tags
  BY CloudflareKeyParts
<1>2. p.goal = es /\ p.key = key
  BY PlanFields
<1> HIDE DEF key
<1>3. SameEntries(p.goal, es)
  BY <1>2, WantedFacts, SameGoal
<1>4. Aims(p, x)
  BY <1>1, <1>2, <1>3, AimsAt
<1>5. y.ext = x.ext
  BY WantedFacts
<1>6. OptionsFit(y, options)
  BY CloudflareOptionsFit
<1>7. OptionsFit(x, options)
  BY <1>5, <1>6, Zenon DEF OptionsFit
<1> QED
  BY <1>1, <1>2, <1>4, <1>7, SameOptions

LEMMA CloudflareShown ==
  ASSUME adapter = "cloudflare", NEW p, NEW x, InputOK(x), Aims(p, x), OptionsFit(x, p.key), NEW sets,
         NEW set \in Cloudflare!FinalSets(p, sets)
  PROVE  Shows(set, x)
<1>1. Cloudflare!ContainsExactly(set, p.goal, {"text", "num"}) /\ Cloudflare!KeyOfSet(set) = p.key
  BY Zenon DEF Cloudflare!FinalSets
<1>2. /\ Len(set.entries) = Len(p.goal)
      /\ \A i \in DOMAIN p.goal : \E j \in DOMAIN set.entries :
            set.entries[j].text = p.goal[i].text /\ set.entries[j].num = p.goal[i].num
  <2>1. "text" \in {"text", "num"} \cup {"id"} /\ "num" \in {"text", "num"} \cup {"id"}
    OBVIOUS
  <2> QED BY <1>1, <2>1, Zenon DEF Cloudflare!ContainsExactly
<1>3. /\ set.name = p.key.name /\ set.type = p.key.type /\ set.ttl = p.key.ttl
      /\ set.ext.proxied = p.key.proxied /\ set.ext.comment = p.key.comment /\ set.ext.tags = p.key.tags
  <2> DEFINE o == set.ext
  <2>1. p.key = CloudflareKey(set, o)
    BY <1>1 DEF Cloudflare!KeyOfSet, Cloudflare!OptionsOf, CloudflareKey
  <2> HIDE DEF o
  <2>2. /\ p.key.name = set.name /\ p.key.type = set.type /\ p.key.ttl = set.ttl
        /\ p.key.proxied = o.proxied /\ p.key.comment = o.comment /\ p.key.tags = o.tags
    BY <2>1, CloudflareKeyParts
  <2> QED BY <2>2 DEF o
<1>4. OptionsFit(x, set.ext)
  BY <1>3, SameOptions
<1>5. \A i \in DOMAIN x.entries : x.entries[i].ext = None
  BY DEF InputOK, EntriesOK, EntryOK
<1>6. DOMAIN p.goal = DOMAIN x.entries
  BY DEF Aims
<1>7. \A i \in DOMAIN p.goal : \E j \in DOMAIN set.entries :
            /\ set.entries[j].text = p.goal[i].text /\ set.entries[j].num = p.goal[i].num
            /\ Fits(set.entries[j].ext, x.entries[i].ext)
  BY <1>2, <1>5, <1>6 DEF Fits
<1>8. /\ Len(set.entries) = Len(x.entries)
      /\ \A i \in DOMAIN x.entries : \E j \in DOMAIN set.entries : Asked(set.entries[j], x.entries[i])
  BY <1>2, <1>7, EntriesShown
<1>9. set.name = x.name /\ set.type = x.type /\ set.ttl = x.ttl
  BY <1>3 DEF Aims
<1> QED
  BY <1>4, <1>8, <1>9 DEF Shows

---------------------------------------------------------------------------
(* The same of Tencent Cloud. *)

LEMMA TencentRouted ==
  ASSUME NEW y, IsSeq(y.entries), NEW fallback, ~ Tencent!Objection(y, fallback),
         NEW route, route = Tencent!WantedRoute(y, fallback)
  PROVE  \A i \in DOMAIN y.entries :
            LET w == y.entries[i].ext IN w # None => w.line = NoLine \/ route.line = w.line
<1> DEFINE es == y.entries
           lines == Tencent!LinesFor(y, fallback)
           f == [i \in DOMAIN es |-> Tencent!LineFor(es[i], fallback)]
<1>1. DOMAIN es = 1..Len(es) /\ Len(es) \in Nat
  BY SeqFacts
<1>2. ~ Many(Cardinality(lines))
  <2>1. ~ (Tencent!Cardinality(Tencent!LinesFor(y, fallback)) > 1)
    BY PTL DEF Tencent!Objection
  <2>2. ~ Many(Tencent!Cardinality(lines))
    BY <2>1, Zenon DEF Many
  <2> QED BY <2>2, SameCardinality, Zenon
<1>3. \A s : s \in lines <=> \E i \in DOMAIN es : s = Tencent!LineFor(es[i], fallback)
  BY Zenon DEF Tencent!LinesFor
<1>4. route.line = CHOOSE line \in lines : TRUE
  <2> DEFINE line == CHOOSE l \in lines : TRUE
             status == IF Tencent!StatusOf(y) # "" THEN Tencent!StatusOf(y) ELSE fallback.status
             override == Tencent!StatusOf(y) # ""
  <2>1. route = [line |-> line, status |-> status, override |-> override]
    BY Zenon DEF Tencent!WantedRoute
  <2> HIDE DEF line, status, override
  <2>2. route.line = line
    BY <2>1
  <2> QED BY <2>2 DEF line
<1>5. \A s, t \in lines : s = t
  <2> DEFINE n == Len(es)
  <2>1. n \in Nat /\ \A s \in lines : \E i \in 1..n : s = f[i]
    BY <1>1, <1>3
  <2> HIDE DEF lines, f, es, n
  <2> QED BY <1>2, <2>1, AtMostOne
<1>6. ASSUME NEW i \in DOMAIN es, es[i].ext # None, es[i].ext.line # NoLine
      PROVE  route.line = es[i].ext.line
  <2>1. Tencent!LineFor(es[i], fallback) = es[i].ext.line
    BY <1>6, Zenon DEF Tencent!LineFor, NoLine
  <2>2. es[i].ext.line \in lines
    BY <1>3, <2>1
  <2> HIDE DEF lines
  <2> QED BY <1>4, <1>5, <2>2
<1> QED
  BY <1>6, Zenon

LEMMA TencentFinalFits ==
  ASSUME NEW set, NEW e, NEW route, e.ext # None => e.ext.line = NoLine \/ route.line = e.ext.line
  PROVE  Fits(TencentFinal(set, e, route), e.ext)
<1> DEFINE status == Tencent!StatusFor(set, route, e)
           weight == Tencent!WeightOf(e)
           remark == IF e.ext = None THEN "" ELSE e.ext.remark
           own == [line |-> route.line, status |-> status, weight |-> weight, remark |-> remark]
<1>1. TencentFinal(set, e, route) = own
  BY Zenon DEF TencentFinal
<1>2. own.line = route.line /\ own.weight = weight /\ own.remark = remark
  BY DEF own
<1>3. e.ext # None => remark = e.ext.remark
  BY Zenon
<1>4. e.ext # None => weight = e.ext.weight
  BY Zenon DEF Tencent!WeightOf
<1> HIDE DEF own, weight, remark, status
<1> QED
  BY <1>1, <1>2, <1>3, <1>4 DEF Fits

\* A status that the request names is that of all the entries.
LEMMA TencentStatus ==
  ASSUME NEW y, y.ext # None, y.ext.status # NoStatus, NEW fallback,
         NEW route, route = Tencent!WantedRoute(y, fallback), NEW set, NEW e
  PROVE  TencentFinal(set, e, route).status = y.ext.status
<1> DEFINE wanted == y.ext.status
           former == IF e.id \in Tencent!EntryIDs(set) THEN Tencent!EntryWith(set, e.id).ext.status ELSE ""
<1>1. Tencent!StatusOf(y) = wanted
  BY Zenon DEF Tencent!StatusOf
<1>2. route.override = TRUE /\ route.status = wanted
  <2> DEFINE line == CHOOSE l \in Tencent!LinesFor(y, fallback) : TRUE
  <2>1. route = [line |-> line, status |-> wanted, override |-> TRUE]
    <3>1. (Tencent!StatusOf(y) # NoStatus) = TRUE
      BY <1>1, Zenon
    <3>2. (IF Tencent!StatusOf(y) # NoStatus THEN Tencent!StatusOf(y) ELSE fallback.status) = wanted
      BY <1>1, Zenon
    <3> QED BY <3>1, <3>2, Zenon DEF Tencent!WantedRoute, NoStatus
  <2> HIDE DEF line
  <2> QED BY <2>1
<1>3. TencentFinal(set, e, route).status = Tencent!StatusFor(set, route, e)
  <2> DEFINE status == Tencent!StatusFor(set, route, e)
             remark == IF e.ext = None THEN "" ELSE e.ext.remark
             weight == Tencent!WeightOf(e)
             own == [line |-> route.line, status |-> status, weight |-> weight, remark |-> remark]
  <2>1. TencentFinal(set, e, route) = own
    BY Zenon DEF TencentFinal
  <2> HIDE DEF status, remark, weight
  <2>2. own.status = status
    OBVIOUS
  <2> HIDE DEF own
  <2> QED BY <2>1, <2>2 DEF status
<1>4. Tencent!StatusFor(set, route, e) = Tencent!EffectiveStatus(e, route, former)
  BY Zenon DEF Tencent!StatusFor
<1> HIDE DEF former, wanted
<1>5. Tencent!EffectiveStatus(e, route, former) = wanted
  <2>1. wanted # NoStatus
    BY DEF wanted
  <2> QED BY <1>2, <2>1, Zenon DEF Tencent!EffectiveStatus, NoStatus
<1> QED
  BY <1>3, <1>4, <1>5 DEF wanted

\* The status that the last read must show, if the request names one.
StatusAimed(p, x) ==
  x.ext # None => x.ext.status = NoStatus \/ \A i \in DOMAIN p.goal : p.goal[i].ext.status = x.ext.status

LEMMA TencentAims ==
  ASSUME adapter = "tencent", NEW x, NEW y, NEW es, NEW ids, Wanted(x, y, es, ids), NEW set,
         NEW fallback, ~ Tencent!Objection(y, fallback), NEW route, route = Tencent!WantedRoute(y, fallback),
         NEW calls, NEW gone, NEW p,
         p = P!Mutate(calls, Tencent!Expected(set, es, route), Tencent!KeyFor(y, route), NoStatus, gone)
  PROVE  Aims(p, x) /\ StatusAimed(p, x)
<1> DEFINE goal == Tencent!Expected(set, es, route)
           key == Tencent!KeyFor(y, route)
<1>1. key.name = y.name /\ key.type = y.type /\ key.ttl = y.ttl
  BY DEF Tencent!KeyFor
<1>2. SameEntries(goal, es) /\ \A i \in DOMAIN es : goal[i].ext = TencentFinal(set, es[i], route)
  BY WantedFacts, TencentExpected
<1>3. p.goal = goal /\ p.key = key
  BY PlanFields
<1> HIDE DEF goal, key
<1>4. IsSeq(y.entries) /\ DOMAIN es = DOMAIN y.entries /\ \A i \in DOMAIN es : es[i].ext = y.entries[i].ext
  BY DEF Wanted, EntriesOK
<1>5. \A i \in DOMAIN es : Fits(goal[i].ext, es[i].ext)
  BY <1>2, <1>4, TencentRouted, TencentFinalFits
<1>6. y.ext = x.ext
  BY WantedFacts
<1>7. DOMAIN goal = DOMAIN es
  BY <1>2 DEF SameEntries
<1>8. StatusAimed(p, x)
  BY <1>2, <1>3, <1>6, <1>7, TencentStatus DEF StatusAimed
<1>9. SameEntries(p.goal, es) /\ p.key.name = y.name /\ p.key.type = y.type /\ p.key.ttl = y.ttl
      /\ \A i \in DOMAIN es : adapter # "cloudflare" => Fits(p.goal[i].ext, es[i].ext)
  BY <1>1, <1>2, <1>3, <1>5
<1>10. Aims(p, x)
  BY <1>9, AimsAt
<1> QED
  BY <1>8, <1>10

\* As many entries as expected, and all the expected ones: there is no other.
Finds(n, a, b) == \A i \in 1..n : \E j \in 1..n : b[j] = a[i]

LEMMA NoOther ==
  ASSUME NEW n \in Nat, NEW a, NEW b, Finds(n, a, b),
         \A i, j \in 1..n : a[i] = a[j] => i = j
  PROVE  Finds(n, b, a)
<1> USE DEF Finds
<1> DEFINE g == [i \in 1..n |-> CHOOSE j \in 1..n : b[j] = a[i]]
<1>1. \A i \in 1..n : g[i] \in 1..n /\ b[g[i]] = a[i]
  OBVIOUS
<1>2. g \in [1..n -> 1..n]
  BY <1>1
<1> HIDE DEF g
<1>3. g \in Injection(1..n, 1..n)
  <2>1. ASSUME NEW i \in 1..n, NEW j \in 1..n, g[i] = g[j] PROVE i = j
    <3>1. b[g[i]] = a[i] /\ b[g[j]] = a[j]
      BY <1>1
    <3>2. a[i] = a[j]
      BY <2>1, <3>1
    <3> QED BY <3>2
  <2>2. DOMAIN g = 1..n
    BY <1>2
  <2> QED BY <1>2, <2>1, <2>2, Zenon DEF Injection, IsInjective
<1>4. IsFiniteSet(1..n)
  BY FS_Interval
<1>5. g \in Surjection(1..n, 1..n)
  BY <1>3, <1>4, FS_Injection
<1> QED
  <2>1. ASSUME NEW j \in 1..n PROVE \E i \in 1..n : a[i] = b[j]
    <3>1. PICK i \in 1..n : g[i] = j
      BY <1>5 DEF Surjection
    <3>2. b[g[i]] = a[i]
      BY <1>1
    <3> QED BY <3>1, <3>2
  <2> QED BY <2>1

\* What listing shows of the status of records that agree on it.
LEMMA TencentSetStatus ==
  ASSUME NEW rs, 1 \in DOMAIN rs, NEW s, \A i \in DOMAIN rs : rs[i].status = s
  PROVE  Tencent!SetExt(rs).status = s
<1> DEFINE status == IF \A i \in DOMAIN rs : rs[i].status = rs[1].status THEN rs[1].status ELSE ""
           default == IF \E i \in DOMAIN rs : rs[i].system THEN TRUE ELSE None
<1>1. Tencent!SetExt(rs) = [status |-> status, default |-> default]
  BY Zenon DEF Tencent!SetExt
<1>2. status = s
  <2>1. rs[1].status = s
    OBVIOUS
  <2> QED BY <2>1, Zenon
<1> HIDE DEF status, default
<1> QED
  BY <1>1, <1>2

LEMMA TencentEntryStatus ==
  ASSUME NEW id, NEW r
  PROVE  Tencent!EntryOf(id, r).ext.status = r.status
BY DEF Tencent!EntryOf

LEMMA TencentShown ==
  ASSUME adapter = "tencent", issued \in Nat, NEW view, ViewOK(view), NEW p, NEW x, Aims(p, x), StatusAimed(p, x),
         NEW set \in Tencent!FinalSets(p, Tencent!Sets(view))
  PROVE  Shows(set, x)
<1> DEFINE es == set.entries
<1>1. /\ Tencent!ContainsExactly(set, p.goal, {"text", "num", "ext"}) /\ Tencent!KeyOfSet(set) = p.key
      /\ set \in Tencent!Sets(view)
  BY Zenon DEF Tencent!FinalSets
<1>2. /\ Len(es) = Len(p.goal)
      /\ \A i \in DOMAIN p.goal : \E j \in DOMAIN es :
            /\ es[j].text = p.goal[i].text /\ es[j].num = p.goal[i].num
            /\ es[j].ext = p.goal[i].ext /\ es[j].id = p.goal[i].id
  <2>1. "text" \in {"text", "num", "ext"} \cup {"id"} /\ "num" \in {"text", "num", "ext"} \cup {"id"}
        /\ "ext" \in {"text", "num", "ext"} \cup {"id"} /\ "id" \in {"text", "num", "ext"} \cup {"id"}
    OBVIOUS
  <2> QED BY <1>1, <2>1, Zenon DEF Tencent!ContainsExactly
<1>3. set.name = p.key.name /\ set.type = p.key.type /\ set.ttl = p.key.ttl
  <2> DEFINE route == Tencent!RouteOf(set)
  <2>1. p.key = Tencent!KeyFor(set, route)
    BY <1>1 DEF Tencent!KeyOfSet
  <2> HIDE DEF route
  <2> QED BY <2>1 DEF Tencent!KeyFor
<1>4. PICK m : TencentLists(set, view, m)
  BY <1>1, TencentSets
<1>5. SetOK(set)
  BY <1>1, TencentSets
<1>6. IsSeq(es) /\ es # <<>> /\ DOMAIN es = DOMAIN m
  BY <1>4, <1>5 DEF SetOK, EntriesOK, TencentLists, Lists
<1>7. /\ IsSeq(p.goal) /\ \A i, j \in DOMAIN p.goal : p.goal[i].id = p.goal[j].id => i = j
      /\ \A i \in DOMAIN p.goal : Fits(p.goal[i].ext, x.entries[i].ext)
  BY DEF Aims
<1>8. DOMAIN es = 1..Len(es) /\ DOMAIN p.goal = 1..Len(es) /\ Len(es) \in Nat /\ 1 \in DOMAIN es
  BY <1>2, <1>6, <1>7, SeqFacts
<1>9. ASSUME x.ext # None, x.ext.status # NoStatus
      PROVE  set.ext.status = x.ext.status
  <2> DEFINE n == Len(es)
             a == [i \in 1..n |-> p.goal[i].id]
             b == [j \in 1..n |-> es[j].id]
  <2>1. \A j \in 1..n : es[j].id = m[j] /\ es[j].ext.status = view[m[j]].status
    BY <1>4, <1>6, <1>8, TencentEntryStatus DEF TencentLists, Lists
  <2>2. \A i, j \in 1..n : es[i].id = es[j].id => i = j
    <3>1. \A i, j \in 1..n : i < j => m[i] < m[j]
      BY <1>4, <1>6, <1>8 DEF TencentLists, Lists
    <3>2. \A i \in 1..n : m[i] \in Int
      <4>1. Items(m) \subseteq 1..issued
        BY <1>4 DEF TencentLists, Lists, ViewOK
      <4> QED BY <4>1, <1>6, <1>8 DEF Items
    <3>3. \A i, j \in 1..n : m[i] = m[j] => i = j
      BY <3>1, <3>2, <1>8
    <3> QED BY <2>1, <3>3
  <2>3. Finds(n, a, b)
    BY <1>2, <1>8 DEF Finds
  <2>4. \A i, j \in 1..n : a[i] = a[j] => i = j
    BY <1>7, <1>8
  <2>5. Finds(n, b, a)
    <3>1. n \in Nat
      BY <1>8
    <3> HIDE DEF a, b, n
    <3> QED BY <2>3, <2>4, <3>1, NoOther
  <2>6. \A i \in 1..n : p.goal[i].ext.status = x.ext.status
    BY <1>8, <1>9 DEF StatusAimed
  <2>7. ASSUME NEW j \in 1..n PROVE view[m[j]].status = x.ext.status
    <3>1. PICK i \in 1..n : es[j].id = p.goal[i].id
      BY <2>5 DEF Finds
    <3>2. PICK k \in 1..n : es[k].ext = p.goal[i].ext /\ es[k].id = p.goal[i].id
      BY <1>2, <1>8
    <3>3. k = j
      BY <2>2, <3>1, <3>2
    <3> QED BY <2>1, <2>6, <3>2, <3>3
  <2> DEFINE rs == [i \in DOMAIN m |-> view[m[i]]]
             s == x.ext.status
  <2>8. set.ext = Tencent!SetExt(rs)
    BY <1>4 DEF TencentLists
  <2>9. 1 \in DOMAIN rs /\ \A i \in DOMAIN rs : rs[i].status = s
    BY <1>6, <1>8, <2>7
  <2> HIDE DEF rs, s
  <2>10. Tencent!SetExt(rs).status = s
    BY <2>9, TencentSetStatus
  <2> QED BY <2>8, <2>10 DEF s
<1>10. StatusFits(x, set.ext.status)
  BY <1>9 DEF StatusFits
<1>11. \A i \in DOMAIN p.goal : \E j \in DOMAIN es :
            /\ es[j].text = p.goal[i].text /\ es[j].num = p.goal[i].num
            /\ Fits(es[j].ext, x.entries[i].ext)
  BY <1>2, <1>7
<1>12. /\ Len(es) = Len(x.entries)
       /\ \A i \in DOMAIN x.entries : \E j \in DOMAIN es : Asked(es[j], x.entries[i])
  BY <1>2, <1>11, EntriesShown
<1>13. set.name = x.name /\ set.type = x.type /\ set.ttl = x.ttl
  BY <1>3 DEF Aims
<1> QED
  BY <1>10, <1>12, <1>13 DEF Shows

---------------------------------------------------------------------------
(* What a client sends back as it got it. *)

\* Entries that have the same contents in normal form have it already: a level
\* of quotation marks less would be missed at the text that has most.
LEMMA NormalAlready ==
  ASSUME NEW type, NEW es, EntriesOK(type, es),
         \A i \in DOMAIN es : es[i].text.quotes \in Nat,
         \A i \in DOMAIN es : \E j \in DOMAIN es : P!Content(es[i]) = P!Content(P!NormalEntry(type, es[j]))
  PROVE  \A i \in DOMAIN es : P!NormalEntry(type, es[i]) = es[i]
<1> DEFINE S == {es[i].text.quotes : i \in {j \in DOMAIN es : es[j].text.quotes # 0}}
<1>1. DOMAIN es = 1..Len(es) /\ Len(es) \in Nat
  BY SeqFacts DEF EntriesOK
<1>2. ASSUME NEW i \in DOMAIN es, type \notin {"TXT", "CAA"} \/ es[i].text.quotes = 0
      PROVE  P!NormalEntry(type, es[i]) = es[i]
  <2> DEFINE e == es[i]
  <2>1. e = [id |-> e.id, text |-> e.text, num |-> e.num, ext |-> e.ext]
        /\ (type \in {"CNAME", "NS"} => e.num = None)
    BY DEF EntriesOK, EntryOK
  <2>2. type \notin {"TXT", "CAA"} \/ e.text.quotes = 0
    BY <1>2
  <2> HIDE DEF e
  <2>3. P!NormalEntry(type, e) = e
    BY <2>1, <2>2, CanonicalText DEF P!NormalEntry
  <2> QED BY <2>3 DEF e
<1>3. CASE type \notin {"TXT", "CAA"}
  BY <1>2, <1>3
<1>4. CASE type \in {"TXT", "CAA"}
  <2>1. IsFiniteSet(S) /\ S \subseteq Nat
    <3> DEFINE J == {j \in DOMAIN es : es[j].text.quotes # 0}
               g == [j \in J |-> es[j].text.quotes]
    <3>1. IsFiniteSet(1..Len(es))
      BY <1>1, FS_Interval
    <3>2. IsFiniteSet(J)
      BY <1>1, <3>1, FS_Subset
    <3>3. S = {g[j] : j \in J} /\ S \subseteq Nat
      OBVIOUS
    <3>4. IsFiniteSet({g[j] : j \in J})
      <4>1. g \in Surjection(J, {g[j] : j \in J})
        BY DEF Surjection
      <4> HIDE DEF g, J
      <4> QED BY <3>2, <4>1, FS_Surjection
    <3> QED BY <3>3, <3>4
  <2>2. ASSUME NEW q \in S PROVE q + 1 \in S
    <3>1. PICK i \in DOMAIN es : q = es[i].text.quotes /\ q # 0
      OBVIOUS
    <3>2. PICK j \in DOMAIN es : P!Content(es[i]) = P!Content(P!NormalEntry(type, es[j]))
      OBVIOUS
    <3> DEFINE t == es[j].text
    <3>3. P!Content(es[i]).text = es[i].text
          /\ P!Content(P!NormalEntry(type, es[j])).text = P!CanonicalTXT(t)
      BY <1>4 DEF P!Content, P!NormalEntry
    <3>4. es[i].text = P!CanonicalTXT(t)
      BY <3>2, <3>3
    <3>5. t.quotes \in Nat
      OBVIOUS
    <3> HIDE DEF t
    <3>6. t.quotes # 0 /\ q = t.quotes - 1
      BY <3>1, <3>4, <3>5, CanonicalText
    <3>7. q + 1 = t.quotes
      BY <3>5, <3>6
    <3> QED BY <3>6, <3>7 DEF t
  <2> HIDE DEF S
  <2>3. S = {}
    BY <2>1, <2>2, NoLargest
  <2> QED BY <1>2, <2>3 DEF S
<1> QED
  BY <1>3, <1>4

\* A listed set that still has its fingerprint is in normal form, and so is
\* what a client makes of it.
LEMMA InputIsNormal ==
  ASSUME NEW raw, NEW set, set = P!Listed(raw), SetOK(set), P!Matches(set.fingerprint, set),
         \A i \in DOMAIN set.entries : set.entries[i].text.quotes \in Nat
  PROVE  P!Normalized(InputOf(set)) = InputOf(set)
<1> DEFINE es == set.entries
           type == set.type
           n == P!Normalized(raw)
           N == P!Normalized(set)
           x == InputOf(set)
<1>1. set.fingerprint.contents = P!Contents(set)
  <2>1. set = [n EXCEPT !.fingerprint = P!Digest(n)]
    BY DEF P!Listed
  <2>2. DOMAIN set = {"id", "name", "type", "ttl", "entries", "ext", "fingerprint"}
    BY DEF SetOK
  <2>3. set.fingerprint = P!Digest(n) /\ set.entries = n.entries
    <3> HIDE DEF n
    <3> QED BY <2>1, <2>2
  <2> HIDE DEF n
  <2> QED BY <2>3 DEF P!Digest, P!Contents
<1>2. P!Digest(N).contents = P!Contents(N) /\ P!Digest(N) = set.fingerprint
  BY DEF P!Matches, P!Digest
<1>3. N.entries = [i \in DOMAIN es |-> P!NormalEntry(type, es[i])]
  BY DEF P!Normalized, P!NormalEntries, SetOK
<1>4. P!Contents(N) = P!Contents(set)
  BY <1>1, <1>2
<1>5. P!Contents(N) = {P!Content(P!NormalEntry(type, es[i])) : i \in DOMAIN es}
      /\ P!Contents(set) = {P!Content(es[i]) : i \in DOMAIN es}
  BY <1>3 DEF P!Contents
<1>6. EntriesOK(type, es)
  BY DEF SetOK
<1>7. \A i \in DOMAIN es : es[i].text.quotes \in Nat
  OBVIOUS
<1> HIDE DEF es, type, N
<1>8. \A i \in DOMAIN es : \E j \in DOMAIN es : P!Content(es[i]) = P!Content(P!NormalEntry(type, es[j]))
  BY <1>4, <1>5
<1>9. \A i \in DOMAIN es : P!NormalEntry(type, es[i]) = es[i]
  BY <1>6, <1>7, <1>8, NormalAlready
<1>10. x = [name |-> x.name, type |-> type, ttl |-> x.ttl, entries |-> es, ext |-> x.ext]
  BY DEF InputOf, es, type
<1>11. P!NormalEntries(x) = es
  <2>1. IsSeq(es) /\ es = [i \in DOMAIN es |-> es[i]]
    BY <1>6, SeqFacts DEF EntriesOK
  <2> HIDE DEF x
  <2> QED BY <1>9, <1>10, <2>1 DEF P!NormalEntries
<1> HIDE DEF x
<1>12. P!Normalized(x) = x
  BY <1>10, <1>11 DEF P!Normalized
<1> QED
  BY <1>12 DEF x

---------------------------------------------------------------------------
(* A set sent back as it is needs no calls. *)

\* The entries of a listed set have the IDs of its records, each its own.
LEMMA OwnEntries ==
  ASSUME issued \in Nat, NEW view, ViewOK(view), NEW set, NEW m, Lists(set, view, m)
  PROVE  /\ \A i \in DOMAIN set.entries :
              /\ set.entries[i].id \in P!EntryIDs(set) /\ set.entries[i].id # None
              /\ P!EntryWith(set, set.entries[i].id) = set.entries[i]
         /\ IsSeq(set.entries) => P!WithIDs(set.entries, issued) = set.entries
<1> DEFINE es == set.entries
<1>1. /\ DOMAIN es = DOMAIN m /\ \A i \in DOMAIN m : es[i].id = m[i]
      /\ \A i, j \in DOMAIN m : i < j => m[i] < m[j]
      /\ set.id = {m[i] : i \in DOMAIN m} /\ IsSeq(m)
  BY DEF Lists, Items
<1>2. P!EntryIDs(set) = set.id /\ set.id \subseteq DOMAIN view
      /\ \A id \in set.id : \E i \in DOMAIN m : m[i] = id /\ P!EntryWith(set, id) = es[i]
  BY ListedIDs
<1>3. DOMAIN m = 1..Len(m) /\ Len(m) \in Nat
  BY <1>1, SeqFacts
<1>4. \A i \in DOMAIN m : m[i] \in Nat /\ m[i] # None
  BY <1>1, <1>2, NoneAssumption DEF ViewOK
<1> HIDE DEF es
<1>5. ASSUME NEW i \in DOMAIN es
      PROVE  es[i].id \in P!EntryIDs(set) /\ es[i].id # None /\ P!EntryWith(set, es[i].id) = es[i]
  <2>1. i \in DOMAIN m /\ es[i].id = m[i] /\ m[i] \in set.id
    BY <1>1
  <2>2. PICK j \in DOMAIN m : m[j] = m[i] /\ P!EntryWith(set, m[i]) = es[j]
    BY <1>2, <2>1
  <2>3. i = j
    BY <1>1, <1>3, <1>4, <2>1, <2>2
  <2> QED BY <1>2, <1>4, <2>1, <2>2, <2>3
<1>6. ASSUME IsSeq(es) PROVE P!WithIDs(es, issued) = es
  <2>1. es = [i \in DOMAIN es |-> es[i]]
    BY <1>6, SeqFacts
  <2> QED BY <1>5, <2>1 DEF P!WithIDs
<1> QED
  BY <1>5, <1>6 DEF es

LEMMA NoneEach ==
  ASSUME NEW es, IsSeq(es), NEW ss, ss = [i \in DOMAIN es |-> ss[i]], \A i \in DOMAIN es : ss[i] = <<>>
  PROVE  Flattened(ss) = <<>>
<1> DEFINE s == Flattened(ss)
<1>1. IsSeq(s) /\ \A c : c \in Items(s) <=> \E i \in DOMAIN es : c \in Items(ss[i])
  BY EachIsSeq, EmptyIsSeq
<1> HIDE DEF s
<1>2. Items(s) = {}
  BY <1>1, EmptyIsSeq
<1>3. Len(s) \in Nat /\ DOMAIN s = 1..Len(s) /\ (s = <<>> <=> Len(s) = 0)
  BY <1>1, SeqFacts
<1>4. DOMAIN s = {}
  BY <1>2 DEF Items
<1> QED
  BY <1>3, <1>4 DEF s

LEMMA NoRemovals ==
  ASSUME NEW set, NEW es, IsSeq(set.entries), es = set.entries
  PROVE  RemovalsOf(set, es) = <<>>
<1> DEFINE ss == [i \in DOMAIN es |->
               IF es[i].id \in P!EntryIDs([entries |-> es]) THEN <<>>
               ELSE <<[op |-> "delete", id |-> es[i].id, with |-> <<>>]>>]
<1>1. ss = [i \in DOMAIN es |-> ss[i]] /\ \A i \in DOMAIN es : ss[i] = <<>>
  BY DEF P!EntryIDs
<1>2. RemovalsOf(set, es) = Flattened(ss)
  BY DEF RemovalsOf
<1> HIDE DEF ss
<1> QED
  BY <1>1, <1>2, NoneEach

\* Alibaba Cloud.
AliyunOwn(r) == ~ Aliyun!Malformed(r) /\ Aliyun!EntryOf(0, r).ext # None

LEMMA AliyunOwnRoute ==
  ASSUME NEW view, NEW set, SetOK(set), NEW m, AliyunLists(set, view, m),
         \A i \in DOMAIN m : AliyunOwn(view[m[i]]),
         NEW y, y = InputOf(set), NEW now, now = Aliyun!RouteOf(set),
         NEW route, route = Aliyun!WantedRoute(y, now)
  PROVE  /\ route.line = now.line /\ route.status = now.status
         /\ route.weighted <=> now.weighted
<1> DEFINE es == set.entries
           r == view[m[1]]
           L == Aliyun!LineOf(r)
           lines == Aliyun!LinesOf(y)
<1>1. y.entries = es /\ y.ext = set.ext
  BY DEF InputOf
<1>2. DOMAIN m = DOMAIN es /\ 1 \in DOMAIN es
  <2>1. IsSeq(es) /\ es # <<>> /\ DOMAIN m = DOMAIN es
    BY DEF SetOK, EntriesOK, AliyunLists, Lists
  <2> QED BY <2>1, SeqFacts
<1>3. ASSUME NEW i \in DOMAIN es
      PROVE  /\ es[i].ext # None /\ es[i].ext.line = L
             /\ Aliyun!WeightOf(es[i]) # None <=> r.weighted
  <2> DEFINE q == view[m[i]]
  <2>1. Aliyun!RecordKey(q) = Aliyun!RecordKey(r) /\ es[i].ext = Aliyun!EntryOf(m[i], q).ext
    BY <1>2 DEF AliyunLists
  <2>2. es[i].ext = [line |-> Aliyun!LineOf(q), status |-> Aliyun!StatusShown(q),
                     weight |-> IF q.weighted THEN q.weight ELSE None, remark |-> q.remark]
        /\ es[i].ext = Aliyun!EntryOf(0, q).ext
    BY <2>1 DEF Aliyun!EntryOf
  <2>3. Aliyun!LineOf(q) = L /\ q.weighted = r.weighted
    BY <2>1, Zenon DEF Aliyun!RecordKey
  <2>4. AliyunOwn(q)
    BY <1>2
  <2> HIDE DEF q, L
  <2>5. es[i].ext # None
    BY <2>2, <2>4 DEF AliyunOwn
  <2>6. es[i].ext.line = L /\ es[i].ext.weight = IF q.weighted THEN q.weight ELSE None
    BY <2>2, <2>3
  <2>7. q.weighted => q.weight # None
    BY <2>4, NoneAssumption DEF AliyunOwn, Aliyun!Malformed
  <2>8. Aliyun!WeightOf(es[i]) # None <=> q.weighted
    BY <2>5, <2>6, <2>7 DEF Aliyun!WeightOf
  <2> QED BY <2>3, <2>5, <2>6, <2>8
<1>4. now.line = L /\ now.status = set.ext.status /\ (now.weighted <=> r.weighted)
  <2>1. now.line = es[1].ext.line /\ now.status = set.ext.status /\ now.weighted = (es[1].ext.weight # None)
    BY DEF Aliyun!RouteOf
  <2>2. es[1].ext.weight = Aliyun!WeightOf(es[1])
    BY <1>2, <1>3 DEF Aliyun!WeightOf
  <2> QED BY <1>2, <1>3, <2>1, <2>2
<1>5. L # NoLine
  BY DEF Aliyun!LineOf, Aliyun!DefaultLine, NoLine
<1>6. lines = {L}
  <2>1. lines = {es[i].ext.line : i \in {j \in DOMAIN es : es[j].ext # None}} \ {NoLine}
    BY <1>1, Zenon DEF Aliyun!LinesOf, NoLine
  <2> HIDE DEF L
  <2> QED BY <1>2, <1>3, <1>5, <2>1
<1> HIDE DEF L
<1>7. route.line = L
  <2> DEFINE line == IF lines # {} THEN CHOOSE l \in lines : TRUE
                     ELSE IF now.line = NoLine THEN Aliyun!DefaultLine ELSE now.line
             status == IF Aliyun!StatusOf(y) # "" THEN Aliyun!StatusOf(y) ELSE now.status
             weighted == \E i \in DOMAIN y.entries : Aliyun!WeightOf(y.entries[i]) # None
  <2>1. route = [line |-> line, status |-> status, weighted |-> weighted]
    BY Zenon DEF Aliyun!WantedRoute, NoLine
  <2> HIDE DEF status, weighted
  <2>2. route.line = line
    BY <2>1
  <2> HIDE DEF lines
  <2> QED BY <1>6, <2>2
<1>8. route.status = (IF Aliyun!StatusOf(y) # NoStatus THEN Aliyun!StatusOf(y) ELSE now.status)
      /\ (route.weighted <=> \E i \in DOMAIN es : Aliyun!WeightOf(es[i]) # None)
  BY <1>1, Zenon DEF Aliyun!WantedRoute, NoStatus
<1>9. route.status = now.status
  <2>1. Aliyun!StatusOf(y) \in {NoStatus, set.ext.status}
    BY <1>1 DEF Aliyun!StatusOf, NoStatus
  <2> QED BY <1>4, <1>8, <2>1
<1>10. route.weighted <=> r.weighted
  BY <1>2, <1>3, <1>8
<1> QED
  BY <1>4, <1>7, <1>9, <1>10

\* No entry is to be written, weighed or switched.
LEMMA AliyunEcho ==
  ASSUME issued \in Nat, NEW view, ViewOK(view), NEW set, SetOK(set), NEW m, AliyunLists(set, view, m),
         \A i \in DOMAIN m : AliyunOwn(view[m[i]]),
         NEW y, y = InputOf(set), NEW es, es = set.entries,
         NEW route, route = Aliyun!WantedRoute(y, Aliyun!RouteOf(set))
  PROVE  Aliyun!UpdateCalls(set, y, es, route) = <<>>
<1> DEFINE now == Aliyun!RouteOf(set)
           moved == set.name # y.name \/ set.type # y.type \/ now.line # route.line
           writes == AliyunWrites(set, y, route, es)
           weighs == AliyunReweighs(set, es)
           states == AliyunSwitches(set, route, es)
<1>1. route.line = now.line /\ route.status = now.status /\ (route.weighted <=> now.weighted)
  BY AliyunOwnRoute
<1>2. IsSeq(es) /\ y.name = set.name /\ y.type = set.type /\ y.ttl = set.ttl
  BY DEF SetOK, EntriesOK, InputOf
<1>3. \A i \in DOMAIN es : es[i].id \in P!EntryIDs(set) /\ P!EntryWith(set, es[i].id) = es[i]
  BY OwnEntries DEF AliyunLists
<1>4. ASSUME NEW i \in DOMAIN es
      PROVE  writes[i] = <<>> /\ weighs[i] = <<>> /\ states[i] = <<>>
  <2> DEFINE e == es[i]
  <2>1. e.id \in Aliyun!EntryIDs(set) /\ Aliyun!EntryWith(set, e.id) = e
    BY <1>3, SameRequest, SameIDs
  <2>2. writes[i] = AliyunWritten(set, y, route, e) /\ weighs[i] = AliyunWeighed(set, e)
        /\ states[i] = AliyunSwitched(set, route, e)
    BY DEF AliyunWrites, AliyunReweighs, AliyunSwitches
  <2> HIDE DEF e, writes, weighs, states
  <2>3. ~ Aliyun!NeedsUpdate(set, y, route, e)
    BY <1>1, <1>2, <2>1 DEF Aliyun!NeedsUpdate
  <2>4. AliyunWritten(set, y, route, e) = <<>>
    BY <2>1, <2>3, EmptyIsSeq, ConcatEmpty DEF AliyunWritten
  <2>5. AliyunWeighed(set, e) = <<>>
    BY <2>1 DEF AliyunWeighed
  <2>6. AliyunSwitched(set, route, e) = <<>>
    BY <1>1, <2>1, Zenon DEF AliyunSwitched
  <2> QED BY <2>2, <2>4, <2>5, <2>6
<1>5. /\ writes = [i \in DOMAIN es |-> writes[i]] /\ weighs = [i \in DOMAIN es |-> weighs[i]]
      /\ states = [i \in DOMAIN es |-> states[i]]
  BY DEF AliyunWrites, AliyunReweighs, AliyunSwitches
<1> HIDE DEF writes, weighs, states
<1>6. Flattened(writes) = <<>>
  BY <1>2, <1>4, <1>5, NoneEach
<1>7. Flattened(weighs) = <<>>
  BY <1>2, <1>4, <1>5, NoneEach
<1>8. Flattened(states) = <<>>
  BY <1>2, <1>4, <1>5, NoneEach
<1>9. AliyunUpdateWrites(set, y, es, route) = <<>>
  <2> DEFINE A == IF now.weighted /\ (~route.weighted \/ moved) THEN Aliyun!Balance(set, now.line, FALSE) ELSE <<>>
             B == IF route.weighted /\ (~now.weighted \/ moved) THEN Aliyun!Balance(y, route.line, TRUE) ELSE <<>>
             C == IF route.weighted THEN Flattened(weighs) ELSE <<>>
  <2>1. A = <<>> /\ B = <<>> /\ C = <<>>
    BY <1>1, <1>2, <1>7, Zenon
  <2>2. AliyunUpdateWrites(set, y, es, route) = A \o Flattened(writes) \o B \o C \o Flattened(states)
    BY DEF AliyunUpdateWrites, writes, weighs, states
  <2> HIDE DEF A, B, C
  <2> QED BY <1>6, <1>8, <2>1, <2>2, EmptyIsSeq, ConcatEmpty
<1>10. RemovalsOf(set, es) = <<>>
  BY <1>2, NoRemovals
<1>11. Aliyun!UpdateCalls(set, y, es, route) = AliyunUpdateWrites(set, y, es, route) \o RemovalsOf(set, es)
  BY AliyunUpdateCalls DEF Joins
<1> QED
  BY <1>9, <1>10, <1>11, EmptyIsSeq, ConcatEmpty

\* Tencent Cloud.
TencentOwn(r) == r.line # NoLine /\ r.status # NoStatus /\ Tencent!EntryOf(0, r).ext # None

\* A set sent back keeps its line and gives each entry the status it has.
LEMMA TencentOwnRoute ==
  ASSUME NEW view, NEW set, SetOK(set), NEW m, TencentLists(set, view, m),
         \A i \in DOMAIN m : TencentOwn(view[m[i]]),
         NEW y, y = InputOf(set), NEW now, now = Tencent!RouteOf(set),
         NEW route, route = Tencent!WantedRoute(y, now)
  PROVE  /\ route.line = now.line
         /\ \A i \in DOMAIN set.entries : \A fallback :
              Tencent!EffectiveStatus(set.entries[i], route, fallback) = set.entries[i].ext.status
<1> DEFINE es == set.entries
           L == view[m[1]].line
           rs == [i \in DOMAIN m |-> view[m[i]]]
<1>1. y.entries = es /\ y.ext = set.ext
  BY DEF InputOf
<1>2. DOMAIN m = DOMAIN es /\ 1 \in DOMAIN es
  <2>1. IsSeq(es) /\ es # <<>> /\ DOMAIN m = DOMAIN es
    BY DEF SetOK, EntriesOK, TencentLists, Lists
  <2> QED BY <2>1, SeqFacts
<1>3. ASSUME NEW i \in DOMAIN es
      PROVE  /\ es[i].ext # None /\ es[i].ext.line = L /\ L # NoLine
             /\ es[i].ext.status = rs[i].status /\ rs[i].status # NoStatus
  <2> DEFINE q == view[m[i]]
  <2>1. Tencent!RecordKey(q) = Tencent!RecordKey(view[m[1]]) /\ es[i].ext = Tencent!EntryOf(m[i], q).ext
    BY <1>2 DEF TencentLists
  <2>2. es[i].ext = [line |-> q.line, status |-> q.status, weight |-> q.weight, remark |-> q.remark]
        /\ es[i].ext = Tencent!EntryOf(0, q).ext
    BY <2>1 DEF Tencent!EntryOf
  <2>3. q.line = L
    BY <2>1 DEF Tencent!RecordKey
  <2>4. TencentOwn(q) /\ rs[i] = q
    BY <1>2
  <2> HIDE DEF q, L, rs
  <2> QED BY <2>2, <2>3, <2>4 DEF TencentOwn
<1>4. now.line = L /\ now.status = set.ext.status
  BY <1>2, <1>3 DEF Tencent!RouteOf
<1>5. set.ext.status = NoStatus \/ \A i \in DOMAIN es : set.ext.status = rs[i].status
  <2>1. set.ext = Tencent!SetExt(rs)
    BY DEF TencentLists
  <2>2. DOMAIN rs = DOMAIN es
    BY <1>2
  <2> HIDE DEF rs
  <2> DEFINE alike == \A i \in DOMAIN rs : rs[i].status = rs[1].status
             status == IF alike THEN rs[1].status ELSE NoStatus
             default == IF \E i \in DOMAIN rs : rs[i].system THEN TRUE ELSE None
  <2>3. set.ext = [status |-> status, default |-> default]
    BY <2>1, Zenon DEF Tencent!SetExt, NoStatus
  <2>4. status = NoStatus \/ (status = rs[1].status /\ alike)
    OBVIOUS
  <2> HIDE DEF status, default
  <2>5. set.ext.status = status
    BY <2>3
  <2> QED BY <2>2, <2>4, <2>5
<1> HIDE DEF L, rs
<1>6. route.line = L
  <2>1. Tencent!LinesFor(y, now) = {Tencent!LineFor(es[i], now) : i \in DOMAIN es}
    BY <1>1 DEF Tencent!LinesFor
  <2>2. \A i \in DOMAIN es : Tencent!LineFor(es[i], now) = L
    BY <1>3 DEF Tencent!LineFor, NoLine
  <2>3. Tencent!LinesFor(y, now) = {L}
    BY <1>2, <2>1, <2>2
  <2>4. route.line = CHOOSE line \in Tencent!LinesFor(y, now) : TRUE
    BY DEF Tencent!WantedRoute
  <2> QED BY <2>3, <2>4
<1>7. /\ route.override <=> Tencent!StatusOf(y) # NoStatus
      /\ route.status = IF Tencent!StatusOf(y) # NoStatus THEN Tencent!StatusOf(y) ELSE now.status
  BY Zenon DEF Tencent!WantedRoute, NoStatus
<1>8. Tencent!StatusOf(y) \in {NoStatus, set.ext.status}
  BY <1>1 DEF Tencent!StatusOf, NoStatus
<1>9. ASSUME NEW i \in DOMAIN es, NEW fallback
      PROVE  Tencent!EffectiveStatus(es[i], route, fallback) = es[i].ext.status
  <2> DEFINE e == es[i]
             own == IF e.ext = None THEN NoStatus ELSE e.ext.status
             given == IF ~route.override /\ own # NoStatus THEN own
                      ELSE IF route.override \/ route.status # NoStatus THEN route.status ELSE fallback
  <2>1. Tencent!EffectiveStatus(e, route, fallback) = IF given = NoStatus THEN "ENABLE" ELSE given
    BY Zenon DEF Tencent!EffectiveStatus, NoStatus
  <2>2. own = e.ext.status /\ own # NoStatus /\ own = rs[i].status
    BY <1>3
  <2> HIDE DEF own
  <2>3. given = own
    <3>1. CASE ~ route.override
      BY <2>2, <3>1
    <3>2. CASE route.override
      <4>1. route.status = set.ext.status /\ set.ext.status # NoStatus
        BY <1>7, <1>8, <3>2
      <4>2. route.status = own
        BY <1>5, <2>2, <4>1
      <4> QED BY <3>2, <4>2
    <3> QED BY <3>1, <3>2
  <2> HIDE DEF given
  <2> QED BY <2>1, <2>2, <2>3
<1> QED
  BY <1>4, <1>6, <1>9

\* No entry is to be written.
LEMMA TencentEcho ==
  ASSUME issued \in Nat, NEW view, ViewOK(view), NEW set, SetOK(set), NEW m, TencentLists(set, view, m),
         \A i \in DOMAIN m : TencentOwn(view[m[i]]),
         NEW y, y = InputOf(set), NEW es, es = set.entries,
         NEW route, route = Tencent!WantedRoute(y, Tencent!RouteOf(set))
  PROVE  Tencent!UpdateCalls(set, y, es, route) = <<>>
<1> DEFINE writes == TencentWrites(set, y, route, es)
<1>1. /\ route.line = Tencent!RouteOf(set).line
      /\ \A i \in DOMAIN es : \A fallback : Tencent!EffectiveStatus(es[i], route, fallback) = es[i].ext.status
  BY TencentOwnRoute
<1>2. IsSeq(es) /\ y.name = set.name /\ y.type = set.type /\ y.ttl = set.ttl
  BY DEF SetOK, EntriesOK, InputOf
<1>3. \A i \in DOMAIN es : es[i].id \in P!EntryIDs(set) /\ P!EntryWith(set, es[i].id) = es[i]
  BY OwnEntries DEF TencentLists
<1>4. ASSUME NEW i \in DOMAIN es PROVE writes[i] = <<>>
  <2> DEFINE e == es[i]
             status == Tencent!StatusFor(set, route, e)
  <2>1. e.id \in Tencent!EntryIDs(set) /\ Tencent!EntryWith(set, e.id) = e
    BY <1>3, SameRequest, SameIDs
  <2>2. writes[i] = TencentWritten(set, y, route, e)
    BY DEF TencentWrites
  <2>3. \A fallback : Tencent!EffectiveStatus(e, route, fallback) = e.ext.status
    BY <1>1
  <2> HIDE DEF e, writes
  <2>4. status = e.ext.status
    BY <2>3, Zenon DEF Tencent!StatusFor
  <2> HIDE DEF status
  <2>5. ~ Tencent!NeedsUpdate(set, y, route, e, status)
    BY <1>1, <1>2, <2>1, <2>4 DEF Tencent!NeedsUpdate
  <2>6. TencentWritten(set, y, route, e) = <<>>
    BY <2>1, <2>5 DEF TencentWritten, status
  <2> QED BY <2>2, <2>6
<1>5. writes = [i \in DOMAIN es |-> writes[i]]
  BY DEF TencentWrites
<1> HIDE DEF writes
<1>6. Flattened(writes) = <<>>
  BY <1>2, <1>4, <1>5, NoneEach
<1>7. RemovalsOf(set, es) = <<>>
  BY <1>2, NoRemovals
<1>8. Tencent!UpdateCalls(set, y, es, route) = Flattened(writes) \o RemovalsOf(set, es)
  BY TencentUpdateCalls DEF Joins, writes
<1> QED
  BY <1>6, <1>7, <1>8, EmptyIsSeq, ConcatEmpty

\* Cloudflare.
CloudflareOwn(r) == r.proxied \in BOOLEAN /\ Cloudflare!SetExt(<<r>>) # None

\* A set sent back keeps its options; one that is proxied without an automatic
\* TTL is refused.
LEMMA CloudflareOwnOptions ==
  ASSUME adapter = "cloudflare", issued \in Nat, NEW view, ViewOK(view),
         NEW set \in Cloudflare!Sets(view), NEW m, CloudflareLists(set, view, m),
         \A i \in DOMAIN m : CloudflareOwn(view[m[i]]),
         NEW y, y = InputOf(set), ~ UpdateObjection(y, set),
         NEW options, options = Cloudflare!WantedOptions(y, set.ext)
  PROVE  ~ CloudflareCommon(set, y, options)
<1> DEFINE was == set.ext
           rs == [i \in DOMAIN m |-> view[m[i]]]
<1>1. y.ext = was /\ y.name = set.name /\ y.type = set.type /\ y.ttl = set.ttl
  BY DEF InputOf
<1>2. 1 \in DOMAIN m /\ was = Cloudflare!SetExt(rs) /\ rs[1] = view[m[1]]
  BY SeqFacts DEF CloudflareLists, Lists
<1>3. CloudflareOwn(rs[1])
  BY <1>2
<1> HIDE DEF rs
<1>4. was = Cloudflare!SetExt(<<rs[1]>>)
  BY <1>2, Zenon DEF Cloudflare!SetExt
<1>5. was # None /\ was.proxied \in BOOLEAN /\ was.automatic \in BOOLEAN
  <2>1. was # None
    BY <1>3, <1>4 DEF CloudflareOwn
  <2>2. ShowsOptions(set, rs[1])
    BY <1>2, CloudflareOptions
  <2>3. was.proxied = rs[1].proxied /\ was.automatic = (rs[1].ttl = 1)
    BY <2>2, Zenon DEF ShowsOptions, was
  <2> QED BY <1>3, <2>1, <2>3, Zenon DEF CloudflareOwn
<1> HIDE DEF was
<1>6. was.proxied # None /\ was.automatic # None
  BY <1>5, NoneAssumption
<1>7. /\ options.proxied = was.proxied /\ options.automatic = (was.proxied \/ was.automatic)
      /\ options.comment = was.comment /\ options.tags = was.tags
  BY <1>1, Zenon DEF Cloudflare!WantedOptions, was
<1>8. ~ (was.proxied /\ was.automatic = FALSE)
  <2>1. ~ (options.proxied /\ y.ext # None /\ y.ext.automatic = FALSE)
    BY Zenon DEF UpdateObjection, Cloudflare!Objection
  <2> QED BY <1>1, <1>5, <1>7, <2>1, Zenon
<1>9. options.automatic = was.automatic
  BY <1>5, <1>7, <1>8, Zenon
<1>10. \A f \in {"proxied", "automatic", "comment", "tags"} : was[f] = options[f]
  BY <1>7, <1>9, Zenon
<1>11. Cloudflare!OptionsOf(set) = was
  BY DEF Cloudflare!OptionsOf, was
<1> QED
  BY <1>1, <1>10, <1>11, Zenon DEF CloudflareCommon

\* No entry is to be written, and no option.
LEMMA CloudflareEcho ==
  ASSUME issued \in Nat, NEW view, ViewOK(view), NEW set, SetOK(set), NEW m, CloudflareLists(set, view, m),
         NEW y, y = InputOf(set), NEW es, es = set.entries, NEW options, ~ CloudflareCommon(set, y, options)
  PROVE  Cloudflare!UpdateCalls(set, y, es, options) = <<>>
<1> DEFINE writes == CloudflareWrites(set, y, options, es)
<1>1. IsSeq(es)
  BY DEF SetOK, EntriesOK
<1>2. \A i \in DOMAIN es : es[i].id \in P!EntryIDs(set) /\ P!EntryWith(set, es[i].id) = es[i]
  BY OwnEntries DEF CloudflareLists
<1>3. ASSUME NEW i \in DOMAIN es PROVE writes[i] = <<>>
  <2> DEFINE e == es[i]
  <2>1. e.id \in Cloudflare!EntryIDs(set) /\ Cloudflare!EntryWith(set, e.id) = e
    BY <1>2, SameRequest, SameIDs
  <2>2. writes[i] = CloudflareWritten(set, y, options, e)
    BY DEF CloudflareWrites
  <2> HIDE DEF e, writes
  <2> QED BY <2>1, <2>2 DEF CloudflareWritten
<1>4. writes = [i \in DOMAIN es |-> writes[i]]
  BY DEF CloudflareWrites
<1> HIDE DEF writes
<1>5. Flattened(writes) = <<>>
  BY <1>1, <1>3, <1>4, NoneEach
<1>6. RemovalsOf(set, es) = <<>>
  BY <1>1, NoRemovals
<1>7. Cloudflare!UpdateCalls(set, y, es, options) = Flattened(writes) \o RemovalsOf(set, es)
  BY CloudflareUpdateCalls DEF Joins, writes
<1> QED
  BY <1>5, <1>6, <1>7, EmptyIsSeq, ConcatEmpty

\* What the adapter reads of its records.
AllGiven(view) == \A id \in DOMAIN view : Given(adapter, view[id])

\* A listed set of single records is as it would be sent back, and its ID says
\* which it is.
OwnInput(set, x) ==
  /\ P!Normalized(x) = x /\ x.entries = set.entries /\ x.type = set.type
  /\ P!WithIDs(x.entries, issued) = set.entries

LEMMA SingleOwnInput ==
  ASSUME adapter # "huawei", issued \in Nat, NEW view, ViewOK(view), AllGiven(view), NEW set, SetOK(set),
         NEW m, Lists(set, view, m), NEW raw, ListedFrom(set, view, m, raw), P!Matches(set.fingerprint, set),
         NEW x, x = InputOf(set)
  PROVE  OwnInput(set, x)
<1>1. DOMAIN m = DOMAIN set.entries /\ \A i \in DOMAIN m : m[i] \in DOMAIN view
  BY DEF Lists, Items
<1>2. \A i \in DOMAIN m : view[m[i]].text.quotes \in Nat
  BY <1>1 DEF AllGiven, Given
<1>3. \A i \in DOMAIN set.entries : set.entries[i].text.quotes \in Nat
  BY <1>1, <1>2 DEF ListedFrom
<1>4. P!Normalized(x) = x
  BY <1>3, InputIsNormal DEF ListedFrom
<1>5. x.entries = set.entries /\ x.type = set.type /\ IsSeq(set.entries)
  BY DEF InputOf, SetOK, EntriesOK
<1>6. P!WithIDs(set.entries, issued) = set.entries
  BY <1>5, OwnEntries
<1> QED
  BY <1>4, <1>5, <1>6 DEF OwnInput

LEMMA AliyunEchoes ==
  ASSUME adapter = "aliyun", issued \in Nat, NEW view, ViewOK(view), AllGiven(view), Aliyun!Readable(view),
         NEW set \in Aliyun!Sets(view), P!Matches(set.fingerprint, set), NEW x, x = InputOf(set),
         NEW sets, NEW p, p = Aliyun!UpdatePlan(x, set, sets, issued), Allowed(p)
  PROVE  p.calls = <<>>
<1>1. SetOK(set)
  BY AliyunSets
<1>2. PICK m : AliyunLists(set, view, m) /\ ListedFrom(set, view, m, AliyunRaw(view, m))
  BY AliyunSets
<1>3. Lists(set, view, m)
  BY <1>2 DEF AliyunLists
<1>4. OwnInput(set, x)
  <2> DEFINE raw == AliyunRaw(view, m)
  <2>1. ListedFrom(set, view, m, raw)
    BY <1>2
  <2> HIDE DEF raw
  <2> QED BY <1>1, <1>3, <2>1, SingleOwnInput
<1> DEFINE route == Aliyun!WantedRoute(x, Aliyun!RouteOf(set))
           es == set.entries
<1>5. /\ ~ Aliyun!Objection(x, Aliyun!RouteOf(set))
      /\ p = P!Mutate(Aliyun!UpdateCalls(set, x, es, route), Aliyun!Finalized(es, route), Aliyun!KeyFor(x, route),
                      route.status, {})
  <2>1. x = P!Normalized(x) /\ es = P!WithIDs(x.entries, issued)
    BY <1>4 DEF OwnInput
  <2> QED BY <2>1, AliyunUpdateSame
<1>6. set.type \in Aliyun!Supported
  <2>1. ~ (x.type \notin Aliyun!Supported)
    BY <1>5, PTL DEF Aliyun!Objection
  <2> QED BY <2>1, <1>4 DEF OwnInput
<1>7. ASSUME NEW i \in DOMAIN m PROVE AliyunOwn(view[m[i]])
  <2>1. m[i] \in DOMAIN view /\ view[m[i]].type = set.type
    BY <1>3 DEF Lists, Items
  <2>2. ~ Aliyun!Malformed(view[m[i]])
    BY <1>6, <2>1 DEF Aliyun!Readable
  <2>3. Aliyun!EntryOf(0, view[m[i]]).ext # None
    BY <2>1 DEF AllGiven, Given
  <2> QED BY <2>2, <2>3 DEF AliyunOwn
<1>8. Aliyun!UpdateCalls(set, x, es, route) = <<>>
  <2> HIDE DEF route
  <2>1. route = Aliyun!WantedRoute(x, Aliyun!RouteOf(set))
    BY DEF route
  <2> QED BY <1>1, <1>2, <1>7, <2>1, AliyunEcho
<1> QED
  BY <1>5, <1>8, PlanFields

LEMMA TencentEchoes ==
  ASSUME adapter = "tencent", issued \in Nat, NEW view, ViewOK(view), AllGiven(view), Tencent!Readable(view),
         NEW set \in Tencent!Sets(view), P!Matches(set.fingerprint, set), NEW x, x = InputOf(set),
         NEW sets, NEW p, p = Tencent!UpdatePlan(x, set, sets, issued), Allowed(p)
  PROVE  p.calls = <<>>
<1>1. SetOK(set)
  BY TencentSets
<1>2. PICK m : TencentLists(set, view, m) /\ ListedFrom(set, view, m, TencentRaw(view, m))
  BY TencentSets
<1>3. Lists(set, view, m)
  BY <1>2 DEF TencentLists
<1>4. OwnInput(set, x)
  <2> DEFINE raw == TencentRaw(view, m)
  <2>1. ListedFrom(set, view, m, raw)
    BY <1>2
  <2> HIDE DEF raw
  <2> QED BY <1>1, <1>3, <2>1, SingleOwnInput
<1> DEFINE route == Tencent!WantedRoute(x, Tencent!RouteOf(set))
           es == set.entries
<1>5. /\ ~ Tencent!Objection(x, Tencent!RouteOf(set))
      /\ p = P!Mutate(Tencent!UpdateCalls(set, x, es, route), Tencent!Expected(set, es, route),
                      Tencent!KeyFor(x, route), NoStatus, TencentGone(x, set))
  <2>1. x = P!Normalized(x) /\ es = P!WithIDs(x.entries, issued)
    BY <1>4 DEF OwnInput
  <2> QED BY <2>1, TencentUpdateSame
<1>6. set.type \in Tencent!Supported
  <2>1. ~ (x.type \notin Tencent!Supported)
    BY <1>5, PTL DEF Tencent!Objection
  <2> QED BY <2>1, <1>4 DEF OwnInput
<1>7. ASSUME NEW i \in DOMAIN m PROVE TencentOwn(view[m[i]])
  <2>1. m[i] \in DOMAIN view /\ view[m[i]].type = set.type
    BY <1>3 DEF Lists, Items
  <2>2. ~ Tencent!Malformed(view[m[i]])
    BY <1>6, <2>1 DEF Tencent!Readable
  <2>3. Tencent!EntryOf(0, view[m[i]]).ext # None
    BY <2>1 DEF AllGiven, Given
  <2>4. view[m[i]].line # NoLine /\ view[m[i]].status # NoStatus
    BY <2>2 DEF Tencent!Malformed, NoLine, NoStatus
  <2> QED BY <2>3, <2>4 DEF TencentOwn
<1>8. Tencent!UpdateCalls(set, x, es, route) = <<>>
  <2> HIDE DEF route
  <2>1. route = Tencent!WantedRoute(x, Tencent!RouteOf(set))
    BY DEF route
  <2> QED BY <1>1, <1>2, <1>7, <2>1, TencentEcho
<1> QED
  BY <1>5, <1>8, PlanFields

LEMMA CloudflareEchoes ==
  ASSUME adapter = "cloudflare", issued \in Nat, NEW view, ViewOK(view), AllGiven(view),
         NEW set \in Cloudflare!Sets(view), P!Matches(set.fingerprint, set), NEW x, x = InputOf(set),
         NEW sets, NEW p, p = Cloudflare!UpdatePlan(x, set, sets, issued), Allowed(p)
  PROVE  p.calls = <<>>
<1>1. SetOK(set)
  BY CloudflareSets
<1>2. PICK m : CloudflareLists(set, view, m) /\ ListedFrom(set, view, m, CloudflareRaw(view, m))
  BY CloudflareSets
<1>3. Lists(set, view, m)
  BY <1>2 DEF CloudflareLists
<1>4. OwnInput(set, x)
  <2> DEFINE raw == CloudflareRaw(view, m)
  <2>1. ListedFrom(set, view, m, raw)
    BY <1>2
  <2> HIDE DEF raw
  <2> QED BY <1>1, <1>3, <2>1, SingleOwnInput
<1> DEFINE options == Cloudflare!WantedOptions(x, set.ext)
           es == set.entries
<1>5. /\ CloudflareChange(p, x, set) /\ ~ UpdateObjection(P!Normalized(x), set)
  BY CloudflarePlanned
<1>6. p = P!Mutate(Cloudflare!UpdateCalls(set, x, es, options), es, CloudflareKey(x, options), NoStatus, {})
      /\ ~ UpdateObjection(x, set)
  BY <1>4, <1>5 DEF CloudflareChange, OwnInput
<1>7. ASSUME NEW i \in DOMAIN m PROVE CloudflareOwn(view[m[i]])
  <2>1. m[i] \in DOMAIN view
    BY <1>3 DEF Lists, Items
  <2> QED BY <2>1 DEF AllGiven, Given, CloudflareOwn
<1>8. Cloudflare!UpdateCalls(set, x, es, options) = <<>>
  <2> HIDE DEF options
  <2>1. options = Cloudflare!WantedOptions(x, set.ext)
    BY DEF options
  <2>2. ~ CloudflareCommon(set, x, options)
    BY <1>2, <1>6, <1>7, <2>1, CloudflareOwnOptions
  <2> QED BY <1>1, <1>2, <2>2, CloudflareEcho
<1> QED
  BY <1>6, <1>8, PlanFields

\* A listed set of single records is known by its ID.
LEMMA SingleByID ==
  ASSUME adapter \in Adapters, adapter # "huawei", issued \in Nat, NEW view, ViewOK(view),
         NEW set \in Sets(view), NEW other \in Sets(view), set.id = other.id
  PROVE  set = other
<1>1. CASE adapter = "aliyun"
  <2>1. set \in Aliyun!Sets(view) /\ other \in Aliyun!Sets(view)
    BY <1>1 DEF Sets
  <2>2. PICK m : ListedFrom(set, view, m, AliyunRaw(view, m))
    BY <1>1, <2>1, AliyunSets
  <2>3. PICK n : ListedFrom(other, view, n, AliyunRaw(view, n))
    BY <1>1, <2>1, AliyunSets
  <2> QED BY <2>2, <2>3, Zenon DEF ListedFrom
<1>2. CASE adapter = "tencent"
  <2>1. set \in Tencent!Sets(view) /\ other \in Tencent!Sets(view)
    BY <1>2 DEF Sets
  <2>2. PICK m : ListedFrom(set, view, m, TencentRaw(view, m))
    BY <1>2, <2>1, TencentSets
  <2>3. PICK n : ListedFrom(other, view, n, TencentRaw(view, n))
    BY <1>2, <2>1, TencentSets
  <2> QED BY <2>2, <2>3, Zenon DEF ListedFrom
<1>3. CASE adapter = "cloudflare"
  <2>1. set \in Cloudflare!Sets(view) /\ other \in Cloudflare!Sets(view)
    BY <1>3 DEF Sets
  <2>2. PICK m : ListedFrom(set, view, m, CloudflareRaw(view, m))
    BY <1>3, <2>1, CloudflareSets
  <2>3. PICK n : ListedFrom(other, view, n, CloudflareRaw(view, n))
    BY <1>3, <2>1, CloudflareSets
  <2> QED BY <2>2, <2>3, Zenon DEF ListedFrom
<1> QED
  BY <1>1, <1>2, <1>3, AdaptersAssumption

\* A set of Huawei Cloud as it is listed, and its entries.
HuaweiRead(set, id, r) == set = P!Listed(Huawei!RawSet(id, r))

LEMMA HuaweiReads ==
  ASSUME adapter = "huawei", NEW view, ViewOK(view), Huawei!Readable(view),
         NEW id \in DOMAIN view, NEW set, HuaweiRead(set, id, view[id])
  PROVE  SetOK(set) /\ HuaweiLists(set, view, id)
<1>1. set \in Huawei!Sets(view)
  BY SameListed DEF HuaweiRead, Huawei!Sets
<1>2. PICK other : SetOK(set) /\ HuaweiLists(set, view, other)
  BY <1>1, HuaweiSets
<1>3. set.id = {id}
  <2> DEFINE r == view[id]
             raw == Huawei!RawSet(id, r)
  <2>1. raw = [id |-> {id}, name |-> r.name, type |-> r.type, ttl |-> r.ttl, entries |-> Huawei!EntriesOf(r),
               ext |-> raw.ext, fingerprint |-> None]
    BY DEF Huawei!RawSet
  <2>2. set = P!Listed(raw)
    BY DEF HuaweiRead
  <2>3. raw.id = {id} /\ DOMAIN raw = {"id", "name", "type", "ttl", "entries", "ext", "fingerprint"}
    <3> HIDE DEF raw
    <3> QED BY <2>1
  <2> HIDE DEF raw
  <2>4. P!Normalized(raw).id = {id} /\ DOMAIN P!Normalized(raw) = DOMAIN raw
    BY <2>3 DEF P!Normalized
  <2>5. set = [P!Normalized(raw) EXCEPT !.fingerprint = P!Digest(P!Normalized(raw))]
    BY <2>2 DEF P!Listed
  <2> DEFINE n == P!Normalized(raw)
             d == P!Digest(P!Normalized(raw))
  <2>6. set = [n EXCEPT !.fingerprint = d] /\ n.id = {id} /\ DOMAIN n = DOMAIN raw
    BY <2>4, <2>5
  <2> HIDE DEF n, d
  <2> QED BY <2>6, <2>3
<1>4. other = id
  BY <1>2, <1>3 DEF HuaweiLists
<1> QED
  BY <1>2, <1>4

\* One value of a set of Huawei Cloud, read, normalized and sent again.
LEMMA HuaweiOwnValue ==
  ASSUME NEW type, NEW quotes,
         quotes = IF type \in {"TXT", "CAA"} THEN Nat \ {0} ELSE Nat,
         NEW v, v \in [text : [word : STRING, quotes : quotes], num : {v.num}],
         type \in {"CNAME", "NS"} => v.num = None,
         NEW e, e.text = v.text, e.num = v.num,
         NEW n, n = P!NormalEntry(type, e)
  PROVE  /\ n.text.quotes \in Nat
         /\ (type \in {"TXT", "CAA"} => ~ (n.text.quotes > 0)) =>
              v = [text |-> IF type \in {"TXT", "CAA"} THEN Huawei!Quoted(n.text) ELSE n.text, num |-> n.num]
<1> DEFINE t == v.text
           c == n.text
<1>1. v = [text |-> t, num |-> v.num] /\ t = [word |-> t.word, quotes |-> t.quotes] /\ t.quotes \in quotes
  OBVIOUS
<1>2. n.num = v.num /\ c = IF type \in {"TXT", "CAA"} THEN P!CanonicalTXT(t) ELSE t
  BY DEF P!NormalEntry
<1>3. t.quotes \in Nat /\ (type \in {"TXT", "CAA"} => t.quotes # 0)
  BY <1>1
<1> HIDE DEF t, c
<1>4. CASE type \in {"TXT", "CAA"}
  <2>1. c = [word |-> t.word, quotes |-> t.quotes - 1]
    BY <1>2, <1>3, <1>4 DEF P!CanonicalTXT
  <2>2. c.quotes \in Nat /\ c.quotes = t.quotes - 1 /\ c.word = t.word
    BY <1>3, <1>4, <2>1
  <2>3. ASSUME ~ (c.quotes > 0) PROVE Huawei!Quoted(c) = t
    <3>1. c.quotes + 1 = t.quotes
      BY <1>3, <2>2
    <3> QED BY <1>1, <2>2, <3>1 DEF Huawei!Quoted
  <2> QED BY <1>1, <1>2, <1>4, <2>2, <2>3 DEF c
<1>5. CASE type \notin {"TXT", "CAA"}
  BY <1>1, <1>2, <1>3, <1>5 DEF c
<1> QED
  BY <1>4, <1>5

LEMMA HuaweiOwnValues ==
  ASSUME adapter = "huawei", NEW view, ViewOK(view), NEW id, NEW set, SetOK(set), HuaweiLists(set, view, id),
         NEW r, r = view[id], Given(adapter, r), NEW x, x = InputOf(set)
  PROVE  /\ \A i \in DOMAIN set.entries : set.entries[i].text.quotes \in Nat
         /\ ~ Huawei!CannotBeSent(x) => Huawei!Values(x) = r.values
<1> DEFINE es == set.entries
           vs == r.values
           type == r.type
           quotes == IF type \in {"TXT", "CAA"} THEN Nat \ {0} ELSE Nat
           Sent(e) == [text |-> IF type \in {"TXT", "CAA"} THEN Huawei!Quoted(e.text) ELSE e.text, num |-> e.num]
<1>1. RecordOK("huawei", r)
  BY DEF ViewOK, HuaweiLists
<1>2. /\ DOMAIN es = DOMAIN vs /\ set.type = type
      /\ \A i \in DOMAIN vs : es[i] = P!NormalEntry(type, Huawei!EntriesOf(r)[i])
  BY DEF HuaweiLists
<1>3. \A i \in DOMAIN vs :
        /\ vs[i] \in [text : [word : STRING, quotes : quotes], num : {vs[i].num}]
        /\ type \in {"CNAME", "NS"} => vs[i].num = None
  BY DEF Given
<1>4. IsSeq(vs) /\ \A i \in DOMAIN vs :
        LET e == Huawei!EntriesOf(r)[i] IN e = [id |-> None, text |-> vs[i].text, num |-> vs[i].num, ext |-> e.ext]
  BY <1>1, HuaweiEntries
<1> HIDE DEF es, vs, type, quotes
<1>5. ASSUME NEW i \in DOMAIN vs
      PROVE  /\ es[i].text.quotes \in Nat
             /\ (type \in {"TXT", "CAA"} => ~ (es[i].text.quotes > 0)) => vs[i] = Sent(es[i])
  <2> DEFINE e == Huawei!EntriesOf(r)[i]
             v == vs[i]
  <2>1. e.text = v.text /\ e.num = v.num
    <3>1. e = [id |-> None, text |-> v.text, num |-> v.num, ext |-> e.ext]
      BY <1>4
    <3> HIDE DEF e, v
    <3> QED BY <3>1
  <2>2. es[i] = P!NormalEntry(type, e)
    BY <1>2
  <2>3. v \in [text : [word : STRING, quotes : quotes], num : {v.num}] /\ (type \in {"CNAME", "NS"} => v.num = None)
    BY <1>3
  <2>4. quotes = IF type \in {"TXT", "CAA"} THEN Nat \ {0} ELSE Nat
    BY DEF quotes
  <2> HIDE DEF e, v
  <2> QED BY <2>1, <2>2, <2>3, <2>4, HuaweiOwnValue DEF v
<1>6. x.type = type /\ x.entries = es
  BY <1>2 DEF InputOf, es
<1>7. ASSUME ~ Huawei!CannotBeSent(x) PROVE Huawei!Values(x) = vs
  <2>1. \A i \in DOMAIN es : type \in {"TXT", "CAA"} => ~ (es[i].text.quotes > 0)
    BY <1>6, <1>7 DEF Huawei!CannotBeSent
  <2>2. Huawei!Values(x) = [i \in DOMAIN es |-> Sent(es[i])]
    BY <1>6 DEF Huawei!Values
  <2>3. \A i \in DOMAIN vs : vs[i] = Sent(es[i])
    BY <1>2, <1>5, <2>1 DEF es
  <2>4. vs = [i \in DOMAIN vs |-> vs[i]] /\ DOMAIN es = DOMAIN vs
    BY <1>2, <1>4, SeqFacts DEF es
  <2> HIDE DEF PassedOn
  <2>5. [i \in DOMAIN es |-> Sent(es[i])] = [i \in DOMAIN vs |-> vs[i]]
    BY <2>3, <2>4
  <2> QED BY <2>2, <2>4, <2>5
<1>8. \A i \in DOMAIN es : es[i].text.quotes \in Nat
  BY <1>2, <1>5 DEF es
<1> QED
  BY <1>7, <1>8 DEF es, vs

\* The weight of a listed set, merged with itself.
LEMMA HuaweiOwnWeight ==
  ASSUME adapter = "huawei", NEW view, ViewOK(view), NEW set, SetOK(set), NEW id, HuaweiLists(set, view, id),
         NEW now, now = Huawei!RoutingOf(set)
  PROVE  Huawei!MergedWeight(now, now) \in {None, view[id].weight}
<1> DEFINE r == view[id]
           es == Huawei!EntriesOf(r)
           own == [line |-> r.line, weight |-> r.weight]
           ext == IF r.line = "" /\ r.weight = None THEN None ELSE own
<1>1. RecordOK("huawei", r)
  BY DEF ViewOK, HuaweiLists
<1>2. PICK i \in DOMAIN set.entries : now = set.entries[i].ext
  BY HuaweiRouting DEF SetOK
<1>3. i \in DOMAIN r.values /\ set.entries[i] = P!NormalEntry(r.type, es[i])
  BY <1>2 DEF HuaweiLists
<1>4. P!NormalEntry(r.type, es[i]).ext = es[i].ext
  BY NormalEntryFacts
<1>5. es[i].ext = ext
  BY <1>1, <1>3, HuaweiEntries
<1>6. now \in {None, own}
  BY <1>2, <1>3, <1>4, <1>5
<1>7. own.weight = r.weight
  OBVIOUS
<1> HIDE DEF r, own
<1>8. Huawei!MergedWeight(now, now) \in {None, now.weight} /\ (now = None => Huawei!MergedWeight(now, now) = None)
  BY Zenon DEF Huawei!MergedWeight
<1> QED
  BY <1>6, <1>7, <1>8 DEF r

\* A call that writes nothing but what is there already.
Restates(c, r) ==
  /\ c.op = "set" /\ "phase" \in DOMAIN c.with /\ c.with.phase = "PENDING_UPDATE"
  /\ \A f \in DOMAIN c.with \cap DOMAIN r : f # "phase" => c.with[f] = r[f]

LEMMA HuaweiOwnBody ==
  ASSUME NEW r, NEW values, values = r.values, NEW weight \in {None, r.weight}, NEW f,
         f = [name |-> r.name, type |-> r.type, ttl |-> r.ttl, values |-> values, phase |-> "PENDING_UPDATE"],
         NEW b, b = IF weight = None THEN f ELSE Huawei!WithField(f, "weight", weight)
  PROVE  "phase" \in DOMAIN b /\ b.phase = "PENDING_UPDATE" /\ \A g \in DOMAIN b : g # "phase" => b[g] = r[g]
<1>1. /\ DOMAIN f = {"name", "type", "ttl", "values", "phase"} /\ f.phase = "PENDING_UPDATE"
      /\ \A g \in DOMAIN f : g # "phase" => f[g] = r[g]
  OBVIOUS
<1> DEFINE h == Huawei!WithField(f, "weight", weight)
<1>2. DOMAIN h = DOMAIN f \cup {"weight"} /\ \A g \in DOMAIN h : h[g] = IF g = "weight" THEN weight ELSE f[g]
  BY DEF Huawei!WithField
<1> HIDE DEF h
<1>3. CASE weight = None
  BY <1>1, <1>3
<1>4. CASE weight # None
  <2>1. b = h
    BY <1>4 DEF h
  <2>2. "phase" \in DOMAIN h /\ h.phase = "PENDING_UPDATE"
    BY <1>1, <1>2
  <2>3. ASSUME NEW g \in DOMAIN h, g # "phase" PROVE h[g] = r[g]
    BY <1>1, <1>2, <1>4, <2>3
  <2> QED BY <2>1, <2>2, <2>3
<1> QED
  BY <1>3, <1>4

\* What the adapter makes sure of before it plans.
LEMMA HuaweiUpdateSends ==
  ASSUME NEW x, NEW set, NEW sets, NEW y, y = P!Normalized(x), NEW p, p = Huawei!UpdatePlan(x, set, sets, issued),
         Allowed(p)
  PROVE  ~ Huawei!CannotBeSent(y)
<1> DEFINE z == Huawei!Normalized(x)
           default == set.ext.default # None
           bad == ~ Huawei!Normalizable(x) \/ Huawei!Objection(z, Huawei!StatusOf(set))
           now == Huawei!RoutingOf(set)
           id == HuaweiIDOf(set)
           moves == Huawei!LineChanges(now, Huawei!RoutingOf(z))
           unsent == Huawei!CannotBeSent(z)
           q == Huawei!Mutate(HuaweiUpdateCalls(id, set, z, now), z.entries,
                              Huawei!KeyFor(id, z, HuaweiLineOf(now)), "", {})
<1>1. ~ Allowed(Huawei!Refuse("validation")) /\ ~ Allowed(Huawei!Refuse("unsupported"))
  BY DEF Huawei!Refuse, Allowed
<1>2. p = IF default THEN Huawei!Refuse("unsupported") ELSE IF bad THEN Huawei!Refuse("validation")
          ELSE IF moves THEN Huawei!Refuse("unsupported") ELSE IF unsent THEN Huawei!Refuse("validation") ELSE q
  BY Zenon DEF Huawei!UpdatePlan, HuaweiUpdateCalls, HuaweiSwitches, HuaweiSwitch, HuaweiChanged, HuaweiFields, OneCall,
               HuaweiLineOf, HuaweiIDOf
<1>3. ~ unsent
  <2> HIDE DEF default, bad, moves, unsent, q
  <2> QED BY <1>1, <1>2
<1>4. z = y
  BY SameRequest
<1> QED
  BY <1>3, <1>4, Zenon

LEMMA HuaweiEchoes ==
  ASSUME adapter = "huawei", NEW view, ViewOK(view), Huawei!Readable(view), NEW id \in DOMAIN view,
         NEW r, r = view[id], Given(adapter, r), NEW set, HuaweiRead(set, id, r), P!Matches(set.fingerprint, set),
         NEW x, x = InputOf(set), NEW sets, NEW p, p = Huawei!UpdatePlan(x, set, sets, issued), Allowed(p)
  PROVE  \E c : p.calls = <<c>> /\ c.id = id /\ Restates(c, r)
<1> DEFINE now == Huawei!RoutingOf(set)
           weight == Huawei!MergedWeight(now, Huawei!RoutingOf(x))
           w == HuaweiChanged(x, now)
           one == OneCall("set", HuaweiIDOf(set), w)
           s == HuaweiSwitches(HuaweiIDOf(set), set, x)
           calls == HuaweiUpdateCalls(HuaweiIDOf(set), set, x, now)
<1>1. SetOK(set) /\ HuaweiLists(set, view, id)
  BY HuaweiReads
<1>2. HuaweiIDOf(set) = id
  BY <1>1 DEF HuaweiIDOf, HuaweiLists
<1>3. /\ \A i \in DOMAIN set.entries : set.entries[i].text.quotes \in Nat
      /\ ~ Huawei!CannotBeSent(x) => Huawei!Values(x) = r.values
  BY <1>1, HuaweiOwnValues
<1>4. x = P!Normalized(x)
  <2> DEFINE raw == Huawei!RawSet(id, r)
  <2>1. set = P!Listed(raw)
    BY DEF HuaweiRead
  <2> HIDE DEF raw
  <2> QED BY <1>1, <1>3, <2>1, InputIsNormal
<1>5. Huawei!Values(x) = r.values
  BY <1>3, <1>4, HuaweiUpdateSends
<1>6. p.calls = calls
  <2> DEFINE key == Huawei!KeyFor(HuaweiIDOf(set), x, HuaweiLineOf(now))
  <2>1. p = P!Mutate(calls, x.entries, key, NoStatus, {})
    BY <1>4, HuaweiUpdateSame
  <2> HIDE DEF calls, key
  <2> QED BY <2>1, PlanFields
<1>7. x.name = r.name /\ x.type = r.type /\ x.ttl = r.ttl /\ x.ext = set.ext /\ x.entries = set.entries
  BY <1>1 DEF InputOf, HuaweiLists
<1>8. Huawei!RoutingOf(x) = now
  BY <1>7, Zenon DEF Huawei!RoutingOf, Huawei!Routings
<1>9. weight \in {None, r.weight}
  BY <1>1, <1>8, HuaweiOwnWeight
<1>10. "phase" \in DOMAIN w /\ w.phase = "PENDING_UPDATE" /\ \A g \in DOMAIN w : g # "phase" => w[g] = r[g]
  <2> DEFINE values == Huawei!Values(x)
             f == [name |-> r.name, type |-> r.type, ttl |-> r.ttl, values |-> values, phase |-> "PENDING_UPDATE"]
  <2>1. w = IF weight = None THEN f ELSE Huawei!WithField(f, "weight", weight)
    <3>1. HuaweiFields(x) = f
      BY <1>7, Zenon DEF HuaweiFields
    <3> QED BY <3>1, Zenon DEF HuaweiChanged
  <2>2. values = r.values /\ f = [name |-> r.name, type |-> r.type, ttl |-> r.ttl, values |-> values, phase |-> "PENDING_UPDATE"]
    BY <1>5
  <2> HIDE DEF weight, w, values, f
  <2> QED BY <1>9, <2>1, <2>2, HuaweiOwnBody
<1>11. s = <<>>
  <2>1. Huawei!StatusOf(x) = Huawei!StatusOf(set)
    BY <1>7, Zenon DEF Huawei!StatusOf
  <2>2. ~ Huawei!ShouldSetStatus(Huawei!StatusOf(set), Huawei!StatusOf(x))
    BY <2>1, Zenon DEF Huawei!ShouldSetStatus
  <2> QED BY <2>2, Zenon DEF HuaweiSwitches
<1>12. PICK c : one = <<c>> /\ c.op = "set" /\ c.id = HuaweiIDOf(set) /\ c.with = w
  BY OneCallFacts
<1>13. calls = one \o s
  BY DEF HuaweiUpdateCalls
<1> HIDE DEF calls, one, s, w
<1>14. p.calls = <<c>>
  BY <1>6, <1>11, <1>12, <1>13
<1> QED
  BY <1>2, <1>10, <1>12, <1>14 DEF Restates

=============================================================================
