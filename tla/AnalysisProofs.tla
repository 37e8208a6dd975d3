---------------------------- MODULE AnalysisProofs ----------------------------
(***************************************************************************)
(* Theorems about KaitaiCache, for any processes, requests, versions and   *)
(* numbers of decodes and edits; about Reporting, for JSON values of any   *)
(* size; and that AnalysisCommands has every theorem of its three          *)
(* families.                                                               *)
(***************************************************************************)
EXTENDS AnalysisCommands, MarkStoreProofs

-----------------------------------------------------------------------------
(* The cache. *)

Keyed == {"lookup", "load"} \cup Staging

(* What a process knows between the hash and the load.  While no edit comes
   between, its key names the schemas on disk, and what it compiles is what its
   key names. *)
BuildInv ==
  \A p \in Builder :
    /\ at[p] \in Keyed => /\ key[p][1] = request[p]
                          /\ calm[p] => key[p][2] = schema
    /\ stage[p].present => at[p] \in Staging \cup {"dead"}
    /\ at[p] \in Staging => stage[p].present
    /\ at[p] \in {"record", "publish"} =>
         /\ stage[p].output
         /\ stage[p].calm => stage[p].built = key[p]
    /\ at[p] = "publish" => stage[p].record
    /\ at[p] = "load" => cache[key[p]].present

(* An entry is complete and, without edits, what its key names. *)
EntryInv ==
  \A k \in Keys :
    /\ cache[k].output \/ cache[k].record => cache[k].present
    /\ cache[k].present => /\ cache[k].output /\ cache[k].record
                           /\ cache[k].calm => cache[k].built = k

(* A parser is that of the entry it was loaded from. *)
ParserInv ==
  \A p \in Builder :
    parser[p].loaded =>
      /\ at[p] = "idle"
      /\ key[p][1] = request[p]
      /\ cache[key[p]].present
      /\ parser[p].built = cache[key[p]].built

CacheInv == CacheTypeOK /\ BuildInv /\ EntryInv /\ ParserInv

-----------------------------------------------------------------------------
(* There is a key to fill the unused fields with. *)
LEMMA BlankIsKey == Blank \in Keys /\ NoDirectory \in Directory /\ NoParser \in Parser
<1>0. PICK r \in Requests, v \in Versions : TRUE
  BY CacheAssumption
<1>1. <<r, v>> \in Keys
  BY DEF Keys
<1>2. Blank \in Keys
  BY <1>1 DEF Blank
<1> QED
  BY <1>2 DEF NoDirectory, Directory, NoParser, Parser

(* A key is the pair of its parts. *)
LEMMA KeyParts ==
  ASSUME NEW k \in Keys
  PROVE  k[1] \in Requests /\ k[2] \in Versions /\ k = <<k[1], k[2]>>
BY DEF Keys

(* Every step keeps the types. *)
LEMMA CacheTypeStep == CacheTypeOK /\ [CacheNext]_cacheVars => CacheTypeOK'
<1> SUFFICES ASSUME CacheTypeOK, [CacheNext]_cacheVars
             PROVE  CacheTypeOK'
  OBVIOUS
<1> USE BlankIsKey DEF CacheTypeOK, Goto, Staging
<1>1. ASSUME NEW p \in Builder, NEW r \in Requests, Request(p, r)
      PROVE  CacheTypeOK'
  BY <1>1 DEF Request
<1>2. ASSUME NEW p \in Builder, HashSchemas(p)
      PROVE  CacheTypeOK'
  BY <1>2 DEF HashSchemas, CacheKey, Keys
<1>3. ASSUME NEW p \in Builder, LookupHit(p)
      PROVE  CacheTypeOK'
  BY <1>3 DEF LookupHit
<1>4. ASSUME NEW p \in Builder, LookupMiss(p)
      PROVE  CacheTypeOK'
  BY <1>4 DEF LookupMiss, Directory
<1>5. ASSUME NEW p \in Builder, RunCompiler(p)
      PROVE  CacheTypeOK'
  BY <1>5 DEF RunCompiler, Directory, Keys
<1>6. ASSUME NEW p \in Builder, WriteRecord(p)
      PROVE  CacheTypeOK'
  BY <1>6 DEF WriteRecord, Directory
<1>7. ASSUME NEW p \in Builder, Publish(p)
      PROVE  CacheTypeOK'
  BY <1>7 DEF Publish
<1>8. ASSUME NEW p \in Builder, UseWinner(p)
      PROVE  CacheTypeOK'
  BY <1>8 DEF UseWinner
<1>9. ASSUME NEW p \in Builder, LoadParser(p)
      PROVE  CacheTypeOK'
  BY <1>9 DEF LoadParser, Parser, Directory
<1>10. ASSUME NEW p \in Builder, Fail(p)
       PROVE  CacheTypeOK'
  BY <1>10 DEF Fail
<1>11. ASSUME NEW p \in Builder, Die(p)
       PROVE  CacheTypeOK'
  BY <1>11 DEF Die
<1>12. ASSUME NEW v \in Versions, EditSchemas(v)
       PROVE  CacheTypeOK'
  BY <1>12 DEF EditSchemas
<1>13. CASE UNCHANGED cacheVars
  BY <1>13 DEF cacheVars
<1> QED
  BY <1>1, <1>2, <1>3, <1>4, <1>5, <1>6, <1>7, <1>8, <1>9, <1>10, <1>11, <1>12, <1>13
  DEF CacheNext, Decode

(* The initial state. *)
LEMMA CacheInitInv == CacheInit => CacheInv
<1> SUFFICES ASSUME CacheInit
             PROVE  CacheInv
  OBVIOUS
<1> USE BlankIsKey
<1>0. (CHOOSE r \in Requests : TRUE) \in Requests
  BY CacheAssumption
<1>1. CacheTypeOK
  BY <1>0 DEF CacheInit, CacheTypeOK, Keys
<1>2. BuildInv
  BY DEF CacheInit, BuildInv, NoDirectory, Keyed, Staging
<1>3. EntryInv
  BY DEF CacheInit, EntryInv, NoDirectory
<1>4. ParserInv
  BY DEF CacheInit, ParserInv, NoParser
<1> QED
  BY <1>1, <1>2, <1>3, <1>4 DEF CacheInv

(* Steps of one process, none of which removes a published directory. *)
LEMMA BuildStep ==
  ASSUME CacheInv, CacheTypeOK', NEW p \in Builder, Decode(p)
  PROVE  BuildInv'
<1> USE BlankIsKey DEF CacheInv, CacheTypeOK, BuildInv, Goto, Staging, Keyed
<1>1. ASSUME NEW r \in Requests, Request(p, r)
      PROVE  BuildInv'
  BY <1>1 DEF Request
<1>2. CASE HashSchemas(p)
  BY <1>2 DEF HashSchemas, CacheKey, Keys
<1>3. CASE LookupHit(p)
  BY <1>3 DEF LookupHit, Published, EntryInv
<1>4. CASE LookupMiss(p)
  BY <1>4 DEF LookupMiss, Directory, NoDirectory
<1>5. CASE RunCompiler(p)
  <2>1. key[p] = <<key[p][1], key[p][2]>>
    BY KeyParts
  <2>2. stage'[p].calm => stage'[p].built = key[p]
    <3>1. stage'[p].calm = calm[p] /\ stage'[p].built = <<request[p], schema>>
      BY <1>5 DEF RunCompiler, Directory
    <3>2. key[p][1] = request[p] /\ (calm[p] => key[p][2] = schema)
      BY <1>5 DEF RunCompiler
    <3> QED
      BY <2>1, <3>1, <3>2
  <2>3. stage'[p].present /\ stage'[p].output /\ at'[p] = "record"
    BY <1>5 DEF RunCompiler, Directory
  <2>4. \A q \in Builder : q # p => at'[q] = at[q] /\ stage'[q] = stage[q]
    BY <1>5 DEF RunCompiler
  <2>5. UNCHANGED <<schema, cache, request, key, calm>>
    BY <1>5 DEF RunCompiler
  <2>6. at[p] = "compile"
    BY <1>5 DEF RunCompiler
  <2> QED
    BY <2>2, <2>3, <2>4, <2>5, <2>6
<1>6. CASE WriteRecord(p)
  BY <1>6 DEF WriteRecord, Directory
<1>7. CASE Publish(p)
  BY <1>7 DEF Publish, NoDirectory, Directory
<1>8. CASE UseWinner(p)
  BY <1>8 DEF UseWinner, NoDirectory
<1>9. CASE LoadParser(p)
  BY <1>9 DEF LoadParser
<1>10. CASE Fail(p)
  BY <1>10 DEF Fail, NoDirectory
<1>11. CASE Die(p)
  BY <1>11 DEF Die
<1> QED
  BY <1>1, <1>2, <1>3, <1>4, <1>5, <1>6, <1>7, <1>8, <1>9, <1>10, <1>11 DEF Decode

(* Only Publish touches the cache, and then under a key that has no directory. *)
LEMMA CacheChanges ==
  ASSUME NEW p \in Builder, Decode(p)
  PROVE  cache' = cache \/ Publish(p)
BY DEF Decode, Request, HashSchemas, LookupHit, LookupMiss, RunCompiler,
       WriteRecord, UseWinner, LoadParser, Fail, Die

(* What Publish puts under a key is complete. *)
LEMMA EntryStep ==
  ASSUME CacheInv, CacheTypeOK', NEW p \in Builder, Decode(p)
  PROVE  EntryInv'
<1>1. CASE cache' = cache
  BY <1>1 DEF CacheInv, EntryInv
<1>2. CASE Publish(p)
  BY <1>2 DEF CacheInv, CacheTypeOK, BuildInv, EntryInv, Publish, Staging, Keyed
<1> QED
  BY <1>1, <1>2, CacheChanges

(* The parser a process holds stays that of the entry under its key. *)
LEMMA ParserStep ==
  ASSUME CacheInv, CacheTypeOK', NEW p \in Builder, Decode(p)
  PROVE  ParserInv'
<1> USE BlankIsKey DEF CacheInv, CacheTypeOK, ParserInv, Goto
<1>1. ASSUME NEW r \in Requests, Request(p, r)
      PROVE  ParserInv'
  BY <1>1 DEF Request, NoParser
<1>2. CASE HashSchemas(p)
  BY <1>2 DEF HashSchemas
<1>3. CASE LookupHit(p)
  BY <1>3 DEF LookupHit
<1>4. CASE LookupMiss(p)
  BY <1>4 DEF LookupMiss
<1>5. CASE RunCompiler(p)
  BY <1>5 DEF RunCompiler
<1>6. CASE WriteRecord(p)
  BY <1>6 DEF WriteRecord
<1>7. CASE Publish(p)
  BY <1>7 DEF Publish
<1>8. CASE UseWinner(p)
  BY <1>8 DEF UseWinner
<1>9. CASE LoadParser(p)
  BY <1>9 DEF LoadParser, BuildInv, Keyed, Parser
<1>10. CASE Fail(p)
  BY <1>10 DEF Fail
<1>11. CASE Die(p)
  BY <1>11 DEF Die
<1> QED
  BY <1>1, <1>2, <1>3, <1>4, <1>5, <1>6, <1>7, <1>8, <1>9, <1>10, <1>11 DEF Decode

(* The invariant is inductive. *)
LEMMA CacheInvStep == CacheInv /\ [CacheNext]_cacheVars => CacheInv'
<1> SUFFICES ASSUME CacheInv, [CacheNext]_cacheVars
             PROVE  CacheInv'
  OBVIOUS
<1>1. CacheTypeOK'
  BY CacheTypeStep DEF CacheInv
<1>2. ASSUME NEW p \in Builder, Decode(p)
      PROVE  CacheInv'
  BY <1>1, <1>2, BuildStep, EntryStep, ParserStep DEF CacheInv
<1>3. ASSUME NEW v \in Versions, EditSchemas(v)
      PROVE  CacheInv'
  <2>1. BuildInv'
    BY <1>3 DEF EditSchemas, CacheInv, CacheTypeOK, BuildInv
  <2>2. EntryInv' /\ ParserInv'
    BY <1>3 DEF EditSchemas, CacheInv, EntryInv, ParserInv
  <2> QED
    BY <1>1, <2>1, <2>2 DEF CacheInv
<1>4. CASE UNCHANGED cacheVars
  BY <1>1, <1>4 DEF cacheVars, CacheInv, BuildInv, EntryInv, ParserInv
<1> QED
  BY <1>2, <1>3, <1>4 DEF CacheNext

(* So it is an invariant. *)
LEMMA CacheInvariant == CacheSpec => []CacheInv
<1> QED
  BY CacheInitInv, CacheInvStep, PTL DEF CacheSpec

-----------------------------------------------------------------------------
(* Every variable of the cache and its processes keeps its type. *)
THEOREM CacheTypeCorrect == CacheSpec => []CacheTypeOK
<1>1. CacheInv => CacheTypeOK
  BY DEF CacheInv
<1> QED
  BY <1>1, CacheInvariant, PTL

(* kaitai.py:111-137: whatever fails, dies or races, a directory under a key has
   the output of the compiler and its record. *)
THEOREM EntriesComplete == CacheSpec => []EntriesAreComplete
<1>1. CacheInv => EntriesAreComplete
  BY DEF CacheInv, EntryInv, EntriesAreComplete, Published
<1> QED
  BY <1>1, CacheInvariant, PTL

(* kaitai.py:98-109, 145-183: the parser that decodes was compiled for the
   request from the schemas that were hashed, unless they were edited while they
   were compiled. *)
THEOREM ParserMatches == CacheSpec => []ParserMatchesSchemas
<1>1. CacheInv => ParserMatchesSchemas
  <2> SUFFICES ASSUME CacheInv, NEW p \in Builder, parser[p].loaded, cache[key[p]].calm
               PROVE  parser[p].built = <<request[p], key[p][2]>>
    BY DEF ParserMatchesSchemas
  <2>1. key[p] \in Keys
    BY DEF CacheInv, CacheTypeOK
  <2>2. key[p] = <<key[p][1], key[p][2]>>
    BY <2>1, KeyParts
  <2> QED
    BY <2>1, <2>2 DEF CacheInv, EntryInv, ParserInv
<1> QED
  BY <1>1, CacheInvariant, PTL

(* kaitai.py:139-142: only a process that died leaves its staged directory. *)
THEOREM StagesRemoved == CacheSpec => []StagesAreRemoved
<1>1. CacheInv => StagesAreRemoved
  BY DEF CacheInv, BuildInv, StagesAreRemoved
<1> QED
  BY <1>1, CacheInvariant, PTL

(* kaitai.py:108-138: processes that decode under one key run one parser, whoever
   compiled it and whatever was edited meanwhile. *)
THEOREM DecodersShare == CacheSpec => []DecodersAgree
<1>1. CacheInv => DecodersAgree
  BY DEF CacheInv, ParserInv, DecodersAgree
<1> QED
  BY <1>1, CacheInvariant, PTL

-----------------------------------------------------------------------------
(* diff: its two recursive functions. *)

(* The rows of the two recursive tables. *)
DiffRow(b, diff) == [a \in Values |-> DiffNodes(b, a, diff)]
PatchRow(b, patched) == [D \in SUBSET Differences |-> PatchedNode(b, D, patched)]

(* A part of a JSON value is a smaller JSON value. *)
LEMMA Parts ==
  ASSUME NEW v \in Values
  PROVE  /\ Size[v] \in Nat
         /\ v.items \in Seq(Values) /\ Len(v.items) \in Nat
         /\ \A i \in 1..Len(v.items) : v.items[i] \in Values /\ Size[v.items[i]] < Size[v]
         /\ DOMAIN v.fields \subseteq Fields
         /\ \A k \in DOMAIN v.fields : v.fields[k] \in Values /\ Size[v.fields[k]] < Size[v]
<1>1. /\ Size[v] \in Nat
      /\ v.items \in Seq(Values)
      /\ DOMAIN v.fields \subseteq Fields
      /\ v.fields \in [DOMAIN v.fields -> Values]
      /\ \A i \in 1..Len(v.items) : Size[v.items[i]] < Size[v]
      /\ \A k \in DOMAIN v.fields : Size[v.fields[k]] < Size[v]
  BY JsonAssumption
<1>2. Len(v.items) \in Nat /\ \A i \in 1..Len(v.items) : v.items[i] \in Values
  BY <1>1
<1>3. \A k \in DOMAIN v.fields : v.fields[k] \in Values
  BY <1>1
<1> QED
  BY <1>1, <1>2, <1>3

(* What diff finds at a node depends on what it finds at its parts only. *)
LEMMA DiffLocal ==
  ASSUME NEW b \in Values, NEW g, NEW h,
         \A v \in Values : Size[v] < Size[b] => g[v] = h[v]
  PROVE  DiffRow(b, g) = DiffRow(b, h)
<1> SUFFICES ASSUME NEW a \in Values
             PROVE  DiffNodes(b, a, g) = DiffNodes(b, a, h)
  BY DEF DiffRow
<1>1. \A k : DiffField(b, a, k, g) = DiffField(b, a, k, h)
  BY Parts DEF DiffField
<1>2. DiffMappings(b, a, g) = DiffMappings(b, a, h)
  BY <1>1 DEF DiffMappings
<1>3. ASSUME NEW i \in 0..(Len(b.items) - 1) \cup 0..(Len(a.items) - 1)
      PROVE  DiffItem(b, a, i, g) = DiffItem(b, a, i, h)
  <2>1. Len(b.items) \in Nat /\ Len(a.items) \in Nat /\ i \in Nat
    BY Parts
  <2>2. CASE i < Len(b.items)
    <3>1. i + 1 \in 1..Len(b.items)
      BY <2>1, <2>2
    <3>2. b.items[i + 1] \in Values /\ Size[b.items[i + 1]] < Size[b]
      BY <3>1, Parts
    <3> QED
      BY <3>2 DEF DiffItem
  <2>3. CASE i = Len(b.items) \/ i > Len(b.items)
    BY <2>3 DEF DiffItem
  <2> QED
    BY <2>1, <2>2, <2>3
<1>4. DiffLists(b, a, g) = DiffLists(b, a, h)
  BY <1>3 DEF DiffLists
<1> QED
  BY <1>2, <1>4 DEF DiffNodes

(* The same of the reference. *)
LEMMA PatchLocal ==
  ASSUME NEW b \in Values, NEW g, NEW h,
         \A v \in Values : Size[v] < Size[b] => g[v] = h[v]
  PROVE  PatchRow(b, g) = PatchRow(b, h)
<1> SUFFICES ASSUME NEW D \in SUBSET Differences
             PROVE  PatchedNode(b, D, g) = PatchedNode(b, D, h)
  BY DEF PatchRow
<1>1. \A k \in DOMAIN b.fields : g[b.fields[k]] = h[b.fields[k]]
  BY Parts
<1>2. PatchedFields(b, D, g) = PatchedFields(b, D, h)
  BY <1>1 DEF PatchedFields
<1>3. \A i \in Int : 1 <= i /\ i <= Len(b.items) => g[b.items[i]] = h[b.items[i]]
  BY Parts
<1>4. PatchedItems(b, D, g) = PatchedItems(b, D, h)
  BY <1>3 DEF PatchedItems
<1> QED
  BY <1>2, <1>4 DEF PatchedNode

(* Both recursions at once: a row of either is given by the rows of smaller
   values. *)
Row(table, b, g) == IF table = "diff" THEN DiffRow(b, g) ELSE PatchRow(b, g)

(* So of either. *)
LEMMA RowLocal ==
  ASSUME NEW table, NEW b \in Values, NEW g, NEW h,
         \A v \in Values : Size[v] < Size[b] => g[v] = h[v]
  PROVE  Row(table, b, g) = Row(table, b, h)
BY DiffLocal, PatchLocal DEF Row

(* The values below a size, and the rows of a table for them. *)
Level(n) == {v \in Values : Size[v] < n}
Rows(table, n, g) == g = [b \in Level(n) |-> Row(table, b, g)]

(* Rows up to two sizes agree on the values they share. *)
LEMMA RowsAgree ==
  ASSUME NEW table, NEW n \in Nat, NEW m \in Nat, NEW g, NEW h, Rows(table, n, g), Rows(table, m, h)
  PROVE  \A v \in Level(n) \cap Level(m) : g[v] = h[v]
<1> DEFINE Apart == {v \in Level(n) \cap Level(m) : g[v] # h[v]}
           T == {Size[v] : v \in Apart}
<1> SUFFICES ASSUME Apart # {}
             PROVE  FALSE
  OBVIOUS
<1>1. T \in SUBSET Nat /\ T # {}
  BY Parts DEF Level
<1>2. PICK s \in T : \A t \in T : s <= t
  BY <1>1, LeastNumber
<1>3. PICK v \in Apart : s = Size[v]
  OBVIOUS
<1>4. v \in Values /\ Size[v] < n /\ Size[v] < m /\ Size[v] \in Nat
  BY Parts DEF Level
<1>5. ASSUME NEW w \in Values, Size[w] < Size[v]
      PROVE  g[w] = h[w]
  <2>1. w \in Level(n) \cap Level(m) /\ Size[w] \in Nat
    BY <1>4, <1>5, Parts DEF Level
  <2>2. w \in Apart => Size[v] <= Size[w]
    BY <1>2, <1>3
  <2> QED
    BY <1>4, <1>5, <2>1, <2>2
<1>6. Row(table, v, g) = Row(table, v, h)
  BY <1>4, <1>5, RowLocal
<1>7. g[v] = Row(table, v, g) /\ h[v] = Row(table, v, h)
  BY DEF Rows
<1> QED
  BY <1>6, <1>7

(* There are rows up to every size. *)
LEMMA RowsExist ==
  ASSUME NEW table
  PROVE  \A n \in Nat : \E g : Rows(table, n, g)
<1> DEFINE T == {n \in Nat : ~ \E g : Rows(table, n, g)}
<1> SUFFICES ASSUME T # {}
             PROVE  FALSE
  OBVIOUS
<1>1. PICK n \in T : \A m \in T : n <= m
  BY LeastNumber
<1>2. CASE n = 0
  <2>1. Level(n) = {}
    BY <1>2, Parts DEF Level
  <2>2. Rows(table, n, [b \in {} |-> 0])
    BY <2>1 DEF Rows
  <2> QED
    BY <2>2
<1>3. CASE n # 0
  <2>1. n - 1 \in Nat /\ n - 1 \notin T
    BY <1>1, <1>3
  <2>2. PICK g : Rows(table, n - 1, g)
    BY <2>1
  <2> DEFINE h == [b \in Level(n) |-> Row(table, b, g)]
  <2>3. ASSUME NEW b \in Level(n)
        PROVE  Row(table, b, g) = Row(table, b, h)
    <3>1. ASSUME NEW v \in Values, Size[v] < Size[b]
          PROVE  g[v] = h[v]
      <4>1. v \in Level(n - 1) /\ v \in Level(n)
        BY <2>1, <3>1, Parts DEF Level
      <4>2. g[v] = Row(table, v, g)
        BY <2>2, <4>1 DEF Rows
      <4> QED
        BY <4>1, <4>2
    <3> HIDE DEF h
    <3> QED
      BY <3>1, RowLocal DEF Level
  <2>4. Rows(table, n, h)
    BY <2>3 DEF Rows
  <2> HIDE DEF h
  <2> QED
    BY <2>4
<1> QED
  BY <1>2, <1>3

(* There is a table of all values. *)
LEMMA TableExists ==
  ASSUME NEW table
  PROVE  \E f : f = [b \in Values |-> Row(table, b, f)]
<1> DEFINE Table(n) == CHOOSE g : Rows(table, n, g)
           f == [b \in Values |-> Table(Size[b] + 1)[b]]
<1>1. \A n \in Nat : Rows(table, n, Table(n))
  BY RowsExist
<1> HIDE DEF Table
<1>2. ASSUME NEW b \in Values
      PROVE  f[b] = Row(table, b, f)
  <2>1. Size[b] \in Nat /\ Size[b] + 1 \in Nat /\ Rows(table, Size[b] + 1, Table(Size[b] + 1))
    BY <1>1, Parts
  <2>2. f[b] = Row(table, b, Table(Size[b] + 1))
    BY <2>1 DEF Rows, Level
  <2>3. ASSUME NEW v \in Values, Size[v] < Size[b]
        PROVE  Table(Size[b] + 1)[v] = f[v]
    <3>1. Size[v] \in Nat /\ Size[v] + 1 \in Nat /\ Rows(table, Size[v] + 1, Table(Size[v] + 1))
      BY <1>1, Parts
    <3>2. v \in Level(Size[b] + 1) \cap Level(Size[v] + 1)
      BY <2>1, <2>3, <3>1 DEF Level
    <3> QED
      BY <2>1, <3>1, <3>2, RowsAgree
  <2> HIDE DEF f
  <2> QED
    BY <2>2, <2>3, RowLocal
<1>3. f = [b \in Values |-> Row(table, b, f)]
  BY <1>2
<1> HIDE DEF f
<1> QED
  BY <1>3

(* _diff_json is what its recursion says, on every JSON value. *)
LEMMA DiffUnfolds == DiffJson = [b \in Values |-> DiffRow(b, DiffJson)]
<1>1. PICK f : f = [b \in Values |-> DiffRow(b, f)]
  BY TableExists DEF Row
<1>2. DiffJson = CHOOSE g : g = [b \in Values |-> DiffRow(b, g)]
  BY DEF DiffJson, DiffRow
<1> QED
  BY <1>1, <1>2

(* So is the reference. *)
LEMMA PatchUnfolds == Patched = [b \in Values |-> PatchRow(b, Patched)]
<1>1. PICK f : f = [b \in Values |-> Row("patch", b, f)]
  BY TableExists
<1>2. \A b, g : Row("patch", b, g) = PatchRow(b, g)
  BY DEF Row
<1>3. Patched = CHOOSE g : g = [b \in Values |-> PatchRow(b, g)]
  BY DEF Patched, PatchRow
<1> QED
  BY <1>1, <1>2, <1>3

-----------------------------------------------------------------------------
(* Differences. *)

Steps == Fields \cup Nat

(* A step before a path. *)
LEMMA PathFacts ==
  ASSUME NEW p \in Seq(Steps), NEW s \in Steps
  PROVE  /\ <<s>> \o p \in Seq(Steps) /\ <<s>> \o p # << >>
         /\ Head(<<s>> \o p) = s /\ Tail(<<s>> \o p) = p
<1>1. /\ <<s>> \in Seq(Steps) /\ Len(<<s>>) = 1 /\ Len(p) \in Nat
      /\ <<s>> \o p \in Seq(Steps) /\ Len(<<s>> \o p) = 1 + Len(p)
  OBVIOUS
<1>2. (<<s>> \o p)[1] = s /\ \A i \in 1..Len(p) : (<<s>> \o p)[i + 1] = p[i]
  BY <1>1
<1>3. Head(<<s>> \o p) = s /\ <<s>> \o p # << >>
  BY <1>1, <1>2
<1>4. Tail(<<s>> \o p) = p
  BY <1>1, <1>2
<1> QED
  BY <1>1, <1>3, <1>4

(* A difference is its three parts. *)
LEMMA DifferenceFacts ==
  ASSUME NEW d \in Differences
  PROVE  /\ d.path \in Seq(Steps) /\ d.before \in SUBSET Values /\ d.after \in SUBSET Values
         /\ \A p : [d EXCEPT !.path = p] = [path |-> p, before |-> d.before, after |-> d.after]
         /\ \A p, q : [[d EXCEPT !.path = p] EXCEPT !.path = q] = [d EXCEPT !.path = q]
         /\ [d EXCEPT !.path = d.path] = d
<1>1. /\ d.path \in Seq(Steps) /\ d.before \in SUBSET Values /\ d.after \in SUBSET Values
      /\ d = [path |-> d.path, before |-> d.before, after |-> d.after]
  BY DEF Differences, Steps
<1>2. ASSUME NEW p
      PROVE  [d EXCEPT !.path = p] = [path |-> p, before |-> d.before, after |-> d.after]
  BY <1>1
<1>3. ASSUME NEW p, NEW q
      PROVE  [[d EXCEPT !.path = p] EXCEPT !.path = q] = [d EXCEPT !.path = q]
  BY <1>2
<1> QED
  BY <1>1, <1>2, <1>3

(* The differences of a part, put under its step, are differences of the whole
   and are found again below that step and no other. *)
LEMMA UnderFacts ==
  ASSUME NEW s \in Steps, NEW D \in SUBSET Differences
  PROVE  /\ Under(s, D) \in SUBSET Differences
         /\ Whole(Under(s, D)) = {}
         /\ \A t : Below(t, Under(s, D)) = IF t = s THEN D ELSE {}
         /\ Raises(Under(s, D)) <=> Raises(D)
<1> DEFINE U(d) == [d EXCEPT !.path = <<s>> \o d.path]
<1>1. ASSUME NEW d \in D
      PROVE  /\ U(d) \in Differences /\ U(d).path # << >> /\ Head(U(d).path) = s
             /\ U(d).before = d.before /\ U(d).after = d.after
             /\ [U(d) EXCEPT !.path = Tail(U(d).path)] = d
  <2>0. d \in Differences
    OBVIOUS
  <2>1. d.path \in Seq(Steps) /\ U(d) = [path |-> <<s>> \o d.path, before |-> d.before, after |-> d.after]
    BY <2>0, DifferenceFacts
  <2>2. /\ U(d).path = <<s>> \o d.path /\ <<s>> \o d.path \in Seq(Steps)
        /\ U(d).path # << >> /\ Head(U(d).path) = s /\ Tail(U(d).path) = d.path
    BY <2>1, PathFacts
  <2>3. U(d) \in Differences
    BY <2>0, <2>1, <2>2, DifferenceFacts DEF Differences, Steps
  <2>4. [U(d) EXCEPT !.path = d.path] = d
    BY <2>0, DifferenceFacts
  <2> QED
    BY <2>1, <2>2, <2>3, <2>4
<1>2. Under(s, D) = {U(d) : d \in D}
  BY DEF Under
<1> HIDE DEF U
<1>3. Under(s, D) \in SUBSET Differences
  BY <1>1, <1>2
<1>4. Whole(Under(s, D)) = {}
  BY <1>1, <1>2 DEF Whole
<1>5. ASSUME NEW t
      PROVE  Below(t, Under(s, D)) = IF t = s THEN D ELSE {}
  BY <1>1, <1>2 DEF Below
<1>6. Raises(Under(s, D)) <=> Raises(D)
  BY <1>1, <1>2 DEF Raises
<1> QED
  BY <1>3, <1>4, <1>5, <1>6

(* The same of the differences of several parts together. *)
Joined(J, C, D) ==
  /\ J \in SUBSET Steps
  /\ \A j \in J : C[j] \in SUBSET Differences
  /\ \A d : d \in D <=> \E j \in J : d \in Under(j, C[j])

LEMMA UnionFacts ==
  ASSUME NEW J, NEW C, NEW D, Joined(J, C, D)
  PROVE  /\ D \in SUBSET Differences
         /\ Whole(D) = {}
         /\ \A t \in J : Below(t, D) = C[t]
         /\ \A t : t \notin J => Below(t, D) = {}
         /\ Raises(D) <=> \E j \in J : Raises(C[j])
<1>1. /\ J \in SUBSET Steps
      /\ \A j \in J : C[j] \in SUBSET Differences
      /\ \A d : d \in D <=> \E j \in J : d \in Under(j, C[j])
  BY DEF Joined
<1>2. \A j \in J : /\ Under(j, C[j]) \in SUBSET Differences
                   /\ Whole(Under(j, C[j])) = {}
                   /\ \A t : Below(t, Under(j, C[j])) = IF t = j THEN C[j] ELSE {}
                   /\ Raises(Under(j, C[j])) <=> Raises(C[j])
  BY <1>1, UnderFacts
<1>3. D \in SUBSET Differences
  BY <1>1, <1>2
<1>4. Whole(D) = {}
  BY <1>1, <1>2 DEF Whole
<1>5. \A t, x : x \in Below(t, D) <=> \E j \in J : x \in Below(t, Under(j, C[j]))
  BY <1>1 DEF Below
<1>6. ASSUME NEW t \in J
      PROVE  Below(t, D) = C[t]
  <2>1. \A x : x \in Below(t, D) <=> x \in C[t]
    BY <1>2, <1>5
  <2> QED
    BY <2>1
<1>7. \A t : t \notin J => Below(t, D) = {}
  BY <1>2, <1>5
<1>8. Raises(D) <=> \E j \in J : Raises(C[j])
  <2>1. Raises(D) <=> \E j \in J : Raises(Under(j, C[j]))
    BY <1>1 DEF Raises
  <2> QED
    BY <1>2, <2>1
<1> QED
  BY <1>3, <1>4, <1>6, <1>7, <1>8

(* One difference of the whole. *)
LEMMA OneDifference ==
  ASSUME NEW B \in SUBSET Values, NEW A \in SUBSET Values
  PROVE  /\ {Difference(B, A)} \in SUBSET Differences
         /\ Whole({Difference(B, A)}) = {Difference(B, A)}
         /\ Difference(B, A).before = B /\ Difference(B, A).after = A
         /\ Raises({Difference(B, A)}) <=> B = {} /\ A = {}
<1>1. << >> \in Seq(Fields \cup Nat)
  OBVIOUS
<1> QED
  BY <1>1 DEF Difference, Differences, Whole, Raises

(* What replaces the whole is the value after. *)
LEMMA Replaced ==
  ASSUME NEW B \in SUBSET Values, NEW a \in Values
  PROVE  Replacement({Difference(B, {a})}) = a
<1> DEFINE e == Difference(B, {a})
<1>0. {a} \in SUBSET Values
  OBVIOUS
<1>1. Whole({e}) = {e} /\ e.after = {a}
  BY <1>0, OneDifference
<1> HIDE DEF e
<1>2. (CHOOSE d \in Whole({e}) : TRUE) = e
  BY <1>1
<1>3. Replacement({e}) = CHOOSE v \in {a} : TRUE
  BY <1>1, <1>2 DEF Replacement
<1>4. (CHOOSE v \in {a} : TRUE) \in {a}
  OBVIOUS
<1>5. Replacement({e}) = a
  BY <1>3, <1>4
<1> QED
  BY <1>5 DEF e

-----------------------------------------------------------------------------
(* What diff finds, node by node. *)

(* The entry of the table for two values. *)
LEMMA DiffAt ==
  ASSUME NEW b \in Values, NEW a \in Values
  PROVE  DiffJson[b][a] = DiffNodes(b, a, DiffJson)
BY DiffUnfolds DEF DiffRow

(* The same of the reference. *)
LEMMA PatchAt ==
  ASSUME NEW b \in Values, NEW D \in SUBSET Differences
  PROVE  Patched[b][D] = PatchedNode(b, D, Patched)
BY PatchUnfolds DEF PatchRow

(* The keys and the indices that diff visits. *)
Visited(b, a) ==
  IF b.type = "dict" THEN DOMAIN b.fields \cup DOMAIN a.fields
  ELSE 0..(Len(b.items) - 1) \cup 0..(Len(a.items) - 1)
Found(b, a) ==
  [s \in Visited(b, a) |->
     IF b.type = "dict" THEN DiffField(b, a, s, DiffJson) ELSE DiffItem(b, a, s, DiffJson)]

(* Two containers of one type are compared part by part. *)
LEMMA DiffOfParts ==
  ASSUME NEW b \in Values, NEW a \in Values, b.type = a.type, b.type \in {"dict", "list"}
  PROVE  /\ Visited(b, a) \in SUBSET Steps
         /\ \A d : d \in DiffJson[b][a] <=>
                  \E s \in Visited(b, a) : d \in Under(s, Found(b, a)[s])
<1>1. Visited(b, a) \in SUBSET Steps
  BY Parts DEF Visited, Steps
<1>2. CASE b.type = "dict"
  <2>1. \A s \in Visited(b, a) : Found(b, a)[s] = DiffField(b, a, s, DiffJson)
    BY <1>2 DEF Found
  <2>2. DiffJson[b][a] = UNION {Under(s, DiffField(b, a, s, DiffJson)) : s \in Visited(b, a)}
    BY <1>2, DiffAt DEF DiffNodes, DiffMappings, Visited
  <2> QED
    BY <1>1, <2>1, <2>2
<1>3. CASE b.type = "list"
  <2>1. \A s \in Visited(b, a) : Found(b, a)[s] = DiffItem(b, a, s, DiffJson)
    BY <1>3 DEF Found
  <2>2. DiffJson[b][a] = UNION {Under(s, DiffItem(b, a, s, DiffJson)) : s \in Visited(b, a)}
    BY <1>3, DiffAt DEF DiffNodes, DiffLists, Visited
  <2> QED
    BY <1>1, <2>1, <2>2
<1> QED
  BY <1>2, <1>3

(* Anything else is compared as a whole. *)
LEMMA DiffOfWhole ==
  ASSUME NEW b \in Values, NEW a \in Values,
         b.type # a.type \/ b.type \notin {"dict", "list"}
  PROVE  DiffJson[b][a] = IF b # a THEN {Difference({b}, {a})} ELSE {}
BY DiffAt DEF DiffNodes

(* The part at a key or an index: present in one value only, in both, or beyond
   the end of one of two lists. *)
LEMMA FoundAt ==
  ASSUME NEW b \in Values, NEW a \in Values, b.type = a.type, b.type \in {"dict", "list"},
         NEW s \in Visited(b, a)
  PROVE  \/ \E v \in Values : Found(b, a)[s] = {Difference({}, {v})}
         \/ \E v \in Values : Found(b, a)[s] = {Difference({v}, {})}
         \/ Found(b, a)[s] = {IndexError}
         \/ \E v, w \in Values : Size[v] < Size[b] /\ Found(b, a)[s] = DiffJson[v][w]
<1>1. CASE b.type = "dict"
  <2>1. s \in DOMAIN b.fields \cup DOMAIN a.fields /\ Found(b, a)[s] = DiffField(b, a, s, DiffJson)
    BY <1>1 DEF Visited, Found
  <2> QED
    BY <2>1, Parts DEF DiffField
<1>2. CASE b.type = "list"
  <2>1. /\ s \in 0..(Len(b.items) - 1) \cup 0..(Len(a.items) - 1)
        /\ Found(b, a)[s] = DiffItem(b, a, s, DiffJson)
    BY <1>2 DEF Visited, Found
  <2>2. /\ Len(b.items) \in Nat /\ Len(a.items) \in Nat /\ s \in Nat
        /\ s < Len(b.items) \/ s < Len(a.items)
    <3>1. Len(b.items) \in Nat /\ Len(a.items) \in Nat
      BY Parts
    <3> QED
      BY <2>1, <3>1
  <2>3. s < Len(b.items) => b.items[s + 1] \in Values /\ Size[b.items[s + 1]] < Size[b]
    <3>1. s < Len(b.items) => s + 1 \in 1..Len(b.items)
      BY <2>2
    <3> QED
      BY <3>1, Parts
  <2>4. s < Len(a.items) => a.items[s + 1] \in Values
    <3>1. s < Len(a.items) => s + 1 \in 1..Len(a.items)
      BY <2>2
    <3> QED
      BY <3>1, Parts
  <2>5. CASE s = Len(b.items)
    <3>1. a.items[s + 1] \in Values
      BY <2>2, <2>4, <2>5
    <3>2. Found(b, a)[s] = {Difference({}, {a.items[s + 1]})}
      BY <2>1, <2>5 DEF DiffItem
    <3> QED
      BY <3>1, <3>2
  <2>6. CASE s # Len(b.items) /\ s = Len(a.items)
    <3>1. b.items[s + 1] \in Values
      BY <2>2, <2>3, <2>6
    <3>2. Found(b, a)[s] = {Difference({b.items[s + 1]}, {})}
      BY <2>1, <2>6 DEF DiffItem
    <3> QED
      BY <3>1, <3>2
  <2>7. CASE s # Len(b.items) /\ s # Len(a.items) /\ (s > Len(b.items) \/ s > Len(a.items))
    BY <2>1, <2>7 DEF DiffItem
  <2>8. CASE s < Len(b.items) /\ s < Len(a.items)
    BY <2>1, <2>2, <2>3, <2>4, <2>8 DEF DiffItem
  <2>9. \/ s = Len(b.items)
        \/ s # Len(b.items) /\ s = Len(a.items)
        \/ s # Len(b.items) /\ s # Len(a.items) /\ (s > Len(b.items) \/ s > Len(a.items))
        \/ s < Len(b.items) /\ s < Len(a.items)
    BY <2>2
  <2> QED
    BY <2>5, <2>6, <2>7, <2>8, <2>9
<1> QED
  BY <1>1, <1>2

(* What diff finds at a part are differences if it is so of smaller values. *)
LEMMA FoundTyped ==
  ASSUME NEW b \in Values, NEW a \in Values, b.type = a.type, b.type \in {"dict", "list"},
         \A v, w \in Values : Size[v] < Size[b] => DiffJson[v][w] \in SUBSET Differences,
         NEW s \in Visited(b, a)
  PROVE  Found(b, a)[s] \in SUBSET Differences
<1>1. \A v \in Values : {v} \in SUBSET Values
  OBVIOUS
<1>2. \A v \in Values : /\ {Difference({}, {v})} \in SUBSET Differences
                        /\ {Difference({v}, {})} \in SUBSET Differences
  BY <1>1, OneDifference
<1>3. {IndexError} \in SUBSET Differences
  BY OneDifference DEF IndexError
<1>4. \/ \E v \in Values : Found(b, a)[s] = {Difference({}, {v})}
      \/ \E v \in Values : Found(b, a)[s] = {Difference({v}, {})}
      \/ Found(b, a)[s] = {IndexError}
      \/ \E v, w \in Values : Size[v] < Size[b] /\ Found(b, a)[s] = DiffJson[v][w]
  BY FoundAt
<1> QED
  BY <1>2, <1>3, <1>4

(* diff finds differences. *)
LEMMA DiffTyped == \A b, a \in Values : DiffJson[b][a] \in SUBSET Differences
<1> DEFINE Bad == {b \in Values : \E a \in Values : DiffJson[b][a] \notin SUBSET Differences}
           T == {Size[b] : b \in Bad}
<1> SUFFICES ASSUME Bad # {}
             PROVE  FALSE
  OBVIOUS
<1>1. T \in SUBSET Nat /\ T # {}
  BY Parts
<1>2. PICK n \in T : \A m \in T : n <= m
  BY <1>1, LeastNumber
<1>3. PICK b \in Bad : n = Size[b]
  OBVIOUS
<1>4. PICK a \in Values : DiffJson[b][a] \notin SUBSET Differences
  OBVIOUS
<1>5. b \in Values /\ Size[b] \in Nat
  BY Parts
<1>6. ASSUME NEW v \in Values, NEW w \in Values, Size[v] < Size[b]
      PROVE  DiffJson[v][w] \in SUBSET Differences
  <2>1. Size[v] \in Nat /\ (v \in Bad => Size[b] <= Size[v])
    BY <1>2, <1>3, Parts
  <2> QED
    BY <1>5, <1>6, <2>1
<1> HIDE DEF Bad, T
<1>7. CASE b.type = a.type /\ b.type \in {"dict", "list"}
  <2>1. ASSUME NEW s \in Visited(b, a)
        PROVE  Found(b, a)[s] \in SUBSET Differences
    BY <1>5, <1>6, <1>7, FoundTyped
  <2>2. /\ Visited(b, a) \in SUBSET Steps
        /\ \A d : d \in DiffJson[b][a] <=>
                 \E s \in Visited(b, a) : d \in Under(s, Found(b, a)[s])
    BY <1>5, <1>7, DiffOfParts
  <2>3. Joined(Visited(b, a), Found(b, a), DiffJson[b][a])
    BY <2>1, <2>2 DEF Joined
  <2>4. DiffJson[b][a] \in SUBSET Differences
    BY <2>3, UnionFacts
  <2> QED
    BY <1>4, <2>4
<1>8. CASE b.type # a.type \/ b.type \notin {"dict", "list"}
  <2>1. {b} \in SUBSET Values /\ {a} \in SUBSET Values
    BY <1>5
  <2>2. {Difference({b}, {a})} \in SUBSET Differences
    BY <2>1, OneDifference
  <2> QED
    BY <1>4, <1>5, <1>8, <2>2, DiffOfWhole
<1> QED
  BY <1>7, <1>8

(* What diff finds at a part is found again below its key or index. *)
LEMMA PartsFound ==
  ASSUME NEW b \in Values, NEW a \in Values, b.type = a.type, b.type \in {"dict", "list"}
  PROVE  /\ Whole(DiffJson[b][a]) = {}
         /\ \A s \in Visited(b, a) : Below(s, DiffJson[b][a]) = Found(b, a)[s]
         /\ \A s : s \notin Visited(b, a) => Below(s, DiffJson[b][a]) = {}
         /\ Raises(DiffJson[b][a]) <=> \E s \in Visited(b, a) : Raises(Found(b, a)[s])
         /\ \A d \in DiffJson[b][a] : \E s \in Visited(b, a) : \E e \in Found(b, a)[s] :
              d.before = e.before /\ d.after = e.after
<1> DEFINE J == Visited(b, a)
           C == Found(b, a)
<1>1. /\ J \in SUBSET Steps
      /\ \A d : d \in DiffJson[b][a] <=> \E s \in J : d \in Under(s, C[s])
  BY DiffOfParts
<1>2. \A s \in J : C[s] \in SUBSET Differences
  BY DiffTyped, FoundTyped
<1> HIDE DEF J, C
<1>3. /\ Whole(DiffJson[b][a]) = {}
      /\ \A t \in J : Below(t, DiffJson[b][a]) = C[t]
      /\ \A t : t \notin J => Below(t, DiffJson[b][a]) = {}
      /\ Raises(DiffJson[b][a]) <=> \E j \in J : Raises(C[j])
  <2>1. Joined(J, C, DiffJson[b][a])
    BY <1>1, <1>2 DEF Joined
  <2> QED
    BY <2>1, UnionFacts
<1>4. ASSUME NEW d \in DiffJson[b][a]
      PROVE  \E s \in J : \E e \in C[s] : d.before = e.before /\ d.after = e.after
  <2>1. PICK s \in J : d \in Under(s, C[s])
    BY <1>1
  <2>2. PICK e \in C[s] : d = [e EXCEPT !.path = <<s>> \o e.path]
    BY <2>1 DEF Under
  <2>3. e \in Differences
    BY <1>2, <2>2
  <2>4. d = [path |-> <<s>> \o e.path, before |-> e.before, after |-> e.after]
    BY <2>2, <2>3, DifferenceFacts
  <2> QED
    BY <2>4
<1> QED
  BY <1>1, <1>3, <1>4 DEF J, C

(* A difference of the whole has a value before and after. *)
LEMMA WholeDiff ==
  ASSUME NEW b \in Values, NEW a \in Values, NEW d \in Whole(DiffJson[b][a])
  PROVE  d.before # {} /\ d.after # {}
<1>1. CASE b.type = a.type /\ b.type \in {"dict", "list"}
  BY <1>1, PartsFound
<1>2. CASE b.type # a.type \/ b.type \notin {"dict", "list"}
  <2>1. DiffJson[b][a] = IF b # a THEN {Difference({b}, {a})} ELSE {}
    BY <1>2, DiffOfWhole
  <2>2. d = Difference({b}, {a})
    BY <2>1 DEF Whole
  <2> QED
    BY <2>2 DEF Difference
<1> QED
  BY <1>1, <1>2

-----------------------------------------------------------------------------
(* What diff found, applied to the first value, gives the second. *)

Replays(b, a) ==
  ~Raises(DiffJson[b][a]) => /\ Patched[b][DiffJson[b][a]] = a
                             /\ \A d \in DiffJson[b][a] : d.before # d.after

(* A part that only the second value has, only the first, or both. *)
OnlyAfter(b, a, s, v) == s \in Visited(b, a) /\ Found(b, a)[s] = {Difference({}, {v})}
OnlyBefore(b, a, s, v) == s \in Visited(b, a) /\ Found(b, a)[s] = {Difference({v}, {})}
InBoth(b, a, s, v, w) == s \in Visited(b, a) /\ Found(b, a)[s] = DiffJson[v][w]

(* A part that only the second value has is new, with its value. *)
LEMMA PartAdded ==
  ASSUME NEW b \in Values, NEW a \in Values, b.type = a.type, b.type \in {"dict", "list"},
         NEW s, NEW v \in Values, OnlyAfter(b, a, s, v)
  PROVE  New(s, DiffJson[b][a]) /\ Replacement(Below(s, DiffJson[b][a])) = v
<1>1. Below(s, DiffJson[b][a]) = {Difference({}, {v})}
  BY PartsFound DEF OnlyAfter
<1>2. {v} \in SUBSET Values /\ {} \in SUBSET Values
  OBVIOUS
<1>3. Whole({Difference({}, {v})}) = {Difference({}, {v})} /\ Difference({}, {v}).before = {}
  BY <1>2, OneDifference
<1>4. New(s, DiffJson[b][a])
  BY <1>1, <1>3 DEF New
<1>5. Replacement({Difference({}, {v})}) = v
  BY <1>2, Replaced
<1> QED
  BY <1>1, <1>4, <1>5

(* A part that only the first value has is gone. *)
LEMMA PartRemoved ==
  ASSUME NEW b \in Values, NEW a \in Values, b.type = a.type, b.type \in {"dict", "list"},
         NEW s, NEW v \in Values, OnlyBefore(b, a, s, v)
  PROVE  Gone(s, DiffJson[b][a]) /\ ~New(s, DiffJson[b][a])
<1>1. Below(s, DiffJson[b][a]) = {Difference({v}, {})}
  BY PartsFound DEF OnlyBefore
<1>2. {v} \in SUBSET Values /\ {} \in SUBSET Values
  OBVIOUS
<1>3. /\ Whole({Difference({v}, {})}) = {Difference({v}, {})}
      /\ Difference({v}, {}).before = {v} /\ Difference({v}, {}).after = {}
  BY <1>2, OneDifference
<1> QED
  BY <1>1, <1>3 DEF New, Gone

(* A part that both values have is neither, and becomes the second value's. *)
LEMMA PartKept ==
  ASSUME NEW b \in Values, NEW a \in Values, b.type = a.type, b.type \in {"dict", "list"},
         ~Raises(DiffJson[b][a]), NEW s, NEW v \in Values, NEW w \in Values,
         InBoth(b, a, s, v, w), Replays(v, w)
  PROVE  /\ ~New(s, DiffJson[b][a]) /\ ~Gone(s, DiffJson[b][a])
         /\ Patched[v][Below(s, DiffJson[b][a])] = w
<1>1. Below(s, DiffJson[b][a]) = DiffJson[v][w] /\ ~Raises(DiffJson[v][w])
  BY PartsFound DEF InBoth
<1>2. \A d \in Whole(DiffJson[v][w]) : d.before # {} /\ d.after # {}
  BY WholeDiff
<1>3. Patched[v][DiffJson[v][w]] = w
  BY <1>1 DEF Replays
<1>4. ~New(s, DiffJson[b][a]) /\ ~Gone(s, DiffJson[b][a])
  BY <1>1, <1>2 DEF New, Gone
<1> QED
  BY <1>1, <1>3, <1>4

(* A key or an index that neither value has is not mentioned. *)
LEMMA PartAbsent ==
  ASSUME NEW b \in Values, NEW a \in Values, b.type = a.type, b.type \in {"dict", "list"},
         NEW s, s \notin Visited(b, a)
  PROVE  ~New(s, DiffJson[b][a]) /\ ~Gone(s, DiffJson[b][a])
<1>1. Below(s, DiffJson[b][a]) = {}
  BY PartsFound
<1>2. Whole({}) = {}
  BY DEF Whole
<1> QED
  BY <1>1, <1>2 DEF New, Gone

(* A node with other items or fields. *)
LEMMA NodeUpdate ==
  ASSUME NEW t, NEW x, NEW q, NEW f, NEW n, n = Node(t, x, q, f)
  PROVE  /\ \A r : [n EXCEPT !.items = r] = Node(t, x, r, f)
         /\ \A r : [n EXCEPT !.fields = r] = Node(t, x, q, r)
BY DEF Node

(* Two containers of one type that have the same parts are the same. *)
LEMMA SameNode ==
  ASSUME NEW b \in Values, NEW a \in Values, b.type = a.type, b.type \in {"dict", "list"}
  PROVE  /\ b.type = "dict" => [b EXCEPT !.fields = a.fields] = a
         /\ b.type = "list" => [b EXCEPT !.items = a.items] = a
<1> DEFINE Shape(v, t) ==
             /\ v = Node(v.type, v.text, v.items, v.fields)
             /\ v.type = t
             /\ v.text = ""
             /\ v.type = "list" \/ v.items = << >>
             /\ v.type = "dict" \/ v.fields = NoFields
<1>1. Shape(b, b.type)
  BY JsonAssumption, Zenon
<1>2. Shape(a, b.type)
  BY JsonAssumption, Zenon
<1>3. /\ [b EXCEPT !.items = a.items] = Node(b.type, b.text, a.items, b.fields)
      /\ [b EXCEPT !.fields = a.fields] = Node(b.type, b.text, b.items, a.fields)
  <2>1. b = Node(b.type, b.text, b.items, b.fields)
    BY <1>1
  <2> QED
    BY <2>1, NodeUpdate
<1>4. CASE b.type = "dict"
  <2>1. b.type # "list"
    BY <1>4
  <2> QED
    BY <1>1, <1>2, <1>3, <2>1, Zenon
<1>5. CASE b.type = "list"
  <2>1. b.type # "dict"
    BY <1>5
  <2> QED
    BY <1>1, <1>2, <1>3, <2>1, Zenon
<1> QED
  BY <1>4, <1>5

(* Objects. *)
LEMMA FieldsReplay ==
  ASSUME NEW b \in Values, NEW a \in Values, b.type = a.type, b.type = "dict",
         ~Raises(DiffJson[b][a]),
         \A v, w \in Values : Size[v] < Size[b] => Replays(v, w)
  PROVE  PatchedFields(b, DiffJson[b][a], Patched) = a.fields
<1> DEFINE D == DiffJson[b][a]
<1>0. b.type \in {"dict", "list"}
  OBVIOUS
<1>1. /\ DOMAIN b.fields \subseteq Fields /\ DOMAIN a.fields \subseteq Fields
      /\ Visited(b, a) = DOMAIN b.fields \cup DOMAIN a.fields
      /\ \A k \in Visited(b, a) : Found(b, a)[k] = DiffField(b, a, k, DiffJson)
  BY Parts DEF Visited, Found
<1>2. ASSUME NEW k \in DOMAIN a.fields, k \notin DOMAIN b.fields
      PROVE  New(k, D) /\ Replacement(Below(k, D)) = a.fields[k]
  <2>1. a.fields[k] \in Values /\ k \in Visited(b, a)
    BY <1>1, Parts
  <2>2. OnlyAfter(b, a, k, a.fields[k])
    BY <1>1, <1>2, <2>1 DEF DiffField, OnlyAfter
  <2> QED
    BY <2>1, <2>2, <1>0, PartAdded
<1>3. ASSUME NEW k \in DOMAIN b.fields, k \notin DOMAIN a.fields
      PROVE  Gone(k, D) /\ ~New(k, D)
  <2>1. b.fields[k] \in Values /\ k \in Visited(b, a)
    BY <1>1, Parts
  <2>2. OnlyBefore(b, a, k, b.fields[k])
    BY <1>1, <1>3, <2>1 DEF DiffField, OnlyBefore
  <2> QED
    BY <2>1, <2>2, <1>0, PartRemoved
<1>4. ASSUME NEW k \in DOMAIN b.fields, k \in DOMAIN a.fields
      PROVE  ~New(k, D) /\ ~Gone(k, D) /\ Patched[b.fields[k]][Below(k, D)] = a.fields[k]
  <2>1. /\ b.fields[k] \in Values /\ Size[b.fields[k]] < Size[b] /\ a.fields[k] \in Values
        /\ k \in Visited(b, a)
    BY <1>1, <1>4, Parts
  <2>2. InBoth(b, a, k, b.fields[k], a.fields[k])
    BY <1>1, <1>4, <2>1 DEF DiffField, InBoth
  <2>3. Replays(b.fields[k], a.fields[k])
    BY <2>1
  <2> DEFINE v == b.fields[k]
             w == a.fields[k]
  <2>4. v \in Values /\ w \in Values /\ InBoth(b, a, k, v, w) /\ Replays(v, w)
    BY <2>1, <2>2, <2>3
  <2> HIDE DEF v, w
  <2>5. ~New(k, D) /\ ~Gone(k, D) /\ Patched[v][Below(k, D)] = w
    BY <2>4, <1>0, PartKept
  <2> QED
    BY <2>5 DEF v, w
<1>5. ASSUME NEW k, k \notin DOMAIN b.fields, k \notin DOMAIN a.fields
      PROVE  ~New(k, D)
  BY <1>1, <1>5, <1>0, PartAbsent
<1>6. a.fields \in [DOMAIN a.fields -> Values]
  BY JsonAssumption
<1> HIDE DEF D
<1>7. {j \in DOMAIN b.fields : ~Gone(j, D)} \cup {j \in Fields : New(j, D)} = DOMAIN a.fields
  BY <1>1, <1>2, <1>3, <1>4, <1>5
<1>8. PatchedFields(b, D, Patched) =
        [k \in DOMAIN a.fields |-> IF k \in DOMAIN b.fields THEN Patched[b.fields[k]][Below(k, D)]
                                   ELSE Replacement(Below(k, D))]
  BY <1>7 DEF PatchedFields
<1>9. PatchedFields(b, D, Patched) = [k \in DOMAIN a.fields |-> a.fields[k]]
  BY <1>2, <1>4, <1>8
<1>10. PatchedFields(b, D, Patched) = a.fields
  BY <1>6, <1>9
<1> QED
  BY <1>10 DEF D

(* Lists: if diff does not raise, the lengths differ by one at most. *)
LEMMA LengthsReplay ==
  ASSUME NEW b \in Values, NEW a \in Values, b.type = a.type, b.type = "list",
         ~Raises(DiffJson[b][a])
  PROVE  Len(b.items) <= Len(a.items) + 1 /\ Len(a.items) <= Len(b.items) + 1
<1> DEFINE m == Len(b.items)
           n == Len(a.items)
<1>0. b.type \in {"dict", "list"}
  OBVIOUS
<1>1. /\ m \in Nat /\ n \in Nat
      /\ Visited(b, a) = 0..(m - 1) \cup 0..(n - 1)
      /\ \A s \in Visited(b, a) : Found(b, a)[s] = DiffItem(b, a, s, DiffJson)
  BY Parts DEF Visited, Found
<1>2. Raises({IndexError})
  BY DEF Raises, IndexError, Difference
<1>3. \A s \in Visited(b, a) : Found(b, a)[s] # {IndexError}
  <2>1. \A s \in Visited(b, a) : ~Raises(Found(b, a)[s])
    BY <1>0, PartsFound
  <2> QED
    BY <1>2, <2>1
<1>4. CASE n > m + 1
  <2>1. m + 1 \in Visited(b, a) /\ m + 1 # m /\ m + 1 # n /\ m + 1 > m
    BY <1>1, <1>4
  <2>2. Found(b, a)[m + 1] = {IndexError}
    BY <1>1, <2>1 DEF DiffItem
  <2> QED
    BY <1>3, <2>1, <2>2
<1>5. CASE m > n + 1
  <2>1. n + 1 \in Visited(b, a) /\ n + 1 # m /\ n + 1 # n /\ n + 1 > n
    BY <1>1, <1>5
  <2>2. Found(b, a)[n + 1] = {IndexError}
    BY <1>1, <2>1 DEF DiffItem
  <2> QED
    BY <1>3, <2>1, <2>2
<1> QED
  BY <1>1, <1>4, <1>5

(* The items that both lists have, and the one at the end of the longer. *)
LEMMA ItemsReplay ==
  ASSUME NEW b \in Values, NEW a \in Values, b.type = a.type, b.type = "list",
         ~Raises(DiffJson[b][a]),
         \A v, w \in Values : Size[v] < Size[b] => Replays(v, w)
  PROVE  PatchedItems(b, DiffJson[b][a], Patched) = a.items
<1> DEFINE D == DiffJson[b][a]
           m == Len(b.items)
           n == Len(a.items)
<1>0. b.type \in {"dict", "list"}
  OBVIOUS
<1>1. /\ m \in Nat /\ n \in Nat /\ m <= n + 1 /\ n <= m + 1
      /\ Visited(b, a) = 0..(m - 1) \cup 0..(n - 1)
      /\ \A s \in Visited(b, a) : Found(b, a)[s] = DiffItem(b, a, s, DiffJson)
  BY Parts, LengthsReplay DEF Visited, Found
<1>2. ASSUME NEW s \in Nat, s < m, s < n
      PROVE  ~New(s, D) /\ ~Gone(s, D) /\ Patched[b.items[s + 1]][Below(s, D)] = a.items[s + 1]
  <2>1. s \in Visited(b, a) /\ s + 1 \in 1..m /\ s + 1 \in 1..n
    BY <1>1, <1>2
  <2>2. /\ b.items[s + 1] \in Values /\ Size[b.items[s + 1]] < Size[b]
        /\ a.items[s + 1] \in Values
    BY <2>1, Parts
  <2>3. InBoth(b, a, s, b.items[s + 1], a.items[s + 1])
    <3>1. s # m /\ s # n /\ ~(s > m) /\ ~(s > n)
      BY <1>1, <1>2
    <3>2. Found(b, a)[s] = DiffItem(b, a, s, DiffJson)
      BY <1>1, <2>1
    <3> QED
      BY <2>1, <3>1, <3>2 DEF DiffItem, InBoth
  <2>4. Replays(b.items[s + 1], a.items[s + 1])
    BY <2>2
  <2> DEFINE v == b.items[s + 1]
             w == a.items[s + 1]
  <2>5. v \in Values /\ w \in Values /\ InBoth(b, a, s, v, w) /\ Replays(v, w)
    BY <2>2, <2>3, <2>4
  <2> HIDE DEF v, w
  <2>6. ~New(s, D) /\ ~Gone(s, D) /\ Patched[v][Below(s, D)] = w
    BY <2>5, <1>0, PartKept
  <2> QED
    BY <2>6 DEF v, w
<1>3. ASSUME n = m + 1
      PROVE  PatchedLength(b, D) = n /\ Replacement(Below(m, D)) = a.items[m + 1]
  <2>1. m \in Visited(b, a) /\ m + 1 \in 1..n
    BY <1>1, <1>3
  <2>2. a.items[m + 1] \in Values
    BY <2>1, Parts
  <2>3. OnlyAfter(b, a, m, a.items[m + 1])
    BY <1>1, <2>1 DEF DiffItem, OnlyAfter
  <2>4. New(m, D) /\ Replacement(Below(m, D)) = a.items[m + 1]
    BY <2>1, <2>2, <2>3, <1>0, PartAdded
  <2>5. PatchedLength(b, D) = n
    BY <1>3, <2>4 DEF PatchedLength
  <2> QED
    BY <2>4, <2>5
<1>4. ASSUME m = n + 1
      PROVE  PatchedLength(b, D) = n
  <2>1. n \in Visited(b, a) /\ n + 1 \in 1..m /\ m \notin Visited(b, a) /\ n = m - 1 /\ n # m
    BY <1>1, <1>4
  <2>2. b.items[n + 1] \in Values
    BY <2>1, Parts
  <2>3. OnlyBefore(b, a, n, b.items[n + 1])
    BY <1>1, <2>1 DEF DiffItem, OnlyBefore
  <2>4. Gone(n, D)
    BY <2>1, <2>2, <2>3, <1>0, PartRemoved
  <2>5. ~New(m, D)
    BY <2>1, <1>0, PartAbsent
  <2>6. b.items # << >>
    BY <2>1
  <2>7. PatchedLength(b, D) = n
    BY <1>1, <1>4, <2>1, <2>4, <2>5, <2>6 DEF PatchedLength
  <2> QED
    BY <2>7
<1>5. ASSUME n = m
      PROVE  PatchedLength(b, D) = n
  <2>1. m \notin Visited(b, a)
    BY <1>1, <1>5
  <2>2. ~New(m, D)
    BY <2>1, <1>0, PartAbsent
  <2>3. b.items # << >> => m - 1 \in Nat /\ m - 1 < m /\ m - 1 < n
    BY <1>1, <1>5, Parts
  <2>4. b.items # << >> => ~Gone(m - 1, D)
    BY <1>2, <2>3
  <2>5. PatchedLength(b, D) = n
    BY <1>5, <2>2, <2>4 DEF PatchedLength
  <2> QED
    BY <2>5
<1>6. PatchedLength(b, D) = n /\ (n > m => n = m + 1 /\ Replacement(Below(m, D)) = a.items[m + 1])
  BY <1>1, <1>3, <1>4, <1>5
<1>7. a.items = [i \in 1..n |-> a.items[i]]
  <2>1. \A q \in Seq(Values) : q = [i \in 1..Len(q) |-> q[i]]
    OBVIOUS
  <2>2. a.items \in Seq(Values)
    BY Parts
  <2> QED
    BY <2>1, <2>2
<1>8. ASSUME NEW i \in 1..n
      PROVE  (IF i <= m THEN Patched[b.items[i]][Below(i - 1, D)] ELSE Replacement(Below(i - 1, D)))
               = a.items[i]
  <2>1. CASE i <= m
    <3>1. i - 1 \in Nat /\ i - 1 < m /\ i - 1 < n /\ (i - 1) + 1 = i
      BY <1>1, <2>1
    <3> QED
      BY <1>2, <2>1, <3>1
  <2>2. CASE i > m
    <3>1. i = m + 1 /\ i - 1 = m /\ n > m /\ ~(i <= m)
      BY <1>1, <2>2
    <3> QED
      BY <1>6, <3>1
  <2> QED
    BY <1>1, <2>1, <2>2
<1> QED
  BY <1>6, <1>7, <1>8 DEF PatchedItems

(* Two containers of one type. *)
LEMMA ContainersReplay ==
  ASSUME NEW b \in Values, NEW a \in Values, b.type = a.type, b.type \in {"dict", "list"},
         \A v, w \in Values : Size[v] < Size[b] => Replays(v, w)
  PROVE  Replays(b, a)
<1> SUFFICES ASSUME ~Raises(DiffJson[b][a])
             PROVE  /\ Patched[b][DiffJson[b][a]] = a
                    /\ \A d \in DiffJson[b][a] : d.before # d.after
  BY DEF Replays
<1>1. Whole(DiffJson[b][a]) = {}
  BY PartsFound
<1>2. DiffJson[b][a] \in SUBSET Differences
  BY DiffTyped
<1>3. Patched[b][DiffJson[b][a]] = PatchedNode(b, DiffJson[b][a], Patched)
  BY <1>2, PatchAt
<1>4. ASSUME b.type = "dict"
      PROVE  Patched[b][DiffJson[b][a]] = a
  <2>1. PatchedFields(b, DiffJson[b][a], Patched) = a.fields
    BY <1>4, FieldsReplay
  <2>2. PatchedNode(b, DiffJson[b][a], Patched) = [b EXCEPT !.fields = a.fields]
    BY <1>1, <1>4, <2>1 DEF PatchedNode
  <2>3. [b EXCEPT !.fields = a.fields] = a
    BY <1>4, SameNode
  <2> QED
    BY <1>3, <2>2, <2>3
<1>5. ASSUME b.type = "list"
      PROVE  Patched[b][DiffJson[b][a]] = a
  <2>1. PatchedItems(b, DiffJson[b][a], Patched) = a.items
    BY <1>5, ItemsReplay
  <2>2. PatchedNode(b, DiffJson[b][a], Patched) = [b EXCEPT !.items = a.items]
    BY <1>1, <1>5, <2>1 DEF PatchedNode
  <2>3. [b EXCEPT !.items = a.items] = a
    BY <1>5, SameNode
  <2> QED
    BY <1>3, <2>2, <2>3
<1>6. ASSUME NEW d \in DiffJson[b][a]
      PROVE  d.before # d.after
  <2>1. PICK s \in Visited(b, a) : \E e \in Found(b, a)[s] :
          d.before = e.before /\ d.after = e.after
    BY PartsFound
  <2>2. PICK e \in Found(b, a)[s] : d.before = e.before /\ d.after = e.after
    BY <2>1
  <2>3. ~Raises(Found(b, a)[s])
    BY PartsFound
  <2>4. ASSUME NEW v \in Values, NEW w \in Values, Size[v] < Size[b],
               Found(b, a)[s] = DiffJson[v][w]
        PROVE  e.before # e.after
    <3>1. Replays(v, w)
      BY <2>4
    <3> QED
      BY <2>3, <2>4, <3>1 DEF Replays
  <2>5. ASSUME NEW v \in Values,
               Found(b, a)[s] = {Difference({}, {v})} \/ Found(b, a)[s] = {Difference({v}, {})}
        PROVE  e.before # e.after
    <3>1. e = Difference({}, {v}) \/ e = Difference({v}, {})
      BY <2>5
    <3>2. {v} # {}
      OBVIOUS
    <3>3. \/ e.before = {} /\ e.after = {v}
          \/ e.before = {v} /\ e.after = {}
      BY <3>1 DEF Difference
    <3> QED
      BY <3>2, <3>3
  <2>6. Found(b, a)[s] # {IndexError}
    BY <2>3 DEF Raises, IndexError, Difference
  <2>7. e.before # e.after
    <3>1. \/ \E v \in Values : Found(b, a)[s] = {Difference({}, {v})}
          \/ \E v \in Values : Found(b, a)[s] = {Difference({v}, {})}
          \/ Found(b, a)[s] = {IndexError}
          \/ \E v, w \in Values : Size[v] < Size[b] /\ Found(b, a)[s] = DiffJson[v][w]
      BY FoundAt
    <3> QED
      BY <2>4, <2>5, <2>6, <3>1
  <2> QED
    BY <2>2, <2>7
<1> QED
  BY <1>4, <1>5, <1>6

(* Anything else. *)
LEMMA WholesReplay ==
  ASSUME NEW b \in Values, NEW a \in Values, b.type # a.type \/ b.type \notin {"dict", "list"}
  PROVE  Replays(b, a)
<1>1. DiffJson[b][a] = IF b # a THEN {Difference({b}, {a})} ELSE {}
  BY DiffOfWhole
<1>2. DiffJson[b][a] \in SUBSET Differences
  BY DiffTyped
<1>3. Patched[b][DiffJson[b][a]] = PatchedNode(b, DiffJson[b][a], Patched)
  BY <1>2, PatchAt
<1>4. {b} \in SUBSET Values /\ {a} \in SUBSET Values
  OBVIOUS
<1>5. CASE b # a
  <2>1. /\ Whole({Difference({b}, {a})}) # {}
        /\ Difference({b}, {a}).before = {b} /\ Difference({b}, {a}).after = {a}
    <3>1. Whole({Difference({b}, {a})}) = {Difference({b}, {a})}
      BY <1>4, OneDifference
    <3> QED
      BY <3>1 DEF Difference
  <2>2. PatchedNode(b, DiffJson[b][a], Patched) = Replacement({Difference({b}, {a})})
    BY <1>1, <1>5, <2>1 DEF PatchedNode
  <2>3. Replacement({Difference({b}, {a})}) = a
    BY <1>4, Replaced
  <2>4. \A d \in DiffJson[b][a] : d.before # d.after
    BY <1>1, <1>5, <2>1
  <2> QED
    BY <1>3, <2>2, <2>3, <2>4 DEF Replays
<1>6. CASE b = a
  <2>1. DiffJson[b][a] = {} /\ Whole({}) = {}
    BY <1>1, <1>6 DEF Whole
  <2>2. b.type # "dict" /\ b.type # "list"
    BY <1>6
  <2>3. PatchedNode(b, DiffJson[b][a], Patched) = b
    BY <2>1, <2>2 DEF PatchedNode
  <2> QED
    BY <1>3, <1>6, <2>1, <2>3 DEF Replays
<1> QED
  BY <1>5, <1>6

(* Any two JSON values. *)
LEMMA AllReplay == \A b, a \in Values : Replays(b, a)
<1> DEFINE Bad == {b \in Values : \E a \in Values : ~Replays(b, a)}
           T == {Size[b] : b \in Bad}
<1> SUFFICES ASSUME Bad # {}
             PROVE  FALSE
  OBVIOUS
<1>1. T \in SUBSET Nat /\ T # {}
  BY Parts
<1>2. PICK n \in T : \A m \in T : n <= m
  BY <1>1, LeastNumber
<1>3. PICK b \in Bad : n = Size[b]
  OBVIOUS
<1>4. PICK a \in Values : ~Replays(b, a)
  OBVIOUS
<1>5. b \in Values /\ Size[b] \in Nat
  BY Parts
<1>6. ASSUME NEW v \in Values, NEW w \in Values, Size[v] < Size[b]
      PROVE  Replays(v, w)
  <2>1. Size[v] \in Nat /\ (v \in Bad => Size[b] <= Size[v])
    BY <1>2, <1>3, Parts
  <2> QED
    BY <1>5, <1>6, <2>1
<1> HIDE DEF Bad, T
<1>7. CASE b.type = a.type /\ b.type \in {"dict", "list"}
  BY <1>4, <1>5, <1>6, <1>7, ContainersReplay
<1>8. CASE b.type # a.type \/ b.type \notin {"dict", "list"}
  BY <1>4, <1>5, <1>8, WholesReplay
<1> QED
  BY <1>7, <1>8

-----------------------------------------------------------------------------
(* When diff raises. *)

(* Two lists one of which is longer than the other by two items or more. *)
Uneven(b, a) == Len(b.items) + 1 < Len(a.items) \/ Len(a.items) + 1 < Len(b.items)

(* The parts that both values have. *)
Common(b, a) ==
  IF b.type = "dict" THEN DOMAIN b.fields \cap DOMAIN a.fields
  ELSE {i \in 1..Len(b.items) : i <= Len(a.items)}
Part(v, s) == IF v.type = "dict" THEN v.fields[s] ELSE v.items[s]

(* A part that only one of two values has is a difference. *)
LEMMA OneSided ==
  ASSUME NEW v \in Values
  PROVE  ~Raises({Difference({}, {v})}) /\ ~Raises({Difference({v}, {})})
<1>1. {v} # {}
  OBVIOUS
<1> QED
  BY <1>1 DEF Raises, Difference

(* Two objects: their common keys. *)
LEMMA ObjectRaises ==
  ASSUME NEW b \in Values, NEW a \in Values, b.type = "dict", a.type = "dict"
  PROVE  Raises(DiffJson[b][a]) <=>
           \E k \in DOMAIN b.fields \cap DOMAIN a.fields : Raises(DiffJson[b.fields[k]][a.fields[k]])
<1>1. Raises(DiffJson[b][a]) <=> \E s \in Visited(b, a) : Raises(Found(b, a)[s])
  BY PartsFound
<1>2. Visited(b, a) = DOMAIN b.fields \cup DOMAIN a.fields
  BY DEF Visited
<1>3. \A s \in Visited(b, a) : Found(b, a)[s] = DiffField(b, a, s, DiffJson)
  BY DEF Found
<1>4. ASSUME NEW k \in DOMAIN b.fields \cup DOMAIN a.fields
      PROVE  Raises(DiffField(b, a, k, DiffJson)) <=>
               /\ k \in DOMAIN b.fields \cap DOMAIN a.fields
               /\ Raises(DiffJson[b.fields[k]][a.fields[k]])
  <2>1. CASE k \notin DOMAIN b.fields
    BY <2>1, OneSided, Parts DEF DiffField
  <2>2. CASE k \in DOMAIN b.fields /\ k \notin DOMAIN a.fields
    BY <2>2, OneSided, Parts DEF DiffField
  <2>3. CASE k \in DOMAIN b.fields \cap DOMAIN a.fields
    BY <2>3 DEF DiffField
  <2> QED
    BY <2>1, <2>2, <2>3
<1> QED
  BY <1>1, <1>2, <1>3, <1>4

(* An index of two lists: the longer one may go on for one item. *)
LEMMA ItemRaises ==
  ASSUME NEW b \in Values, NEW a \in Values,
         NEW s \in 0..(Len(b.items) - 1) \cup 0..(Len(a.items) - 1)
  PROVE  Raises(DiffItem(b, a, s, DiffJson)) <=>
           \/ s > Len(b.items) \/ s > Len(a.items)
           \/ /\ s < Len(b.items) /\ s < Len(a.items)
              /\ Raises(DiffJson[b.items[s + 1]][a.items[s + 1]])
<1>1. /\ Len(b.items) \in Nat /\ Len(a.items) \in Nat /\ s \in Nat
      /\ s < Len(b.items) \/ s < Len(a.items)
  <2>1. Len(b.items) \in Nat /\ Len(a.items) \in Nat
    BY Parts
  <2> QED
    BY <2>1
<1>2. CASE s = Len(b.items)
  <2>1. s + 1 \in 1..Len(a.items)
    BY <1>1, <1>2
  <2>2. a.items[s + 1] \in Values
    BY <2>1, Parts
  <2>3. DiffItem(b, a, s, DiffJson) = {Difference({}, {a.items[s + 1]})}
    BY <1>2 DEF DiffItem
  <2>4. ~ (s > Len(b.items)) /\ ~ (s > Len(a.items)) /\ ~ (s < Len(b.items))
    BY <1>1, <1>2
  <2> QED
    BY <2>2, <2>3, <2>4, OneSided
<1>3. CASE s # Len(b.items) /\ s = Len(a.items)
  <2>1. s + 1 \in 1..Len(b.items)
    BY <1>1, <1>3
  <2>2. b.items[s + 1] \in Values
    BY <2>1, Parts
  <2>3. DiffItem(b, a, s, DiffJson) = {Difference({b.items[s + 1]}, {})}
    BY <1>3 DEF DiffItem
  <2>4. ~ (s > Len(b.items)) /\ ~ (s > Len(a.items)) /\ ~ (s < Len(a.items))
    BY <1>1, <1>3
  <2> QED
    BY <2>2, <2>3, <2>4, OneSided
<1>4. CASE s # Len(b.items) /\ s # Len(a.items) /\ (s > Len(b.items) \/ s > Len(a.items))
  BY <1>4 DEF DiffItem, Raises, IndexError, Difference
<1>5. CASE s < Len(b.items) /\ s < Len(a.items)
  <2>1. s # Len(b.items) /\ s # Len(a.items) /\ ~ (s > Len(b.items)) /\ ~ (s > Len(a.items))
    BY <1>1, <1>5
  <2> QED
    BY <1>5, <2>1 DEF DiffItem
<1>6. \/ s = Len(b.items)
      \/ s # Len(b.items) /\ s = Len(a.items)
      \/ s # Len(b.items) /\ s # Len(a.items) /\ (s > Len(b.items) \/ s > Len(a.items))
      \/ s < Len(b.items) /\ s < Len(a.items)
  BY <1>1
<1> QED
  BY <1>2, <1>3, <1>4, <1>5, <1>6

(* Two lists: their lengths and their common items. *)
LEMMA ListRaises ==
  ASSUME NEW b \in Values, NEW a \in Values, b.type = "list", a.type = "list"
  PROVE  Raises(DiffJson[b][a]) <=>
           \/ Uneven(b, a)
           \/ \E i \in 1..Len(b.items) : /\ i <= Len(a.items)
                                         /\ Raises(DiffJson[b.items[i]][a.items[i]])
<1> DEFINE J == 0..(Len(b.items) - 1) \cup 0..(Len(a.items) - 1)
           Beyond(s) == s > Len(b.items) \/ s > Len(a.items)
           Bad(i) == Raises(DiffJson[b.items[i]][a.items[i]])
<1>1. Len(b.items) \in Nat /\ Len(a.items) \in Nat
  BY Parts
<1>2. Raises(DiffJson[b][a]) <=> \E s \in J : Raises(DiffItem(b, a, s, DiffJson))
  <2>1. Visited(b, a) = J /\ \A s \in J : Found(b, a)[s] = DiffItem(b, a, s, DiffJson)
    BY DEF Visited, Found
  <2> QED
    BY <2>1, PartsFound
<1>3. \A s \in J : Raises(DiffItem(b, a, s, DiffJson)) <=>
                     Beyond(s) \/ (s < Len(b.items) /\ s < Len(a.items) /\ Bad(s + 1))
  BY ItemRaises
<1>4. Uneven(b, a) <=> \E s \in J : Beyond(s)
  <2>1. ASSUME Uneven(b, a)
        PROVE  \E s \in J : Beyond(s)
    <3>1. CASE Len(b.items) + 1 < Len(a.items)
      <4>1. Len(b.items) + 1 \in J /\ Beyond(Len(b.items) + 1)
        BY <1>1, <3>1
      <4> QED
        BY <4>1
    <3>2. CASE Len(a.items) + 1 < Len(b.items)
      <4>1. Len(a.items) + 1 \in J /\ Beyond(Len(a.items) + 1)
        BY <1>1, <3>2
      <4> QED
        BY <4>1
    <3> QED
      BY <2>1, <3>1, <3>2 DEF Uneven
  <2>2. ASSUME NEW s \in J, Beyond(s)
        PROVE  Uneven(b, a)
    BY <1>1, <2>2 DEF Uneven
  <2> QED
    BY <2>1, <2>2
<1> HIDE DEF Bad
<1>5. (\E s \in J : s < Len(b.items) /\ s < Len(a.items) /\ Bad(s + 1)) <=>
        \E i \in 1..Len(b.items) : i <= Len(a.items) /\ Bad(i)
  <2>1. ASSUME NEW s \in J, s < Len(b.items), s < Len(a.items), Bad(s + 1)
        PROVE  \E i \in 1..Len(b.items) : i <= Len(a.items) /\ Bad(i)
    <3>1. s + 1 \in 1..Len(b.items) /\ s + 1 <= Len(a.items)
      BY <1>1, <2>1
    <3> QED
      BY <2>1, <3>1
  <2>2. ASSUME NEW i \in 1..Len(b.items), i <= Len(a.items), Bad(i)
        PROVE  \E s \in J : s < Len(b.items) /\ s < Len(a.items) /\ Bad(s + 1)
    <3>1. /\ i - 1 \in J /\ i - 1 < Len(b.items) /\ i - 1 < Len(a.items)
          /\ (i - 1) + 1 = i
      BY <1>1, <2>2
    <3> QED
      BY <2>2, <3>1
  <2> QED
    BY <2>1, <2>2
<1> HIDE DEF J, Beyond
<1>6. Raises(DiffJson[b][a]) <=>
        Uneven(b, a) \/ \E i \in 1..Len(b.items) : i <= Len(a.items) /\ Bad(i)
  BY <1>2, <1>3, <1>4, <1>5
<1> QED
  BY <1>6 DEF Bad

(* diff raises IndexError on two JSON values exactly if they are lists whose
   lengths differ by two or more, or have a common part on which it raises: the
   lists at some path of both are uneven, and nothing else makes it fail
   (reporting.py:132-183). *)
THEOREM DiffRaisesWhere ==
  \A b, a \in Values :
    Raises(DiffJson[b][a]) <=>
      /\ b.type = a.type
      /\ \/ Uneven(b, a)
         \/ \E s \in Common(b, a) : Raises(DiffJson[Part(b, s)][Part(a, s)])
<1> SUFFICES ASSUME NEW b \in Values, NEW a \in Values
             PROVE  Raises(DiffJson[b][a]) <=>
                      /\ b.type = a.type
                      /\ \/ Uneven(b, a)
                         \/ \E s \in Common(b, a) : Raises(DiffJson[Part(b, s)][Part(a, s)])
  OBVIOUS
<1>1. ASSUME NEW v \in Values, v.type # "list"
      PROVE  Len(v.items) = 0
  <2>1. v.items = << >>
    BY <1>1, JsonAssumption
  <2> QED
    BY <2>1
<1>2. CASE b.type = "dict" /\ a.type = "dict"
  <2>1. ~Uneven(b, a)
    BY <1>1, <1>2 DEF Uneven
  <2> QED
    BY <1>2, <2>1, ObjectRaises DEF Common, Part
<1>3. CASE b.type = "list" /\ a.type = "list"
  BY <1>3, ListRaises DEF Common, Part
<1>4. CASE b.type # a.type \/ b.type \notin {"dict", "list"}
  <2>1. ~Raises(DiffJson[b][a])
    <3>1. DiffJson[b][a] = IF b # a THEN {Difference({b}, {a})} ELSE {}
      BY <1>4, DiffOfWhole
    <3>2. {b} # {}
      OBVIOUS
    <3> QED
      BY <3>1, <3>2 DEF Raises, Difference
  <2>2. b.type = a.type => ~Uneven(b, a) /\ Common(b, a) = {}
    BY <1>1, <1>4 DEF Uneven, Common
  <2> QED
    BY <2>1, <2>2
<1> QED
  BY <1>2, <1>3, <1>4

-----------------------------------------------------------------------------
(* The two commands. *)

(* What is compared are JSON values, and what was found is what diff finds. *)
Compared ==
  /\ comparison.before \subseteq Values /\ comparison.after \subseteq Values
  /\ \A b \in comparison.before, a \in comparison.after : comparison.found = DiffJson[b][a]

(* diff_decoded_json finds the whole difference and nothing else, for JSON
   values of any number of keys and items and of any depth, unless it raises. *)
THEOREM DiffsReplay == ReportSpec => []DifferencesReplay
<1>1. ReportInit => Compared
  BY DEF ReportInit, Compared
<1>2. Compared /\ [ReportNext]_reportVars => Compared'
  <2> SUFFICES ASSUME Compared, [ReportNext]_reportVars
               PROVE  Compared'
    OBVIOUS
  <2>1. ASSUME NEW b \in Values, NEW a \in Values, DiffCommand(b, a)
        PROVE  Compared'
    BY <2>1 DEF DiffCommand, Compared
  <2>2. ASSUME NEW ev \in Events, NEW pol \in Policies, ReportCommand(ev, pol)
        PROVE  Compared'
    BY <2>2 DEF ReportCommand, Compared
  <2>3. CASE UNCHANGED reportVars
    BY <2>3 DEF reportVars, Compared
  <2> QED
    BY <2>1, <2>2, <2>3 DEF ReportNext
<1>3. Compared => DifferencesReplay
  <2> SUFFICES ASSUME Compared, NEW b \in comparison.before, NEW a \in comparison.after,
                      ~Raises(comparison.found)
               PROVE  /\ Patched[b][comparison.found] = a
                      /\ \A d \in comparison.found : d.before # d.after
    BY DEF DifferencesReplay
  <2>1. b \in Values /\ a \in Values /\ comparison.found = DiffJson[b][a]
    BY DEF Compared
  <2>2. Replays(b, a)
    BY <2>1, AllReplay
  <2> QED
    BY <2>1, <2>2 DEF Replays
<1> QED
  BY <1>1, <1>2, <1>3, PTL DEF ReportSpec

(* What was written is what the two renderings make of the event. *)
Rendered ==
  \A w \in report.written, ev \in report.event, pol \in report.policy :
    /\ ev \in Events /\ pol \in Policies
    /\ w = [record |-> EventRecord(ev, pol), text |-> EventText(ev, pol)]

(* The JSON report and the text report of an event agree, and disclose no more
   than the policy lets them. *)
THEOREM RenderingsAgree == ReportSpec => []ReportsAgree
<1>1. ReportInit => Rendered
  BY DEF ReportInit, Rendered
<1>2. Rendered /\ [ReportNext]_reportVars => Rendered'
  <2> SUFFICES ASSUME Rendered, [ReportNext]_reportVars
               PROVE  Rendered'
    OBVIOUS
  <2>1. ASSUME NEW b \in Values, NEW a \in Values, DiffCommand(b, a)
        PROVE  Rendered'
    BY <2>1 DEF DiffCommand, Rendered
  <2>2. ASSUME NEW ev \in Events, NEW pol \in Policies, ReportCommand(ev, pol)
        PROVE  Rendered'
    BY <2>2 DEF ReportCommand, Rendered
  <2>3. CASE UNCHANGED reportVars
    BY <2>3 DEF reportVars, Rendered
  <2> QED
    BY <2>1, <2>2, <2>3 DEF ReportNext
<1>3. Rendered => ReportsAgree
  <2> SUFFICES ASSUME NEW ev \in Events, NEW pol \in Policies, NEW w,
                      w = [record |-> EventRecord(ev, pol), text |-> EventText(ev, pol)]
               PROVE  /\ w.record.payload = w.text.payload
                      /\ w.record.peer.redacted = (w.text.peer = "withheld")
                      /\ w.record.peer.redacted \/ w.text.peer = w.record.peer.address
                      /\ w.text.payload = ev.payload => pol.raw /\ pol.predicate # "withholds"
                      /\ ev.peer \in {w.record.peer.address, w.text.peer} =>
                           pol.identifiers \/ ev.peer = "unattributed"
    BY DEF Rendered, ReportsAgree
  <2>1. ev.peer \in {"peer", "unattributed"} /\ ev.payload = "bytes"
    BY DEF Events
  <2>2. pol.raw \in BOOLEAN /\ pol.identifiers \in BOOLEAN
    BY DEF Policies
  <2>3. /\ w.record.peer = ReportIdentifier(ev.peer, pol)
        /\ w.record.payload = RenderPayload(ev.payload, pol)
        /\ w.text.payload = RenderPayload(ev.payload, pol)
        /\ w.text.peer = IF w.record.peer.redacted THEN "withheld" ELSE w.record.peer.address
    BY DEF EventRecord, EventText
  <2>4. w.text.payload = ev.payload => pol.raw /\ pol.predicate # "withholds"
    BY <2>1, <2>3 DEF RenderPayload
  <2>5. CASE ev.peer = "unattributed" \/ pol.identifiers
    <3>1. w.record.peer.address = ev.peer /\ w.record.peer.redacted = FALSE /\ w.text.peer = ev.peer
      BY <2>3, <2>5 DEF ReportIdentifier
    <3> QED
      BY <2>1, <2>3, <2>4, <2>5, <3>1
  <2>6. CASE ~(ev.peer = "unattributed" \/ pol.identifiers)
    <3>1. w.record.peer.address = "unattributed" /\ w.record.peer.redacted = TRUE /\ w.text.peer = "withheld"
      BY <2>3, <2>6 DEF ReportIdentifier
    <3> QED
      BY <2>1, <2>3, <2>4, <2>6, <3>1
  <2> QED
    BY <2>5, <2>6
<1> QED
  BY <1>1, <1>2, <1>3, PTL DEF ReportSpec

-----------------------------------------------------------------------------
(* The three families. *)

(* mark and segment, whatever the family of a behaviour, do what MarkStore says. *)
LEMMA CommandsKeepStore == CommandSpec => StoreSpec
<1>1. CommandInit => StoreInit
  BY DEF CommandInit
<1>2. [CommandNext]_commandVars => [StoreNext]_storeVars
  BY DEF CommandNext, commandVars, storeVars
<1> QED
  BY <1>1, <1>2, PTL DEF CommandSpec, StoreSpec

(* decode does what KaitaiCache says. *)
LEMMA CommandsKeepCache == CommandSpec => CacheSpec
<1>1. CommandInit => CacheInit
  BY DEF CommandInit
<1>2. [CommandNext]_commandVars => [CacheNext]_cacheVars
  BY DEF CommandNext, commandVars, cacheVars
<1> QED
  BY <1>1, <1>2, PTL DEF CommandSpec, CacheSpec

(* diff and report do what Reporting says. *)
LEMMA CommandsKeepReports == CommandSpec => ReportSpec
<1>1. CommandInit => ReportInit
  BY DEF CommandInit
<1>2. [CommandNext]_commandVars => [ReportNext]_reportVars
  BY DEF CommandNext, commandVars, reportVars
<1> QED
  BY <1>1, <1>2, PTL DEF CommandSpec, ReportSpec

(* What the three components promise holds of the analysis commands: private
   content, no mark lost, segments that follow the marks, complete cache entries
   with one parser for each key, and the right one, diffs that replay and reports that
   agree (storage.py:75-185, kaitai.py:89-183, reporting.py:49-192). *)
THEOREM CommandsPromise ==
  CommandSpec => /\ [](ContentIsPrivate /\ MarksKept /\ SegmentsFollowMarks)
                 /\ [](EntriesAreComplete /\ ParserMatchesSchemas /\ DecodersAgree
                       /\ StagesAreRemoved)
                 /\ [](DifferencesReplay /\ ReportsAgree)
  BY CommandsKeepStore, ContentStaysPrivate, MarksAreKept, SegmentsFollow, CommandsKeepCache,
     EntriesComplete, ParserMatches, DecodersShare, StagesRemoved, CommandsKeepReports,
     DiffsReplay, RenderingsAgree, PTL
=============================================================================
