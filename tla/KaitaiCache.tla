----------------------------- MODULE KaitaiCache -----------------------------
(***************************************************************************)
(* compile_kaitai, load_parser and decode_kaitai (kaitai.py) in several    *)
(* processes on one cache directory, while the schemas are edited and      *)
(* processes are interrupted or die.                                       *)
(*                                                                         *)
(* The schemas under the KSY root and the import paths are one version     *)
(* number.  A cache key is what it is made from: the request (target,      *)
(* root schema, module and type names, compiler and runtime versions) and  *)
(* the version that was hashed.  A directory of the cache, staged or       *)
(* published, has the output of the compiler, built from some request and  *)
(* version, and result.json, each once it was written.                     *)
(***************************************************************************)
EXTENDS Naturals

CONSTANTS
  Builder,     \* processes that decode
  Requests,    \* requests that differ in something other than the schemas
  Versions,    \* versions of the schemas
  MaxDecodes,  \* bound: decodes begun
  MaxEdits     \* bound: edits of the schemas

ASSUME CacheAssumption ==
  /\ Requests # {} /\ Versions # {}
  /\ MaxDecodes \in Nat /\ MaxEdits \in Nat

VARIABLES
  schema,    \* version of the schemas on disk
  cache,     \* the directory published under each key
  at,        \* what each process does next
  request,   \* its request
  key,       \* the key it computed
  stage,     \* its staged directory
  calm,      \* ghost: no edit since it hashed the schemas
  parser,    \* the parser it loaded, by what that was built from
  decodes, edits

cacheVars == <<schema, cache, at, request, key, stage, calm, parser,
               decodes, edits>>

Keys == Requests \X Versions
Blank == CHOOSE k \in Keys : TRUE
Directory == [present : BOOLEAN, output : BOOLEAN, record : BOOLEAN, built : Keys, calm : BOOLEAN]
NoDirectory ==
  [present |-> FALSE, output |-> FALSE, record |-> FALSE, built |-> Blank, calm |-> TRUE]
Parser == [loaded : BOOLEAN, built : Keys]
NoParser == [loaded |-> FALSE, built |-> Blank]

Published(k) == cache[k].output /\ cache[k].record

(* Inside the try block that removes the stage. *)
Staging == {"compile", "record", "publish"}

CacheInit ==
  /\ schema \in Versions
  /\ cache = [k \in Keys |-> NoDirectory]
  /\ at = [p \in Builder |-> "idle"]
  /\ request = [p \in Builder |-> CHOOSE r \in Requests : TRUE]
  /\ key = [p \in Builder |-> <<request[p], schema>>]
  /\ stage = [p \in Builder |-> NoDirectory]
  /\ calm = [p \in Builder |-> TRUE]
  /\ parser = [p \in Builder |-> NoParser]
  /\ decodes = 0 /\ edits = 0

Goto(p, s) == at' = [at EXCEPT ![p] = s]

(* A valid request; one that is refused changes nothing. *)
Request(p, r) ==
  /\ at[p] = "idle" /\ decodes < MaxDecodes
  /\ decodes' = decodes + 1
  /\ request' = [request EXCEPT ![p] = r]
  /\ parser' = [parser EXCEPT ![p] = NoParser]
  /\ Goto(p, "hash")
  /\ UNCHANGED <<schema, cache, key, stage, calm, edits>>

(* Wrong: the key leaves out the root schema and the names. *)
SchemasKey(r, v) == <<CHOOSE q \in Requests : TRUE, v>>

CacheKey(r, v) == <<r, v>>

HashSchemas(p) ==
  /\ at[p] = "hash"
  /\ key' = [key EXCEPT ![p] = CacheKey(request[p], schema)]
  /\ calm' = [calm EXCEPT ![p] = TRUE]
  /\ Goto(p, "lookup")
  /\ UNCHANGED <<schema, cache, request, stage, parser, decodes, edits>>

LookupHit(p) ==
  /\ at[p] = "lookup" /\ Published(key[p])
  /\ Goto(p, "load")
  /\ UNCHANGED <<schema, cache, request, key, stage, calm, parser, decodes, edits>>

(* output/ is made inside a directory with a name of its own. *)
LookupMiss(p) ==
  /\ at[p] = "lookup" /\ ~Published(key[p])
  /\ stage' = [stage EXCEPT ![p] = [NoDirectory EXCEPT !.present = TRUE]]
  /\ Goto(p, "compile")
  /\ UNCHANGED <<schema, cache, request, key, calm, parser, decodes, edits>>

(* Wrong: the directory is published before result.json is in it. *)
RunCompilerLast(p) ==
  /\ at[p] = "compile"
  /\ stage' = [stage EXCEPT ![p] =
       [@ EXCEPT !.output = TRUE, !.built = <<request[p], schema>>, !.calm = calm[p]]]
  /\ Goto(p, "publish")
  /\ UNCHANGED <<schema, cache, request, key, calm, parser, decodes, edits>>

(* The compiler reads the schemas again. *)
RunCompiler(p) ==
  /\ at[p] = "compile"
  /\ stage' = [stage EXCEPT ![p] =
       [@ EXCEPT !.output = TRUE, !.built = <<request[p], schema>>, !.calm = calm[p]]]
  /\ Goto(p, "record")
  /\ UNCHANGED <<schema, cache, request, key, calm, parser, decodes, edits>>

WriteRecord(p) ==
  /\ at[p] = "record"
  /\ stage' = [stage EXCEPT ![p].record = TRUE]
  /\ Goto(p, "publish")
  /\ UNCHANGED <<schema, cache, request, key, calm, parser, decodes, edits>>

(* stage.replace(cache_item): a directory replaces no directory that has entries. *)
Publish(p) ==
  /\ at[p] = "publish" /\ ~cache[key[p]].present
  /\ cache' = [cache EXCEPT ![key[p]] = stage[p]]
  /\ stage' = [stage EXCEPT ![p] = NoDirectory]
  /\ Goto(p, "load")
  /\ UNCHANGED <<schema, request, key, calm, parser, decodes, edits>>

(* Wrong: the entry is removed and the rename tried again. *)
ReplaceWinner(p) ==
  /\ at[p] = "publish" /\ cache[key[p]].present
  /\ cache' = [cache EXCEPT ![key[p]] = stage[p]]
  /\ stage' = [stage EXCEPT ![p] = NoDirectory]
  /\ Goto(p, "load")
  /\ UNCHANGED <<schema, request, key, calm, parser, decodes, edits>>

(* EEXIST is a FileExistsError: the stage is dropped for the winner's entry. *)
UseWinner(p) ==
  /\ at[p] = "publish" /\ cache[key[p]].present
  /\ stage' = [stage EXCEPT ![p] = NoDirectory]
  /\ Goto(p, "load")
  /\ UNCHANGED <<schema, cache, request, key, calm, parser, decodes, edits>>

(* load_parser and the decode; sys.modules is as it was before when they return. *)
LoadParser(p) ==
  /\ at[p] = "load"
  /\ parser' = [parser EXCEPT ![p] =
       [loaded |-> TRUE, built |-> cache[key[p]].built]]
  /\ Goto(p, "idle")
  /\ UNCHANGED <<schema, cache, request, key, stage, calm, decodes, edits>>

(* The compiler fails, the disk is full, the rename over the winner's entry is
   ENOTEMPTY (an OSError that is no FileExistsError), KeyboardInterrupt: the
   stage is removed, if it was made. *)
Fail(p) ==
  /\ at[p] \notin {"idle", "dead"}
  /\ stage' = [stage EXCEPT ![p] = NoDirectory]
  /\ Goto(p, "idle")
  /\ UNCHANGED <<schema, cache, request, key, calm, parser, decodes, edits>>

(* The process dies: its stage stays, under a name nobody uses again. *)
Die(p) ==
  /\ at[p] \notin {"idle", "dead"}
  /\ Goto(p, "dead")
  /\ UNCHANGED <<schema, cache, request, key, stage, calm, parser, decodes, edits>>

EditSchemas(v) ==
  /\ v # schema /\ edits < MaxEdits
  /\ schema' = v
  /\ edits' = edits + 1
  /\ calm' = [p \in Builder |-> FALSE]
  /\ UNCHANGED <<cache, at, request, key, stage, parser, decodes>>

Decode(p) ==
  \/ \E r \in Requests : Request(p, r)
  \/ HashSchemas(p) \/ LookupHit(p) \/ LookupMiss(p)
  \/ RunCompiler(p) \/ WriteRecord(p) \/ Publish(p) \/ UseWinner(p)
  \/ LoadParser(p) \/ Fail(p) \/ Die(p)

CacheNext == (\E p \in Builder : Decode(p)) \/ \E v \in Versions : EditSchemas(v)

CacheSpec == CacheInit /\ [][CacheNext]_cacheVars

-----------------------------------------------------------------------------
CacheTypeOK ==
  /\ schema \in Versions
  /\ cache \in [Keys -> Directory]
  /\ at \in [Builder -> {"idle", "hash", "lookup", "load", "dead"} \cup Staging]
  /\ request \in [Builder -> Requests]
  /\ key \in [Builder -> Keys]
  /\ stage \in [Builder -> Directory]
  /\ calm \in [Builder -> BOOLEAN]
  /\ parser \in [Builder -> Parser]
  /\ decodes \in Nat /\ edits \in Nat

(* A directory under a key is complete from the moment it is there: no crash,
   failure or race lets a lookup or the rename meet one that is half written. *)
EntriesAreComplete == \A k \in Keys : cache[k].present => Published(k)

(* The parser a decode runs was compiled for its request from the schemas it
   hashed, by this process or by another one, unless the schemas were edited
   while they were compiled. *)
ParserMatchesSchemas ==
  \A p \in Builder :
    parser[p].loaded /\ cache[key[p]].calm =>
      parser[p].built = <<request[p], key[p][2]>>

(* A staged directory belongs to a process that is compiling, or that died. *)
StagesAreRemoved ==
  \A p \in Builder : stage[p].present => at[p] \in Staging \cup {"dead"}

(* Two decodes of one key run the same parser, even if both compiled it and the
   schemas were edited between their compilations: who loses the race for the
   key takes what the winner published, and a later decode finds it as it was. *)
DecodersAgree ==
  \A p, q \in Builder :
    parser[p].loaded /\ parser[q].loaded /\ key[p] = key[q] =>
      parser[p].built = parser[q].built
=============================================================================
