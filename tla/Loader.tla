------------------------------- MODULE Loader -------------------------------
(***************************************************************************)
(* How a script's modules are found and run.  Two loaders share the idea:  *)
(* the CommonJS runtime every engine evaluates as one script, and Boa's    *)
(* loader of ES modules from files, a development tool.  A path is a       *)
(* sequence of parts and whether it starts at the root.                    *)
(***************************************************************************)
EXTENDS Integers, Sequences, SequencesExt, FiniteSetsExt, TLC

CONSTANTS
  Ids,           \* bound: the modules and files there may be
  Specifiers,    \* bound: what a module asks for
  Entry,         \* the module the host runs
  Aliases,       \* bound: what the host may map, each a function of one specifier
  MaxLoads       \* bound: modules asked for in a behaviour

Path(abs, parts) == [abs |-> abs, parts |-> parts]

VARIABLES
  loader,       \* "commonjs" or "files"
  present,      \* __factories, or the files there are
  cache,        \* __cache: the ids that have a module object; or the files parsed
  runs,         \* times a factory was called, or a module made of a file
  stack,        \* the factories that run, the innermost last
  thrown,       \* an exception is on its way out
  loads,        \* modules asked for
  alias,        \* files: where the specifier the host has mapped leads to
  got           \* the last module handed out, and to whom

loaderVars == <<loader, present, cache, runs, stack, thrown, loads, alias, got>>

(***************************************************************************)
(* Paths.                                                                  *)
(***************************************************************************)
Directory(path) == Path(path.abs, Front(path.parts))
Join(dir, spec) == IF spec.abs THEN spec ELSE Path(dir.abs, dir.parts \o spec.parts)
Suffix(path, end) ==
  IF path.parts = <<>> THEN Path(path.abs, <<end>>)
  ELSE Path(path.abs, Append(Front(path.parts), Last(path.parts) \o end))
\* Text: what is inside the empty path is at the root.
Inside(path, name) == Path(path.abs \/ path.parts = <<>>, Append(path.parts, name))

\* lexical_normalize_path, and the loop of __candidateIds: a name and the ".." after it cancel; at the
\* root ".." leads nowhere.
AddPart(abs, parts, part) ==
  CASE part \in {"", "."} -> parts
    [] part = ".." /\ parts # <<>> /\ Last(parts) # ".." -> Front(parts)
    [] part = ".." /\ (parts = <<>> \/ Last(parts) = "..") -> IF abs THEN parts ELSE Append(parts, part)
    [] OTHER -> Append(parts, part)
Normalize(path) ==
  Path(path.abs, FoldLeft(LAMBDA parts, part : AddPart(path.abs, parts, part), <<>>, path.parts))

\* __candidateIds: what starts with a dot, a part or a name, is beside the module that asks.  The entry is
\* asked for by nobody, and taken as it is spelt.
Dotted(spec) == ~spec.abs /\ spec.parts # <<>> /\ SubSeq(spec.parts[1], 1, 1) = "."
Resolved(spec, from) ==
  IF from = {} \/ ~Dotted(spec) THEN spec
  ELSE Normalize(Join(Directory(CHOOSE id \in from : TRUE), spec))
CandidateIds(spec, from) ==
  LET path == Resolved(spec, from) IN <<path, Suffix(path, ".js"), Inside(path, "index.js")>>

\* module_resolution_probes, of the alias or of the path beside the importer.  A file is there under every
\* spelling of its path.
Base(spec, from) ==
  IF spec \in DOMAIN alias THEN alias[spec] ELSE Join(Directory(from), spec)
Probes(spec, from) ==
  LET base == Base(spec, from)
  IN  [i \in 1 .. 4 |-> Normalize(<<base, Suffix(base, ".js"), Suffix(base, ".mjs"), Inside(base, "index.js")>>[i])]

\* The first that is there; none is {}.
FirstPresent(candidates) ==
  LET hits == {i \in DOMAIN candidates : candidates[i] \in present}
  IN  IF hits = {} THEN {} ELSE {candidates[Min(hits)]}
\* __resolve, FileModuleLoader::resolve
Resolve(spec, from) ==
  FirstPresent(IF loader = "commonjs" THEN CandidateIds(spec, from) ELSE Probes(spec, CHOOSE id \in from : TRUE))

(***************************************************************************)
(* CommonJS.                                                               *)
(***************************************************************************)
Top == IF stack = <<>> THEN {} ELSE {Last(stack)}
Hands(id, spec, from, base) == got' = {[id |-> id, spec |-> spec, from |-> f, base |-> base] : f \in from}

\* As if a module were put in the cache when its factory has returned.
RequireThenCache(spec) ==
  LET id == Resolve(spec, Top) IN
  /\ \/ id = {} /\ thrown' = TRUE /\ UNCHANGED <<cache, runs, stack, got>>
     \/ \E m \in id \cap cache : Hands(m, spec, Top, spec) /\ UNCHANGED <<cache, runs, stack, thrown>>
     \/ \E m \in id \ cache :
          /\ cache' = cache \cup Top /\ runs' = [runs EXCEPT ![m] = @ + 1] /\ stack' = Append(stack, m)
          /\ UNCHANGED <<thrown, got>>
  /\ loads' = loads + 1 /\ UNCHANGED <<loader, present, alias>>
\* __require: a module is in the cache before its factory runs.
RequireModule(spec) ==
  LET id == Resolve(spec, Top) IN
  /\ \/ id = {} /\ thrown' = TRUE /\ UNCHANGED <<cache, runs, stack, got>>
     \/ \E m \in id \cap cache : Hands(m, spec, Top, spec) /\ UNCHANGED <<cache, runs, stack, thrown>>
     \/ \E m \in id \ cache :
          /\ cache' = cache \cup {m} /\ runs' = [runs EXCEPT ![m] = @ + 1] /\ stack' = Append(stack, m)
          /\ UNCHANGED <<thrown, got>>
  /\ loads' = loads + 1 /\ UNCHANGED <<loader, present, alias>>

\* build_bootstrap: the factories are registered, then the entry is required.
RunModules == loader = "commonjs" /\ loads = 0 /\ RequireModule(Entry)
FactoryRequires(spec) == stack # <<>> /\ ~thrown /\ loads < MaxLoads /\ RequireModule(spec)

\* A factory returns, throws, or lets what it required throw; a caller may catch that.
FactoryReturns ==
  /\ stack # <<>> /\ ~thrown
  /\ stack' = Front(stack)
  /\ UNCHANGED <<loader, present, cache, runs, thrown, loads, alias, got>>
FactoryThrows ==
  /\ stack # <<>> /\ stack' = Front(stack) /\ thrown' = TRUE
  /\ UNCHANGED <<loader, present, cache, runs, loads, alias, got>>
FactoryCatches ==
  /\ stack # <<>> /\ thrown /\ thrown' = FALSE
  /\ UNCHANGED <<loader, present, cache, runs, stack, loads, alias, got>>

(***************************************************************************)
(* Boa's files.                                                            *)
(***************************************************************************)
\* set_module_alias; the target is normalized.
SetModuleAlias(mapped) ==
  /\ loader = "files" /\ alias = <<>> /\ alias' = [spec \in DOMAIN mapped |-> Normalize(mapped[spec])]
  /\ UNCHANGED <<loader, present, cache, runs, stack, thrown, loads, got>>

\* FileModuleLoader::parse makes a module of a file it has none of yet.  Reading, the host's transform and
\* the parser may each fail, and leave nothing behind.
Parse(m) ==
  \/ cache' = cache \cup {m} /\ runs' = [runs EXCEPT ![m] = IF m \in cache THEN @ ELSE @ + 1]
  \/ m \notin cache /\ UNCHANGED <<cache, runs>>
\* load_imported_module
LoadImportedModule(spec, from) ==
  /\ loader = "files" /\ loads < MaxLoads /\ loads' = loads + 1
  /\ \E m \in Resolve(spec, {from}) :
       Parse(m) /\ IF m \in cache' THEN Hands(m, spec, {from}, Base(spec, from)) ELSE UNCHANGED got
  /\ UNCHANGED <<loader, present, stack, thrown, alias>>
\* eval_module: the host names the file.
EvalModule(path) ==
  /\ loader = "files" /\ loads < MaxLoads /\ loads' = loads + 1
  /\ Normalize(path) \in present /\ Parse(Normalize(path))
  /\ UNCHANGED <<loader, present, stack, thrown, alias, got>>

LoaderInit ==
  /\ loader \in {"commonjs", "files"} /\ present \in SUBSET Ids
  /\ cache = {} /\ runs = [id \in Ids |-> 0] /\ stack = <<>> /\ thrown = FALSE
  /\ loads = 0 /\ alias = <<>> /\ got = {}

LoaderNext ==
  \/ RunModules
  \/ \E spec \in Specifiers : FactoryRequires(spec)
  \/ FactoryReturns \/ FactoryThrows \/ FactoryCatches
  \/ \E mapped \in Aliases : SetModuleAlias(mapped)
  \/ \E spec \in Specifiers, from \in cache : LoadImportedModule(spec, from)
  \/ \E path \in Ids : EvalModule(path)

LoaderSpec == LoaderInit /\ [][LoaderNext]_loaderVars

(***************************************************************************)
(* Properties.                                                             *)
(***************************************************************************)
\* The reference: the place a path leads to from a directory, a part at a time.  A name counts if no ".."
\* after it takes it back, a ".." if no name before it is left to take.
Count(parts, i, j, P(_)) == Cardinality({k \in i .. j : P(parts[k])})
IsUp(part)   == part = ".."
IsName(part) == part \notin {"", ".", ".."}
Stays(parts, k) ==
  \/ /\ IsName(parts[k])
     /\ \A j \in k + 1 .. Len(parts) : Count(parts, k + 1, j, IsUp) <= Count(parts, k + 1, j, IsName)
  \/ /\ IsUp(parts[k])
     /\ \A i \in 1 .. k : Count(parts, i, k, IsUp) > Count(parts, i, k, IsName)
Kept(path) ==
  LET S == {k \in DOMAIN path.parts : Stays(path.parts, k) /\ (path.abs => IsName(path.parts[k]))}
  IN  [k \in 1 .. Cardinality(S) |-> path.parts[SetToSortSeq(S, <)[k]]]
LeadsTo(g) ==
  IF loader = "commonjs" /\ ~Dotted(g.spec) THEN g.spec
  ELSE LET path == IF loader = "files" THEN g.base ELSE Join(Directory(g.from), g.spec)
       IN  Path(path.abs, Kept(path))
Spellings(path) ==
  <<path, Suffix(path, ".js")>> \o (IF loader = "files" THEN <<Suffix(path, ".mjs")>> ELSE <<>>)
    \o <<Inside(path, "index.js")>>

\* A module runs once, even if it threw or is asked for while it runs, and all who ask share it.
RunsOnce ==
  /\ \A id \in Ids : runs[id] <= 1
  /\ \A g \in got : g.id \in cache
\* However a module is asked for, and whatever was thrown and caught before: it is the first that is there
\* of the place its specifier leads to, and runs once.
OneModulePerPlace ==
  /\ RunsOnce
  /\ \A g \in got :
       LET spelt == Spellings(LeadsTo(g))
       IN  \E i \in DOMAIN spelt : g.id = spelt[i] /\ \A j \in 1 .. i - 1 : spelt[j] \notin present
=============================================================================
