----------------------------- MODULE Validation -----------------------------
(***************************************************************************)
(* What `plgt validate` finds in a project: services/validation_pipeline.py*)
(* as a function of what is on disk.                                       *)
(*                                                                         *)
(* A project is poliglot.yml, the lockfile and cache of the active mode,   *)
(* and matrices, each with the directories of its `spec` patterns.  A file *)
(* is what the phases can tell of it: the faults in it, the packages it    *)
(* imports, the packages whose terms it uses, whether it declares its      *)
(* matrix, is Turtle, and has script:// refs.                              *)
(***************************************************************************)
EXTENDS Naturals, Sequences, FiniteSets

CONSTANTS
  Package,  \* packages of the registry
  Engine,   \* the one that carries the shapes
  None      \* "no value"

\* The module of the runs assumes it.
PackageAssumption == Engine \in Package /\ None \notin Package /\ None \notin Nat

\* The faults a file may have, by the code that reports them.
CodeOf ==
  [syntax |-> "E0001", sparql |-> "E0100", json |-> "E0103", unbound |-> "E0104",
   define |-> "W0102", script |-> "E0800", prefix |-> "E0302", outside |-> "E0301",
   crash |-> "E0500", shape |-> "E0500", advice |-> "W0500", predicate |-> "E0201",
   class |-> "E0202", name |-> "E0203", call |-> "E0601", arity |-> "E0602",
   variable |-> "E0701", declared |-> "W0701", secret |-> "E0702"]
Fault == DOMAIN CodeOf

Warnings == {"W0001", "W0102", "W0500", "W0701", "W0901"}

\* text: a name for all that is written in it.
SourceFile == [text: STRING, faults: SUBSET Fault, imports: SUBSET Package,
               uses: SUBSET Package, matrix: BOOLEAN, ttl: BOOLEAN, scripts: BOOLEAN]
\* main: the directory is the matrix's "spec".
SpecDir == [there: BOOLEAN, main: BOOLEAN, files: Seq(SourceFile)]
\* out: the output directory, which two matrices may share; siblings: some
\* property has two anonymous values.
Matrix == [dir: BOOLEAN, specs: Seq(SpecDir), ui: BOOLEAN, out: Nat, siblings: BOOLEAN]
CacheState == {"absent", "partial", "whole"}
Project ==
  [config: {"absent", "bad", "ok"},
   lock: {None} \cup SUBSET Package,
   cache: {None} \cup [Package -> CacheState],
   matrices: Seq(Matrix)]

\* Where a finding points: a file is a matrix, one of its spec directories and
\* a position there.
Place == Nat \X Nat \X Nat
Finding(code, places) == [code |-> code, at |-> places]
IsError(d) == d.code \notin Warnings

FileAt(p, w) == p.matrices[w[1]].specs[w[2]].files[w[3]]

-----------------------------------------------------------------------------
(* Phases 1 to 3: the local files *)

\* The spec directory of a matrix that is read: the first one that exists.
SpecOf(m) ==
  LET there == {k \in DOMAIN m.specs : m.specs[k].there}
  IN  IF there = {} THEN None ELSE CHOOSE k \in there : \A j \in there : k <= j

Located(p) == {i \in DOMAIN p.matrices : p.matrices[i].dir /\ SpecOf(p.matrices[i]) # None}

Listed(p, i) ==
  LET k == SpecOf(p.matrices[i])
  IN  {<<i, k, n>> : n \in {f \in DOMAIN p.matrices[i].specs[k].files :
                           p.matrices[i].specs[k].files[f].ttl}}

\* _parse_local_ttl_into
Parses(p, w) == "syntax" \notin FileAt(p, w).faults
ParsedIn(p, i) == {w \in Listed(p, i) : Parses(p, w)}

WithFault(p, ws, f) == {w \in ws : f \in FileAt(p, w).faults}

\* expand_script_refs raises in the first matrix with a reference it cannot
\* resolve, and the run ends there: the matrices after it are not parsed.
Halting(p) == {i \in Located(p) : WithFault(p, ParsedIn(p, i), "script") # {}}
Halt(p) == IF Halting(p) = {} THEN None
           ELSE CHOOSE i \in Halting(p) : \A j \in Halting(p) : i <= j
\* A mutation: only the first matrix is walked.
FirstMatrix(p) == {i \in Located(p) : i = 1}

ReachedMatrices(p) == {i \in Located(p) : Halt(p) = None \/ i <= Halt(p)}

\* A finding for each file with one of these faults.
EachOf(p, ws, faults) ==
  UNION {{Finding(CodeOf[f], {w}) : w \in WithFault(p, ws, f)} : f \in faults}

\* One finding for all the files with a fault: a name is reported once.
OnceOf(p, ws, faults) ==
  {Finding(CodeOf[f], WithFault(p, ws, f)) : f \in {g \in faults : WithFault(p, ws, g) # {}}}

\* _extract_matrix_namespaces
Declares(p, ws) == \E w \in ws : FileAt(p, w).matrix

\* _check_sparql_syntax: a body in the DEFINE language is only warned of.
SparqlFindings(p, i) == EachOf(p, ParsedIn(p, i), {"sparql", "define"})

\* _validate_json_dsl_body
JsonFindings(p, i) == EachOf(p, ParsedIn(p, i), {"json", "unbound"})

\* _check_prefix_consistency: against the prefixes the matrix declares.
PrefixFindings(p, i) ==
  IF Declares(p, ParsedIn(p, i)) THEN EachOf(p, ParsedIn(p, i), {"prefix"}) ELSE {}

\* A mutation: a file that does not parse is skipped without a word.
BodyFindings(p, i) == SparqlFindings(p, i) \cup JsonFindings(p, i) \cup PrefixFindings(p, i)

\* The findings of one matrix before its scripts are expanded.
ParseFindings(p, i) ==
  EachOf(p, Listed(p, i), {"syntax"})
  \cup SparqlFindings(p, i) \cup JsonFindings(p, i) \cup PrefixFindings(p, i)

Parsed(p) == UNION {ParsedIn(p, i) : i \in ReachedMatrices(p)}

-----------------------------------------------------------------------------
(* Phases 4 to 9 *)

\* A mutation: the cache of the other mode is read.
MergedElsewhere(p) == {q \in p.lock : p.cache = None}

\* _merge_cache_dir: what the lockfile names and the cache holds; whether a
\* directory is complete is not looked at.
Merged(p) == {q \in p.lock : p.cache # None /\ p.cache[q] = "whole"}
Missing(p) == {q \in p.lock : p.cache = None \/ p.cache[q] = "absent"}

\* _build_uri_to_package_index: every package in the cache, locked or not.
Indexed(p) == {q \in Package : p.cache # None /\ p.cache[q] = "whole"}

\* _check_imports_against_declared: every entry of the lockfile counts as
\* declared, and without a cache nothing is looked at.
ImportFindings(p) ==
  IF p.cache = None THEN {}
  ELSE {Finding("E0401", {w}) :
          w \in {v \in Parsed(p) : ~(FileAt(p, v).imports \subseteq Indexed(p) \cap p.lock)}}

\* _check_namespace_enforcement
NamespaceFindings(p) == IF Declares(p, Parsed(p)) THEN EachOf(p, Parsed(p), {"outside"}) ELSE {}

\* _load_assembled_graph
AssemblyFindings(p) == IF Missing(p) # {} THEN {Finding("W0901", {})} ELSE {}

\* _own_focus_nodes: subjects of the declared namespaces, none without any.
Focus(p) == IF Declares(p, Parsed(p)) THEN Parsed(p) ELSE {}

\* _extract_and_strip_iri_node_shapes: the engine's package carries the shapes.
HasShapes(p) == Engine \in Merged(p)

\* _evaluate_iri_node_targets: advice on the documentation of own subjects.
NativeFindings(p) == IF HasShapes(p) THEN EachOf(p, Focus(p), {"advice"}) ELSE {}

\* _run_shacl_validation: the native pass comes first, and a crash of the
\* engine, whatever the focus, hides what it would have found.
ShaclFindings(p) ==
  LET crashed == WithFault(p, Parsed(p), "crash") IN
  NativeFindings(p)
  \cup (IF crashed # {} THEN {Finding("E0500", crashed)}
        ELSE IF HasShapes(p) THEN EachOf(p, Focus(p), {"shape"}) ELSE {})

\* A term is known when it is a subject of the assembled graph.
UnknownUses(p, q) ==
  IF q \in Merged(p) THEN {}
  ELSE {w \in Parsed(p) : q \in FileAt(p, w).uses}

\* _check_predicate_class_existence
TermFindings(p) ==
  {Finding("E0201", UnknownUses(p, q)) : q \in {r \in Package : UnknownUses(p, r) # {}}}
  \cup OnceOf(p, Parsed(p), {"predicate", "class", "name"})

\* _check_grel_function_calls
CallFindings(p) == OnceOf(p, Parsed(p), {"call"}) \cup EachOf(p, Parsed(p), {"arity"})

\* _check_variables_and_secrets
DeclarationFindings(p) ==
  EachOf(p, Parsed(p), {"variable", "secret"}) \cup OnceOf(p, Parsed(p), {"declared"})

GraphFindings(p) ==
  ImportFindings(p) \cup NamespaceFindings(p) \cup AssemblyFindings(p) \cup ShaclFindings(p)
  \cup TermFindings(p) \cup CallFindings(p) \cup DeclarationFindings(p)

-----------------------------------------------------------------------------
(* validate_project *)

Stopped(findings) == [findings |-> findings, assembled |-> FALSE]

\* Warnings about matrices whose directory is missing; a matrix none of whose
\* spec directories exists is left out without a word.
Absent(p) == {Finding("W0001", {}) : i \in {j \in DOMAIN p.matrices : ~p.matrices[j].dir}}

Validate(p) ==
  IF p.config = "absent" \/ p.lock = None \/ p.config = "bad"
  THEN Stopped({Finding("E0900", {})})
  ELSE IF Located(p) = {}
  THEN Stopped(Absent(p) \cup {Finding("W0001", {})})
  ELSE LET early == Absent(p) \cup UNION {ParseFindings(p, i) : i \in ReachedMatrices(p)}
       IN  IF Halt(p) # None
           THEN Stopped(early \cup {Finding("E0800", WithFault(p, ParsedIn(p, Halt(p)), "script"))})
           ELSE IF Parsed(p) = {}
           THEN Stopped(early)
           ELSE [findings |-> early \cup GraphFindings(p), assembled |-> TRUE]

Errors(r) == {d \in r.findings : IsError(d)}

\* cmd/validate.py: the exit status.
ExitCode(r) == IF Errors(r) # {} THEN 1 ELSE 0
=============================================================================
