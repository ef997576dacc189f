----------------------------- MODULE Authoring -----------------------------
(***************************************************************************)
(* The loop an author is in: `plgt validate`, mend what it reports, again; *)
(* cmd/validate.py over services/validation_pipeline.py, against what the  *)
(* build makes of the same project.                                        *)
(***************************************************************************)
EXTENDS Build

CONSTANT Beginning  \* the projects authors begin with

\* The module of the runs assumes it.
BeginningAssumption == Beginning \subseteq Project
\* "No value" is no lockfile and no cache.
NoValueAssumption ==
  (\A lock \in SUBSET Package : None # lock) /\ (\A cache \in [Package -> CacheState] : None # cache)

VARIABLES
  project,  \* what is on the disk
  result    \* what the last run said of it, None once it was touched
vars == <<project, result>>

TypeOK ==
  /\ project.config \in {"absent", "bad", "ok"}
  /\ project.lock \in {None} \cup SUBSET Package
  /\ project.cache \in {None} \cup [Package -> CacheState]
  /\ result # None => \A d \in result.findings : d.at \subseteq
       UNION {Discovered(project, i) : i \in DOMAIN project.matrices}

Init == project \in Beginning /\ result = None

\* cmd/validate.py: it only reads.
Run ==
  /\ result = None
  /\ result' = Validate(project)
  /\ UNCHANGED project

-----------------------------------------------------------------------------
(* What an author does about a finding *)

\* plgt sync and plgt add: the lockfile's packages are brought into the cache.
Synced(p, more) ==
  LET lock == (IF p.lock = None THEN {Engine} ELSE p.lock) \cup more
  IN  [p EXCEPT !.lock = lock, !.cache =
         [q \in Package |-> IF q \in lock THEN "whole" ELSE
                            IF p.cache = None THEN "absent" ELSE p.cache[q]]]

\* The faults of that code are taken out of the files it points at.
RewrittenFile(p, d, w) ==
  IF w \in d.at THEN [FileAt(p, w) EXCEPT !.faults = {f \in @ : CodeOf[f] # d.code}] ELSE FileAt(p, w)
RewrittenDir(p, d, i, k) ==
  [p.matrices[i].specs[k] EXCEPT !.files = [n \in DOMAIN @ |-> RewrittenFile(p, d, <<i, k, n>>)]]
RewrittenMatrix(p, d, i) ==
  [p.matrices[i] EXCEPT !.specs = [k \in DOMAIN @ |-> RewrittenDir(p, d, i, k)]]
Rewritten(p, d) == [p EXCEPT !.matrices = [i \in DOMAIN @ |-> RewrittenMatrix(p, d, i)]]

Wanted(p, d) == UNION {FileAt(p, w).imports \cup FileAt(p, w).uses : w \in d.at}

Mended(p, d) ==
  CASE d.code = "E0900" /\ p.config # "ok" -> [p EXCEPT !.config = "ok"]
    [] d.code = "E0900" /\ p.config = "ok" -> Synced(p, {})
    [] d.code \in {"E0201", "E0401"} -> Synced(Rewritten(p, d), Wanted(p, d))
    [] OTHER -> Rewritten(p, d)

Mend ==
  /\ result # None
  /\ \E d \in Errors(result) : project' = Mended(project, d)
  /\ result' = None

Next == Run \/ Mend
Spec == Init /\ [][Next]_vars /\ WF_vars(Next)

-----------------------------------------------------------------------------
(* Properties *)

Clean == result # None /\ ExitCode(result) = 0

\* What is an error in a matrix: a prefix is off only against those the matrix
\* declares.
FaultyIn(p, i) == ErrorFaults \ (IF Declares(p, Discovered(p, i)) THEN {} ELSE {"prefix"})

\* A clean run has looked at all that the build would ship: no file of any
\* matrix has a fault the validation knows, and what the files import and use
\* is in the lockfile.
CleanMeansChecked ==
  Clean /\ AllRead(project) =>
    \A i \in DOMAIN project.matrices : \A w \in Discovered(project, i) :
      LET f == FileAt(project, w) IN
      f.faults \cap FaultyIn(project, i) = {} /\ f.imports \cup f.uses \subseteq project.lock

\* A project whose run is clean and warns of no missing directory builds, and
\* its manifest names a namespace, if its script:// refs are in its matrices'
\* "spec" directories.
CleanBuilds ==
  Clean /\ AllRead(project) /\ Finding("W0001", {}) \notin result.findings
    /\ (\A i \in DOMAIN project.matrices :
          /\ Discovered(project, i) # {}
          /\ \A w \in Discovered(project, i) :
               FileAt(project, w).scripts => project.matrices[i].specs[w[2]].main)
  => /\ \A i \in DOMAIN project.matrices : Starts(project, i) /\ Finishes(project, i)
     /\ Named(project) # {}

\* An author who mends what each run reports comes to a clean run: no finding
\* stays whatever is done about it, and none comes back.
FixesConverge == <>Clean

\* What is amiss in a project: its poliglot.yml, packages that are not locked and
\* in the cache, faults in files.
Loose(p) == {q \in Package : ~(p.lock # None /\ q \in p.lock /\ p.cache # None /\ p.cache[q] = "whole")}
Faulty(p) ==
  UNION {{<<w, f>> : f \in FileAt(p, w).faults} : w \in UNION {Discovered(p, i) : i \in DOMAIN p.matrices}}
Amiss(p) ==
  [config |-> IF p.config = "ok" THEN {} ELSE {"poliglot.yml"}, packages |-> Loose(p), faults |-> Faulty(p)]

\* Mending what is reported mends something and spoils nothing.
MendsHelp ==
  [][Mend => /\ \A part \in {"config", "packages", "faults"} : Amiss(project')[part] \subseteq Amiss(project)[part]
             /\ Amiss(project') # Amiss(project)]_vars
=============================================================================
