---------------------------- MODULE Authoring_proofs ----------------------------
(***************************************************************************)
(* Proofs about Authoring, for all packages and all projects an author may *)
(* begin with.                                                             *)
(***************************************************************************)
EXTENDS Authoring, FiniteSetTheorems, TLAPS

-----------------------------------------------------------------------------
(* Numbers *)

\* A set of numbers that is not empty has a least one.
LEMMA LeastNumber ==
  ASSUME NEW t, t \subseteq Nat, t # {}
  PROVE  \E i \in t : \A j \in t : i <= j
<1> DEFINE family == {u \in SUBSET t : u # {} /\ \E n \in Nat : u = t \cap (0..n)}
<1>1. family # {}
  <2>1. PICK n \in t : TRUE
    OBVIOUS
  <2>2. t \cap (0..n) \in family
    BY <2>1
  <2> QED
    BY <2>2
<1>2. family \subseteq FiniteSubsetsOf(t)
  <2> SUFFICES ASSUME NEW n \in Nat PROVE IsFiniteSet(t \cap (0..n))
    BY DEF FiniteSubsetsOf
  <2>1. IsFiniteSet(0..n)
    BY FS_Interval
  <2> QED
    BY <2>1, FS_Subset
<1>3. PICK u \in family : \A w \in family : <<w, u>> \notin StrictSubsetOrdering(t)
  <2> HIDE DEF family
  <2> QED
    BY <1>1, <1>2, FS_StrictSubsetOrderingWellFounded, WFMin, Zenon
<1>4. \A j \in u : t \cap (0..j) = u
  <2> SUFFICES ASSUME NEW j \in u PROVE t \cap (0..j) = u
    OBVIOUS
  <2>1. t \cap (0..j) \in family /\ t \cap (0..j) \subseteq u
    OBVIOUS
  <2> QED
    BY <1>3, <2>1 DEF StrictSubsetOrdering
<1>5. PICK i \in u : TRUE
  OBVIOUS
<1>6. \A j \in t : i <= j
  <2> SUFFICES ASSUME NEW j \in t, ~(i <= j) PROVE FALSE
    OBVIOUS
  <2>1. j \in u
    BY <1>4, <1>5
  <2> QED
    BY <1>4, <1>5, <2>1
<1> QED
  BY <1>5, <1>6

-----------------------------------------------------------------------------
(* Findings *)

\* None of these findings is an error.
Harmless(ds) == \A d \in ds : ~IsError(d)

\* What would be reported file by file, or once for all files, is not there.
LEMMA EachSeen ==
  ASSUME NEW p, NEW ws, NEW fs, Harmless(EachOf(p, ws, fs)),
         NEW f \in fs, CodeOf[f] \notin Warnings, NEW w \in ws
  PROVE  f \notin FileAt(p, w).faults
<1> SUFFICES ASSUME f \in FileAt(p, w).faults PROVE FALSE
  OBVIOUS
<1>1. Finding(CodeOf[f], {w}) \in EachOf(p, ws, fs)
  <2>1. w \in WithFault(p, ws, f)
    BY DEF WithFault
  <2>2. Finding(CodeOf[f], {w}) \in {Finding(CodeOf[f], {v}) : v \in WithFault(p, ws, f)}
    BY <2>1
  <2> QED
    BY <2>2, Zenon DEF EachOf
<1> QED
  BY <1>1 DEF Harmless, IsError, Finding

LEMMA OnceSeen ==
  ASSUME NEW p, NEW ws, NEW fs, Harmless(OnceOf(p, ws, fs)),
         NEW f \in fs, CodeOf[f] \notin Warnings, NEW w \in ws
  PROVE  f \notin FileAt(p, w).faults
<1> SUFFICES ASSUME f \in FileAt(p, w).faults PROVE FALSE
  OBVIOUS
<1>1. Finding(CodeOf[f], WithFault(p, ws, f)) \in OnceOf(p, ws, fs)
  BY DEF OnceOf, WithFault
<1> QED
  BY <1>1 DEF Harmless, IsError, Finding

-----------------------------------------------------------------------------
(* A project that validates clean *)

\* The files of a project, as validation and the build find them.
LEMMA FileParts ==
  ASSUME NEW p \in Project, NEW i \in DOMAIN p.matrices, NEW w \in Discovered(p, i)
  PROVE  \E k \in DOMAIN p.matrices[i].specs :
           /\ p.matrices[i].dir /\ p.matrices[i].specs[k].there
           /\ \E n \in DOMAIN p.matrices[i].specs[k].files : w = <<i, k, n>>
BY DEF Discovered

LEMMA FileIsFile ==
  ASSUME NEW p \in Project, NEW i \in DOMAIN p.matrices, NEW w \in Discovered(p, i)
  PROVE  FileAt(p, w) \in SourceFile
<1>1. PICK k \in DOMAIN p.matrices[i].specs :
        \E n \in DOMAIN p.matrices[i].specs[k].files : w = <<i, k, n>>
  BY FileParts
<1>2. PICK n \in DOMAIN p.matrices[i].specs[k].files : w = <<i, k, n>>
  BY <1>1
<1>3. p.matrices \in Seq(Matrix)
  BY DEF Project
<1>4. p.matrices[i] \in Matrix
  BY <1>3
<1>5. p.matrices[i].specs \in Seq(SpecDir)
  BY <1>4 DEF Matrix
<1>6. p.matrices[i].specs[k] \in SpecDir
  BY <1>5
<1>7. p.matrices[i].specs[k].files \in Seq(SourceFile)
  BY <1>6 DEF SpecDir
<1>8. p.matrices[i].specs[k].files[n] \in SourceFile
  BY <1>7
<1> QED
  BY <1>2, <1>8 DEF FileAt

\* The one spec directory there is, is the one read.
LEMMA SpecIsOnly ==
  ASSUME NEW p \in Project, PackageAssumption, AllRead(p),
         NEW i \in DOMAIN p.matrices, NEW k \in DOMAIN p.matrices[i].specs, p.matrices[i].specs[k].there
  PROVE  SpecOf(p.matrices[i]) = k /\ k # None
<1> DEFINE there == {j \in DOMAIN p.matrices[i].specs : p.matrices[i].specs[j].there}
<1>1. p.matrices[i].specs \in Seq(SpecDir)
  <2>1. p.matrices \in Seq(Matrix)
    BY DEF Project
  <2>2. p.matrices[i] \in Matrix
    BY <2>1
  <2> QED
    BY <2>2 DEF Matrix
<1>2. DOMAIN p.matrices[i].specs = 1..Len(p.matrices[i].specs) /\ Len(p.matrices[i].specs) \in Nat
  BY <1>1
<1>3. IsFiniteSet(there)
  <2>1. IsFiniteSet(1..Len(p.matrices[i].specs))
    <3>1. 1 \in Int /\ Len(p.matrices[i].specs) \in Int
      BY <1>2
    <3> QED
      BY <3>1, FS_Interval
  <2>2. there \subseteq 1..Len(p.matrices[i].specs)
    BY <1>2
  <2> QED
    BY <2>1, <2>2, FS_Subset
<1>4. Cardinality(there) = 1
  BY DEF AllRead
<1>5. there = {k}
  BY <1>3, <1>4, FS_Singleton
<1>6. k \in Nat
  BY <1>2
<1>7. SpecOf(p.matrices[i]) = k
  BY <1>5, <1>6 DEF SpecOf
<1> QED
  BY <1>6, <1>7 DEF PackageAssumption

\* Every file the build ships is one validation lists.
LEMMA AllListed ==
  ASSUME NEW p \in Project, PackageAssumption, AllRead(p),
         NEW i \in DOMAIN p.matrices, NEW w \in Discovered(p, i)
  PROVE  i \in Located(p) /\ w \in Listed(p, i)
<1>1. PICK k \in DOMAIN p.matrices[i].specs :
           /\ p.matrices[i].dir /\ p.matrices[i].specs[k].there
           /\ \E n \in DOMAIN p.matrices[i].specs[k].files : w = <<i, k, n>>
  BY FileParts
<1>2. PICK n \in DOMAIN p.matrices[i].specs[k].files : w = <<i, k, n>>
  BY <1>1
<1>3. SpecOf(p.matrices[i]) = k /\ k # None
  BY <1>1, SpecIsOnly
<1>4. p.matrices[i].specs[k].files[n].ttl
  BY <1>2 DEF AllRead, FileAt
<1> QED
  BY <1>1, <1>2, <1>3, <1>4 DEF Located, Listed

\* The run halts at a matrix with a reference it cannot resolve.
LEMMA HaltIsHalting ==
  ASSUME NEW p \in Project, Halting(p) # {}
  PROVE  Halt(p) \in Halting(p) /\ Halt(p) \in Nat
<1>1. Halting(p) \subseteq Nat
  <2>1. DOMAIN p.matrices \subseteq Nat
    <3>1. p.matrices \in Seq(Matrix)
      BY DEF Project
    <3> QED
      BY <3>1
  <2> QED
    BY <2>1 DEF Halting, Located
<1>2. \E i \in Halting(p) : \A j \in Halting(p) : i <= j
  BY <1>1, LeastNumber
<1> QED
  BY <1>1, <1>2 DEF Halt

\* The findings of a run that comes to an end, and whether it got there.
Early(p) == Absent(p) \cup UNION {ParseFindings(p, i) : i \in ReachedMatrices(p)}

\* A run without errors goes all the way.
LEMMA CleanGoesAllTheWay ==
  ASSUME NEW p \in Project, PackageAssumption, AllRead(p), Harmless(Validate(p).findings)
  PROVE  /\ p.lock # None /\ Halting(p) = {} /\ ReachedMatrices(p) = Located(p)
         /\ Harmless(Early(p) \cup GraphFindings(p))
         /\ \A i \in DOMAIN p.matrices : Discovered(p, i) \subseteq ParsedIn(p, i) \cap Parsed(p)
<1>1. p.config = "ok" /\ p.lock # None
  <2> SUFFICES ASSUME p.config = "absent" \/ p.lock = None \/ p.config = "bad" PROVE FALSE
    BY DEF Project
  <2>1. Finding("E0900", {}) \in Validate(p).findings
    BY DEF Validate, Stopped
  <2> QED
    BY <2>1 DEF Harmless, IsError, Finding, Warnings
<1>2. PICK m \in DOMAIN p.matrices : \E w \in Discovered(p, m) : FileAt(p, w).matrix
  BY DEF AllRead, Named, Declares
<1>3. m \in Located(p)
  BY <1>2, AllListed
<1>4. Halt(p) = None
  <2> SUFFICES ASSUME Halt(p) # None PROVE FALSE
    OBVIOUS
  <2>1. Finding("E0800", WithFault(p, ParsedIn(p, Halt(p)), "script")) \in Validate(p).findings
    BY <1>1, <1>3 DEF Validate, Stopped
  <2> QED
    BY <2>1 DEF Harmless, IsError, Finding, Warnings
<1>5. Halting(p) = {}
  BY <1>4, HaltIsHalting DEF PackageAssumption
<1>6. ReachedMatrices(p) = Located(p)
  BY <1>4 DEF ReachedMatrices
<1>7. Validate(p) = (IF Parsed(p) = {} THEN Stopped(Early(p))
                     ELSE [findings |-> Early(p) \cup GraphFindings(p), assembled |-> TRUE])
  BY <1>1, <1>3, <1>4 DEF Validate, Early
<1>8. Harmless(Early(p))
  BY <1>7 DEF Harmless, Stopped
<1>9. \A i \in DOMAIN p.matrices : Discovered(p, i) \subseteq ParsedIn(p, i) \cap Parsed(p)
  <2> SUFFICES ASSUME NEW i \in DOMAIN p.matrices
               PROVE  Discovered(p, i) \subseteq ParsedIn(p, i) \cap Parsed(p)
    OBVIOUS
  <2>1. CASE i \in Located(p)
    <3>1. EachOf(p, Listed(p, i), {"syntax"}) \subseteq Early(p)
      BY <1>6, <2>1 DEF Early, ParseFindings
    <3>2. Harmless(EachOf(p, Listed(p, i), {"syntax"}))
      BY <1>8, <3>1 DEF Harmless
    <3>3. CodeOf["syntax"] \notin Warnings
      BY DEF CodeOf, Warnings
    <3>4. \A w \in Listed(p, i) : "syntax" \notin FileAt(p, w).faults
      BY <3>2, <3>3, EachSeen
    <3>5. Discovered(p, i) \subseteq ParsedIn(p, i)
      BY <3>4, AllListed DEF ParsedIn, Parses
    <3>6. ParsedIn(p, i) \subseteq Parsed(p)
      BY <1>6, <2>1 DEF Parsed
    <3> QED
      BY <3>5, <3>6
  <2>2. CASE i \notin Located(p)
    BY <2>2, AllListed
  <2> QED
    BY <2>1, <2>2
<1>10. Parsed(p) # {}
  BY <1>2, <1>9
<1>11. Harmless(Early(p) \cup GraphFindings(p))
  BY <1>7, <1>10
<1> QED
  BY <1>1, <1>5, <1>6, <1>9, <1>11

\* A clean run has seen every file and every fault in it.
LEMMA CleanIsChecked ==
  ASSUME NEW p \in Project, PackageAssumption, AllRead(p), Harmless(Validate(p).findings),
         NEW i \in DOMAIN p.matrices, NEW w \in Discovered(p, i)
  PROVE  /\ FileAt(p, w).faults \cap FaultyIn(p, i) = {}
         /\ FileAt(p, w).imports \cup FileAt(p, w).uses \subseteq p.lock
<1>1. /\ p.lock # None /\ Halting(p) = {} /\ ReachedMatrices(p) = Located(p)
      /\ Harmless(Early(p) \cup GraphFindings(p))
      /\ \A j \in DOMAIN p.matrices : Discovered(p, j) \subseteq ParsedIn(p, j) \cap Parsed(p)
  BY CleanGoesAllTheWay
<1>2. i \in Located(p) /\ w \in Listed(p, i) /\ w \in ParsedIn(p, i) /\ w \in Parsed(p)
  BY <1>1, AllListed
<1> DEFINE free(f) == f \notin FileAt(p, w).faults
<1>3. /\ Harmless(SparqlFindings(p, i)) /\ Harmless(JsonFindings(p, i)) /\ Harmless(PrefixFindings(p, i))
      /\ Harmless(ImportFindings(p)) /\ Harmless(NamespaceFindings(p)) /\ Harmless(ShaclFindings(p))
      /\ Harmless(TermFindings(p)) /\ Harmless(CallFindings(p)) /\ Harmless(DeclarationFindings(p))
  <2>1. ParseFindings(p, i) \subseteq Early(p)
    BY <1>1, <1>2 DEF Early
  <2> QED
    BY <1>1, <2>1 DEF Harmless, ParseFindings, GraphFindings
<1>4. \A f \in Fault : f \in ErrorFaults => CodeOf[f] \notin Warnings
  BY DEF ErrorFaults
<1>5. free("syntax")
  BY <1>2 DEF ParsedIn, Parses
<1>6. free("script")
  BY <1>1, <1>2 DEF Halting, WithFault
<1>7. free("sparql") /\ free("json") /\ free("unbound")
  BY <1>2, <1>3, EachSeen DEF SparqlFindings, JsonFindings, CodeOf, Warnings
<1>8. "prefix" \in FaultyIn(p, i) => free("prefix")
  <2>1. Declares(p, Discovered(p, i)) => Declares(p, ParsedIn(p, i))
    BY <1>1 DEF Declares
  <2> QED
    BY <1>2, <1>3, <2>1, EachSeen DEF FaultyIn, PrefixFindings, CodeOf, Warnings
<1>9. Declares(p, Parsed(p))
  BY <1>1 DEF AllRead, Named, Declares
<1>10. free("outside")
  BY <1>2, <1>3, <1>9, EachSeen DEF NamespaceFindings, CodeOf, Warnings
<1>11. free("crash") /\ free("shape")
  <2>1. WithFault(p, Parsed(p), "crash") = {}
    <3> SUFFICES ASSUME WithFault(p, Parsed(p), "crash") # {} PROVE FALSE
      OBVIOUS
    <3>1. Finding("E0500", WithFault(p, Parsed(p), "crash")) \in ShaclFindings(p)
      BY DEF ShaclFindings
    <3> QED
      BY <1>3, <3>1 DEF Harmless, IsError, Finding, Warnings
  <2>2. HasShapes(p)
    BY DEF HasShapes, Merged, AllRead
  <2>3. EachOf(p, Focus(p), {"shape"}) \subseteq ShaclFindings(p)
    BY <2>1, <2>2 DEF ShaclFindings
  <2>4. free("shape")
    BY <1>2, <1>3, <1>9, <2>3, EachSeen DEF Harmless, Focus, CodeOf, Warnings
  <2> QED
    BY <1>2, <2>1, <2>4 DEF WithFault
<1>12. free("predicate") /\ free("class") /\ free("name")
  <2>1. Harmless(OnceOf(p, Parsed(p), {"predicate", "class", "name"}))
    BY <1>3 DEF TermFindings, Harmless
  <2> QED
    BY <1>2, <2>1, OnceSeen DEF CodeOf, Warnings
<1>13. free("call") /\ free("arity")
  <2>1. Harmless(OnceOf(p, Parsed(p), {"call"})) /\ Harmless(EachOf(p, Parsed(p), {"arity"}))
    BY <1>3 DEF CallFindings, Harmless
  <2> QED
    BY <1>2, <2>1, OnceSeen, EachSeen DEF CodeOf, Warnings
<1>14. free("variable") /\ free("secret")
  <2>1. Harmless(EachOf(p, Parsed(p), {"variable", "secret"}))
    BY <1>3 DEF DeclarationFindings, Harmless
  <2> QED
    BY <1>2, <2>1, EachSeen DEF CodeOf, Warnings
<1>15. ErrorFaults \subseteq {"syntax", "sparql", "json", "unbound", "script", "prefix", "outside", "crash",
                             "shape", "predicate", "class", "name", "call", "arity", "variable", "secret"}
  BY DEF ErrorFaults, Fault, CodeOf, Warnings
<1>16. FileAt(p, w).faults \cap FaultyIn(p, i) = {}
  <2>1. FaultyIn(p, i) \subseteq ErrorFaults
    BY DEF FaultyIn
  <2> QED
    BY <1>5, <1>6, <1>7, <1>8, <1>10, <1>11, <1>12, <1>13, <1>14, <1>15, <2>1
<1>17. FileAt(p, w).imports \subseteq p.lock
  <2> SUFFICES ASSUME ~(FileAt(p, w).imports \subseteq p.lock) PROVE FALSE
    OBVIOUS
  <2>1. Finding("E0401", {w}) \in ImportFindings(p)
    BY <1>2 DEF ImportFindings, AllRead
  <2> QED
    BY <1>3, <2>1 DEF Harmless, IsError, Finding, Warnings
<1>18. FileAt(p, w).uses \subseteq p.lock
  <2> SUFFICES ASSUME NEW q \in FileAt(p, w).uses PROVE q \in p.lock
    OBVIOUS
  <2>1. q \in Package
    BY FileIsFile DEF SourceFile
  <2>2. UnknownUses(p, q) = {}
    <3> SUFFICES ASSUME UnknownUses(p, q) # {} PROVE FALSE
      OBVIOUS
    <3>1. Finding("E0201", UnknownUses(p, q)) \in TermFindings(p)
      BY <2>1 DEF TermFindings
    <3> QED
      BY <1>3, <3>1 DEF Harmless, IsError, Finding, Warnings
  <2>3. q \in Merged(p)
    BY <1>2, <2>2 DEF UnknownUses
  <2> QED
    BY <2>3 DEF Merged
<1> QED
  BY <1>16, <1>17, <1>18

-----------------------------------------------------------------------------
(* The loop *)

\* A finding is about the project as it is: Mend takes it away.
AuthoringInv == project \in Project /\ (result # None => result = Validate(project))

\* A function on the positions of a sequence is a sequence.
LEMMA IsSequence ==
  ASSUME NEW s, NEW n \in Nat, NEW f \in [1..n -> s]
  PROVE  f \in Seq(s)
OBVIOUS

LEMMA SyncedIsProject ==
  ASSUME NEW p \in Project, NEW more \in SUBSET Package, PackageAssumption
  PROVE  Synced(p, more) \in Project
<1> DEFINE lock == (IF p.lock = None THEN {Engine} ELSE p.lock) \cup more
           cache == [q \in Package |-> IF q \in lock THEN "whole" ELSE
                                       IF p.cache = None THEN "absent" ELSE p.cache[q]]
<1>1. lock \in SUBSET Package
  BY DEF Project, PackageAssumption
<1>2. cache \in [Package -> CacheState]
  <2>1. p.cache = None \/ p.cache \in [Package -> CacheState]
    BY DEF Project
  <2> QED
    BY <2>1 DEF CacheState
<1>3. Synced(p, more) = [p EXCEPT !.lock = lock, !.cache = cache]
  BY DEF Synced
<1> HIDE DEF lock, cache
<1> QED
  BY <1>1, <1>2, <1>3 DEF Project

LEMMA RewrittenIsProject ==
  ASSUME NEW p \in Project, NEW d
  PROVE  Rewritten(p, d) \in Project
<1>1. p.matrices \in Seq(Matrix)
  BY DEF Project
<1>2. ASSUME NEW i \in DOMAIN p.matrices PROVE RewrittenMatrix(p, d, i) \in Matrix
  <2>1. p.matrices[i] \in Matrix
    BY <1>1
  <2>2. p.matrices[i].specs \in Seq(SpecDir)
    BY <2>1 DEF Matrix
  <2>3. ASSUME NEW k \in DOMAIN p.matrices[i].specs PROVE RewrittenDir(p, d, i, k) \in SpecDir
    <3>1. p.matrices[i].specs[k] \in SpecDir
      BY <2>2
    <3>2. p.matrices[i].specs[k].files \in Seq(SourceFile)
      BY <3>1 DEF SpecDir
    <3>3. ASSUME NEW n \in DOMAIN p.matrices[i].specs[k].files
          PROVE  RewrittenFile(p, d, <<i, k, n>>) \in SourceFile
      <4>1. p.matrices[i].specs[k].files[n] \in SourceFile
        BY <3>2
      <4> QED
        BY <4>1 DEF RewrittenFile, FileAt, SourceFile
    <3> DEFINE files == [n \in DOMAIN p.matrices[i].specs[k].files |-> RewrittenFile(p, d, <<i, k, n>>)]
    <3>4. files \in Seq(SourceFile)
      <4>1. DOMAIN p.matrices[i].specs[k].files = 1..Len(p.matrices[i].specs[k].files)
            /\ Len(p.matrices[i].specs[k].files) \in Nat
        BY <3>2
      <4>2. files \in [1..Len(p.matrices[i].specs[k].files) -> SourceFile]
        BY <3>3, <4>1
      <4> QED
        BY <4>1, <4>2, IsSequence
    <3>5. RewrittenDir(p, d, i, k) = [p.matrices[i].specs[k] EXCEPT !.files = files]
      BY DEF RewrittenDir
    <3> HIDE DEF files
    <3> QED
      BY <3>1, <3>4, <3>5 DEF SpecDir
  <2> DEFINE specs == [k \in DOMAIN p.matrices[i].specs |-> RewrittenDir(p, d, i, k)]
  <2>4. specs \in Seq(SpecDir)
    <3>1. DOMAIN p.matrices[i].specs = 1..Len(p.matrices[i].specs) /\ Len(p.matrices[i].specs) \in Nat
      BY <2>2
    <3>2. specs \in [1..Len(p.matrices[i].specs) -> SpecDir]
      BY <2>3, <3>1
    <3> QED
      BY <3>1, <3>2, IsSequence
  <2>5. RewrittenMatrix(p, d, i) = [p.matrices[i] EXCEPT !.specs = specs]
    BY DEF RewrittenMatrix
  <2> HIDE DEF specs
  <2> QED
    BY <2>1, <2>4, <2>5 DEF Matrix
<1> DEFINE matrices == [i \in DOMAIN p.matrices |-> RewrittenMatrix(p, d, i)]
<1>3. matrices \in Seq(Matrix)
  <2>1. DOMAIN p.matrices = 1..Len(p.matrices) /\ Len(p.matrices) \in Nat
    BY <1>1
  <2>2. matrices \in [1..Len(p.matrices) -> Matrix]
    BY <1>2, <2>1
  <2> QED
    BY <2>1, <2>2, IsSequence
<1>4. Rewritten(p, d) = [p EXCEPT !.matrices = matrices]
  BY DEF Rewritten
<1> HIDE DEF matrices
<1> QED
  BY <1>3, <1>4 DEF Project

\* A finding points at files of the project.
Local(p) == UNION {Listed(p, i) : i \in Located(p)}
PointsIn(ds, ws) == \A d \in ds : d.at \subseteq ws

LEMMA EachPoints ==
  ASSUME NEW p, NEW ws, NEW fs
  PROVE  PointsIn(EachOf(p, ws, fs), ws)
BY DEF PointsIn, EachOf, WithFault, Finding

LEMMA OncePoints ==
  ASSUME NEW p, NEW ws, NEW fs
  PROVE  PointsIn(OnceOf(p, ws, fs), ws)
BY DEF PointsIn, OnceOf, WithFault, Finding

LEMMA FindingsPoint ==
  ASSUME NEW p \in Project
  PROVE  PointsIn(Validate(p).findings, Local(p))
<1>1. \A i \in Located(p) : ParsedIn(p, i) \subseteq Listed(p, i) /\ Listed(p, i) \subseteq Local(p)
  BY DEF ParsedIn, Local
<1>2. Parsed(p) \subseteq Local(p) /\ ReachedMatrices(p) \subseteq Located(p)
  BY <1>1 DEF Parsed, ReachedMatrices
<1>3. PointsIn(Absent(p), {})
  BY DEF PointsIn, Absent, Finding
<1>4. \A i \in Located(p) : PointsIn(ParseFindings(p, i), Local(p))
  <2> SUFFICES ASSUME NEW i \in Located(p) PROVE PointsIn(ParseFindings(p, i), Local(p))
    OBVIOUS
  <2>1. PointsIn(EachOf(p, Listed(p, i), {"syntax"}), Local(p))
    BY <1>1, EachPoints DEF PointsIn
  <2>2. PointsIn(SparqlFindings(p, i), Local(p))
    BY <1>1, EachPoints DEF PointsIn, SparqlFindings
  <2>3. PointsIn(JsonFindings(p, i), Local(p))
    BY <1>1, EachPoints DEF PointsIn, JsonFindings
  <2>4. PointsIn(PrefixFindings(p, i), Local(p))
    BY <1>1, EachPoints DEF PointsIn, PrefixFindings
  <2> QED
    BY <2>1, <2>2, <2>3, <2>4 DEF PointsIn, ParseFindings
<1>5. PointsIn(Early(p), Local(p))
  BY <1>2, <1>3, <1>4 DEF PointsIn, Early
<1>6. PointsIn(GraphFindings(p), Local(p))
  <2>1. PointsIn(ImportFindings(p), Parsed(p))
    BY DEF PointsIn, ImportFindings, Finding
  <2>2. PointsIn(NamespaceFindings(p), Parsed(p))
    BY EachPoints DEF PointsIn, NamespaceFindings
  <2>3. PointsIn(AssemblyFindings(p), Parsed(p))
    BY DEF PointsIn, AssemblyFindings, Finding
  <2>4. PointsIn(ShaclFindings(p), Parsed(p))
    <3>1. Focus(p) \subseteq Parsed(p)
      BY DEF Focus
    <3>2. PointsIn(NativeFindings(p), Parsed(p))
      BY <3>1, EachPoints DEF PointsIn, NativeFindings
    <3>3. PointsIn(EachOf(p, Focus(p), {"shape"}), Parsed(p))
      BY <3>1, EachPoints DEF PointsIn
    <3>4. PointsIn({Finding("E0500", WithFault(p, Parsed(p), "crash"))}, Parsed(p))
      BY DEF PointsIn, WithFault, Finding
    <3> QED
      BY <3>2, <3>3, <3>4 DEF PointsIn, ShaclFindings
  <2>5. PointsIn(TermFindings(p), Parsed(p))
    <3>1. PointsIn({Finding("E0201", UnknownUses(p, q)) : q \in {r \in Package : UnknownUses(p, r) # {}}},
                   Parsed(p))
      BY DEF PointsIn, UnknownUses, Finding
    <3> QED
      BY <3>1, OncePoints DEF PointsIn, TermFindings
  <2>6. PointsIn(CallFindings(p), Parsed(p))
    BY EachPoints, OncePoints DEF PointsIn, CallFindings
  <2>7. PointsIn(DeclarationFindings(p), Parsed(p))
    BY EachPoints, OncePoints DEF PointsIn, DeclarationFindings
  <2> QED
    BY <1>2, <2>1, <2>2, <2>3, <2>4, <2>5, <2>6, <2>7 DEF PointsIn, GraphFindings
<1>7. \A code : PointsIn({Finding(code, {})}, Local(p))
  BY DEF PointsIn, Finding
<1>8. Halt(p) # None => PointsIn({Finding("E0800", WithFault(p, ParsedIn(p, Halt(p)), "script"))}, Local(p))
  <2> SUFFICES ASSUME Halt(p) # None
               PROVE  WithFault(p, ParsedIn(p, Halt(p)), "script") \subseteq Local(p)
    BY DEF PointsIn, Finding
  <2> QED
    BY <1>1, HaltIsHalting DEF Halt, Halting, WithFault
<1> QED
  BY <1>3, <1>5, <1>6, <1>7, <1>8 DEF Validate, Stopped, Early, PointsIn

\* What validation lists, the build ships.
LEMMA ListedIsShipped ==
  ASSUME NEW p \in Project, NEW i \in Located(p)
  PROVE  i \in DOMAIN p.matrices /\ Listed(p, i) \subseteq Discovered(p, i)
<1> DEFINE there == {k \in DOMAIN p.matrices[i].specs : p.matrices[i].specs[k].there}
<1>1. i \in DOMAIN p.matrices /\ p.matrices[i].dir /\ there # {}
  BY DEF Located, SpecOf
<1>2. there \subseteq Nat
  <2>1. p.matrices \in Seq(Matrix)
    BY DEF Project
  <2>2. p.matrices[i] \in Matrix
    BY <1>1, <2>1
  <2>3. p.matrices[i].specs \in Seq(SpecDir)
    BY <2>2 DEF Matrix
  <2> QED
    BY <2>3
<1>3. \E k \in there : \A j \in there : k <= j
  BY <1>1, <1>2, LeastNumber
<1>4. SpecOf(p.matrices[i]) \in there
  BY <1>1, <1>3 DEF SpecOf
<1> QED
  BY <1>1, <1>4 DEF Listed, Discovered

LEMMA WantedIsPackages ==
  ASSUME NEW p \in Project, NEW d \in Validate(p).findings
  PROVE  Wanted(p, d) \in SUBSET Package
<1>1. \A w \in d.at : FileAt(p, w) \in SourceFile
  <2> SUFFICES ASSUME NEW w \in d.at PROVE FileAt(p, w) \in SourceFile
    OBVIOUS
  <2>1. PICK i \in Located(p) : w \in Listed(p, i)
    BY FindingsPoint DEF PointsIn, Local
  <2> QED
    BY <2>1, ListedIsShipped, FileIsFile
<1> QED
  BY <1>1 DEF Wanted, SourceFile

LEMMA MendedIsProject ==
  ASSUME NEW p \in Project, NEW d \in Validate(p).findings, PackageAssumption
  PROVE  Mended(p, d) \in Project
<1>1. CASE d.code = "E0900" /\ p.config # "ok"
  BY <1>1 DEF Mended, Project
<1>2. CASE d.code = "E0900" /\ p.config = "ok"
  BY <1>2, SyncedIsProject DEF Mended
<1>3. CASE d.code \in {"E0201", "E0401"}
  <2>1. Mended(p, d) = Synced(Rewritten(p, d), Wanted(p, d))
    BY <1>3 DEF Mended
  <2> QED
    BY <2>1, SyncedIsProject, RewrittenIsProject, WantedIsPackages
<1>4. CASE d.code \notin {"E0900", "E0201", "E0401"}
  BY <1>4, RewrittenIsProject DEF Mended
<1> QED
  BY <1>1, <1>2, <1>3, <1>4

LEMMA InitAuthoring ==
  ASSUME Init, BeginningAssumption
  PROVE  AuthoringInv
BY DEF Init, BeginningAssumption, AuthoringInv

LEMMA StepAuthoring ==
  ASSUME AuthoringInv, [Next]_vars, PackageAssumption
  PROVE  AuthoringInv'
<1>1. CASE Run
  BY <1>1 DEF Run, AuthoringInv
<1>2. CASE Mend
  <2>1. PICK d \in Errors(result) : project' = Mended(project, d)
    BY <1>2 DEF Mend
  <2>2. project \in Project /\ d \in Validate(project).findings
    BY <1>2, <2>1 DEF Mend, AuthoringInv, Errors
  <2> QED
    BY <1>2, <2>1, <2>2, MendedIsProject DEF Mend, AuthoringInv
<1>3. CASE UNCHANGED vars
  BY <1>3 DEF vars, AuthoringInv
<1> QED
  BY <1>1, <1>2, <1>3 DEF Next

LEMMA CleanPromises ==
  ASSUME AuthoringInv, PackageAssumption
  PROVE  CleanMeansChecked /\ CleanBuilds
<1> SUFFICES ASSUME Clean, AllRead(project) PROVE CleanMeansChecked /\ CleanBuilds
  BY DEF CleanMeansChecked, CleanBuilds
<1>1. project \in Project /\ Harmless(Validate(project).findings)
  BY DEF Clean, AuthoringInv, ExitCode, Errors, Harmless
<1>2. CleanMeansChecked
  BY <1>1, CleanIsChecked DEF CleanMeansChecked
<1>3. CleanBuilds
  <2> SUFFICES ASSUME NEW i \in DOMAIN project.matrices, Discovered(project, i) # {},
                      \A w \in Discovered(project, i) :
                        FileAt(project, w).scripts => project.matrices[i].specs[w[2]].main
               PROVE  Starts(project, i) /\ Finishes(project, i)
    BY DEF CleanBuilds, AllRead
  <2>1. "syntax" \in FaultyIn(project, i) /\ "script" \in FaultyIn(project, i)
    BY DEF FaultyIn, ErrorFaults, Fault, CodeOf, Warnings
  <2>2. \A w \in Discovered(project, i) :
          "syntax" \notin FileAt(project, w).faults /\ "script" \notin FileAt(project, w).faults
    BY <1>1, <2>1, CleanIsChecked
  <2>3. Valid(project, i) = Discovered(project, i)
    BY <2>2 DEF Valid, Parses
  <2> QED
    BY <2>2, <2>3 DEF Starts, Finishes, ScriptsResolve
<1> QED
  BY <1>2, <1>3

\* A project in work is one, and what the last run said of it is what another
\* would say (cmd/validate.py).
THEOREM AuthoringInvariant ==
  ASSUME PackageAssumption, BeginningAssumption
  PROVE  Spec => []AuthoringInv
<1>1. Init => AuthoringInv
  BY InitAuthoring
<1>2. AuthoringInv /\ [Next]_vars => AuthoringInv'
  BY StepAuthoring
<1> QED
  BY <1>1, <1>2, PTL DEF Spec

\* A clean run has looked at all that the build ships, and what it looked at
\* builds (validation_pipeline.validate_project, build_service.build_matrix).
THEOREM CleanIsTrue ==
  ASSUME PackageAssumption, BeginningAssumption
  PROVE  Spec => [](CleanMeansChecked /\ CleanBuilds)
<1>1. AuthoringInv => CleanMeansChecked /\ CleanBuilds
  BY CleanPromises
<1> QED
  BY <1>1, AuthoringInvariant, PTL

-----------------------------------------------------------------------------
(* What a finding is about *)

Shipped(p) == UNION {Discovered(p, i) : i \in DOMAIN p.matrices}

LEMMA LocalIsShipped ==
  ASSUME NEW p \in Project
  PROVE  Local(p) \subseteq Shipped(p)
BY ListedIsShipped DEF Local, Shipped

\* An error is about a fault in a file it points at, or a package that such a
\* file wants and is not at hand.
ByFault(p, d) ==
  \E w \in d.at \cap Shipped(p) : \E f \in FileAt(p, w).faults : CodeOf[f] = d.code /\ f \in Fault
ByPackage(p, d) == d.code \in {"E0201", "E0401"} /\ Wanted(p, d) \cap Loose(p) # {}
Caused(p, ds) == \A d \in ds : IsError(d) => ByFault(p, d) \/ ByPackage(p, d)

LEMMA EachCaused ==
  ASSUME NEW p, NEW ws, ws \subseteq Shipped(p), NEW fs, fs \subseteq Fault
  PROVE  Caused(p, EachOf(p, ws, fs))
<1> SUFFICES ASSUME NEW d \in EachOf(p, ws, fs) PROVE ByFault(p, d)
  BY DEF Caused
<1>1. PICK f \in fs : d \in {Finding(CodeOf[f], {v}) : v \in WithFault(p, ws, f)}
  BY DEF EachOf
<1>2. PICK w \in WithFault(p, ws, f) : d = Finding(CodeOf[f], {w})
  BY <1>1
<1>3. d.code = CodeOf[f] /\ w \in d.at /\ w \in Shipped(p) /\ f \in FileAt(p, w).faults
  BY <1>2 DEF Finding, WithFault
<1> QED
  BY <1>3 DEF ByFault

LEMMA OnceCaused ==
  ASSUME NEW p, NEW ws, ws \subseteq Shipped(p), NEW fs, fs \subseteq Fault
  PROVE  Caused(p, OnceOf(p, ws, fs))
<1> SUFFICES ASSUME NEW d \in OnceOf(p, ws, fs) PROVE ByFault(p, d)
  BY DEF Caused
<1>1. PICK f \in fs : WithFault(p, ws, f) # {} /\ d = Finding(CodeOf[f], WithFault(p, ws, f))
  BY DEF OnceOf
<1>2. PICK w \in WithFault(p, ws, f) : TRUE
  BY <1>1
<1>3. d.code = CodeOf[f] /\ w \in d.at /\ w \in Shipped(p) /\ f \in FileAt(p, w).faults
  BY <1>1, <1>2 DEF Finding, WithFault
<1> QED
  BY <1>3 DEF ByFault

\* One finding for a fault that some file has.
LEMMA OneCaused ==
  ASSUME NEW p, NEW ws, ws \subseteq Shipped(p), NEW f \in Fault, WithFault(p, ws, f) # {}
  PROVE  Caused(p, {Finding(CodeOf[f], WithFault(p, ws, f))})
<1>1. Finding(CodeOf[f], WithFault(p, ws, f)) \in OnceOf(p, ws, {f})
  BY DEF OnceOf
<1>2. Caused(p, OnceOf(p, ws, {f}))
  BY OnceCaused
<1> QED
  BY <1>1, <1>2 DEF Caused

LEMMA CodeOfFaults ==
  /\ Fault = {"syntax", "sparql", "json", "unbound", "define", "script", "prefix", "outside", "crash", "shape",
              "advice", "predicate", "class", "name", "call", "arity", "variable", "declared", "secret"}
  /\ CodeOf["script"] = "E0800" /\ CodeOf["crash"] = "E0500"
  /\ \A f \in Fault : CodeOf[f] # "E0900"
BY DEF Fault, CodeOf

\* A package a file wants and that is not both locked and cached.
LEMMA WantedIsLoose ==
  ASSUME NEW p, NEW d, NEW w \in d.at, NEW q \in FileAt(p, w).imports \cup FileAt(p, w).uses,
         q \in Package, q \notin Indexed(p) \cap p.lock \/ q \notin Merged(p),
         d.code \in {"E0201", "E0401"}
  PROVE  ByPackage(p, d)
<1>1. q \in Wanted(p, d)
  BY DEF Wanted
<1>2. q \in Loose(p)
  BY DEF Loose, Indexed, Merged
<1> QED
  BY <1>1, <1>2 DEF ByPackage

LEMMA ImportsCaused ==
  ASSUME NEW p \in Project, Parsed(p) \subseteq Shipped(p)
  PROVE  Caused(p, ImportFindings(p))
<1> SUFFICES ASSUME NEW d \in ImportFindings(p) PROVE ByPackage(p, d)
  BY DEF Caused
<1>1. PICK w \in Parsed(p) : d = Finding("E0401", {w}) /\ ~(FileAt(p, w).imports \subseteq Indexed(p) \cap p.lock)
  BY DEF ImportFindings
<1>2. PICK q \in FileAt(p, w).imports : q \notin Indexed(p) \cap p.lock
  BY <1>1
<1>3. FileAt(p, w) \in SourceFile
  BY FileIsFile DEF Shipped
<1>4. q \in Package
  BY <1>2, <1>3 DEF SourceFile
<1>5. d.code = "E0401" /\ w \in d.at
  BY <1>1 DEF Finding
<1> QED
  BY <1>2, <1>4, <1>5, WantedIsLoose

LEMMA UsesCaused ==
  ASSUME NEW p \in Project
  PROVE  Caused(p, {Finding("E0201", UnknownUses(p, q)) : q \in {r \in Package : UnknownUses(p, r) # {}}})
<1> SUFFICES ASSUME NEW q \in Package, UnknownUses(p, q) # {}
             PROVE  ByPackage(p, Finding("E0201", UnknownUses(p, q)))
  BY DEF Caused
<1> DEFINE d == Finding("E0201", UnknownUses(p, q))
<1>1. PICK w \in UnknownUses(p, q) : q \in FileAt(p, w).uses /\ q \notin Merged(p)
  BY DEF UnknownUses
<1>2. d.code = "E0201" /\ w \in d.at
  BY DEF Finding
<1> HIDE DEF d
<1>3. ByPackage(p, d)
  BY <1>1, <1>2, WantedIsLoose
<1> QED
  BY <1>3 DEF d

LEMMA GraphCaused ==
  ASSUME NEW p \in Project, Parsed(p) \subseteq Shipped(p)
  PROVE  Caused(p, GraphFindings(p))
<1>1. Focus(p) \subseteq Shipped(p)
  BY DEF Focus
<1>2. Caused(p, NamespaceFindings(p))
  BY EachCaused, CodeOfFaults DEF NamespaceFindings, Caused
<1>3. Caused(p, AssemblyFindings(p))
  BY DEF Caused, AssemblyFindings, Finding, IsError, Warnings
<1>4. Caused(p, ShaclFindings(p))
  <2>1. Caused(p, NativeFindings(p))
    BY <1>1, EachCaused, CodeOfFaults DEF NativeFindings, Caused
  <2>2. Caused(p, EachOf(p, Focus(p), {"shape"}))
    BY <1>1, EachCaused, CodeOfFaults
  <2>3. WithFault(p, Parsed(p), "crash") # {}
          => Caused(p, {Finding("E0500", WithFault(p, Parsed(p), "crash"))})
    BY OneCaused, CodeOfFaults
  <2> QED
    BY <2>1, <2>2, <2>3 DEF ShaclFindings, Caused
<1>5. Caused(p, TermFindings(p))
  <2>1. Caused(p, OnceOf(p, Parsed(p), {"predicate", "class", "name"}))
    BY OnceCaused, CodeOfFaults
  <2> QED
    BY <2>1, UsesCaused DEF TermFindings, Caused
<1>6. Caused(p, CallFindings(p))
  <2>1. Caused(p, OnceOf(p, Parsed(p), {"call"})) /\ Caused(p, EachOf(p, Parsed(p), {"arity"}))
    BY OnceCaused, EachCaused, CodeOfFaults
  <2> QED
    BY <2>1 DEF CallFindings, Caused
<1>7. Caused(p, DeclarationFindings(p))
  <2>1. Caused(p, EachOf(p, Parsed(p), {"variable", "secret"})) /\ Caused(p, OnceOf(p, Parsed(p), {"declared"}))
    BY OnceCaused, EachCaused, CodeOfFaults
  <2> QED
    BY <2>1 DEF DeclarationFindings, Caused
<1> QED
  BY <1>2, <1>3, <1>4, <1>5, <1>6, <1>7, ImportsCaused DEF GraphFindings, Caused

LEMMA MatrixCaused ==
  ASSUME NEW p \in Project, NEW i \in Located(p)
  PROVE  Caused(p, ParseFindings(p, i))
<1>1. Listed(p, i) \subseteq Shipped(p) /\ ParsedIn(p, i) \subseteq Shipped(p)
  BY LocalIsShipped DEF Local, ParsedIn
<1>2. Caused(p, EachOf(p, Listed(p, i), {"syntax"})) /\ Caused(p, SparqlFindings(p, i))
      /\ Caused(p, JsonFindings(p, i))
  BY <1>1, EachCaused, CodeOfFaults DEF SparqlFindings, JsonFindings
<1>3. Caused(p, PrefixFindings(p, i))
  BY <1>1, EachCaused, CodeOfFaults DEF PrefixFindings, Caused
<1> QED
  BY <1>2, <1>3 DEF ParseFindings, Caused

\* A run stops for want of a configuration or a lockfile, or tells of what is
\* wrong in the files.
LEMMA ErrorsHaveCauses ==
  ASSUME NEW p \in Project, NEW d \in Errors(Validate(p))
  PROVE  \/ d.code = "E0900" /\ (p.config # "ok" \/ p.lock = None)
         \/ ByFault(p, d) \/ ByPackage(p, d)
<1>1. d \in Validate(p).findings /\ IsError(d)
  BY DEF Errors
<1>2. CASE p.config = "absent" \/ p.lock = None \/ p.config = "bad"
  <2>1. d = Finding("E0900", {})
    BY <1>1, <1>2 DEF Validate, Stopped
  <2> QED
    BY <1>2, <2>1 DEF Finding
<1>3. CASE ~(p.config = "absent" \/ p.lock = None \/ p.config = "bad")
  <2>1. Parsed(p) \subseteq Shipped(p) /\ ReachedMatrices(p) \subseteq Located(p)
    BY LocalIsShipped DEF Local, Parsed, ParsedIn, ReachedMatrices
  <2>2. Caused(p, Absent(p)) /\ Caused(p, {Finding("W0001", {})})
    BY DEF Caused, Absent, Finding, IsError, Warnings
  <2>3. Caused(p, Early(p))
    BY <2>1, <2>2, MatrixCaused DEF Early, Caused
  <2>4. Halt(p) # None => Caused(p, {Finding("E0800", WithFault(p, ParsedIn(p, Halt(p)), "script"))})
    <3> SUFFICES ASSUME Halt(p) # None
                 PROVE  Caused(p, {Finding("E0800", WithFault(p, ParsedIn(p, Halt(p)), "script"))})
      OBVIOUS
    <3>1. Halt(p) \in Halting(p)
      BY HaltIsHalting DEF Halt
    <3>2. Halt(p) \in Located(p) /\ WithFault(p, ParsedIn(p, Halt(p)), "script") # {}
      BY <3>1 DEF Halting
    <3>3. ParsedIn(p, Halt(p)) \subseteq Shipped(p)
      BY <3>2, LocalIsShipped DEF Local, ParsedIn
    <3> QED
      BY <3>2, <3>3, OneCaused, CodeOfFaults
  <2>5. Caused(p, Validate(p).findings)
    BY <1>3, <2>1, <2>2, <2>3, <2>4, GraphCaused DEF Validate, Stopped, Early, Caused
  <2> QED
    BY <1>1, <2>5 DEF Caused
<1> QED
  BY <1>2, <1>3

-----------------------------------------------------------------------------
(* Mending what is reported helps *)

\* What the packages of a project and the faults in its files rest on.
LEMMA SameMatrices ==
  ASSUME NEW p, NEW q, q.matrices = p.matrices
  PROVE  Faulty(q) = Faulty(p)
BY DEF Faulty, Discovered, FileAt

LEMMA SamePackages ==
  ASSUME NEW p, NEW q, q.lock = p.lock, q.cache = p.cache
  PROVE  Loose(q) = Loose(p)
BY DEF Loose

\* After a sync the lockfile's packages are at hand, those that were wanted
\* among them.
LEMMA SyncedTightens ==
  ASSUME NEW p \in Project, NEW more \in SUBSET Package, PackageAssumption, NoValueAssumption
  PROVE  /\ Synced(p, more).config = p.config
         /\ Synced(p, more).matrices = p.matrices
         /\ Loose(Synced(p, more)) \subseteq Loose(p)
         /\ Loose(Synced(p, more)) \cap more = {}
         /\ p.lock = None => Engine \notin Loose(Synced(p, more))
<1> DEFINE lock == (IF p.lock = None THEN {Engine} ELSE p.lock) \cup more
           cache == [q \in Package |-> IF q \in lock THEN "whole" ELSE
                                       IF p.cache = None THEN "absent" ELSE p.cache[q]]
           synced == Synced(p, more)
<1>1. synced = [p EXCEPT !.lock = lock, !.cache = cache]
  BY DEF Synced
<1>2. lock \in SUBSET Package /\ lock # None
  BY DEF Project, PackageAssumption, NoValueAssumption
<1>3. cache \in [Package -> CacheState] /\ cache # None
  <2>1. cache \in [Package -> CacheState]
    <3>1. p.cache = None \/ p.cache \in [Package -> CacheState]
      BY DEF Project
    <3> QED
      BY <3>1 DEF CacheState
  <2> HIDE DEF cache
  <2> QED
    BY <2>1 DEF NoValueAssumption
<1>4. \A q \in lock : cache[q] = "whole"
  BY <1>2
<1>5. (p.lock # None => p.lock \subseteq lock) /\ more \subseteq lock /\ (p.lock = None => Engine \in lock)
  OBVIOUS
<1> HIDE DEF lock, cache, synced
<1>6. synced.config = p.config /\ synced.matrices = p.matrices /\ synced.lock = lock /\ synced.cache = cache
  BY <1>1 DEF Project
<1>7. \A q \in Package : q \in Loose(synced) <=> q \notin lock
  BY <1>2, <1>3, <1>4, <1>6 DEF Loose
<1>8. Loose(synced) \subseteq Package
  BY DEF Loose
<1>9. Loose(synced) \subseteq Loose(p)
  BY <1>5, <1>7, <1>8 DEF Loose
<1> QED
  BY <1>2, <1>5, <1>6, <1>7, <1>8, <1>9 DEF synced

\* Writing a fault out of its files leaves them where they are, and everything
\* else as it is.
LEMMA RewrittenKeeps ==
  ASSUME NEW p \in Project, NEW d
  PROVE  /\ Rewritten(p, d).config = p.config
         /\ Rewritten(p, d).lock = p.lock
         /\ Rewritten(p, d).cache = p.cache
         /\ DOMAIN Rewritten(p, d).matrices = DOMAIN p.matrices
         /\ \A i \in DOMAIN p.matrices : Rewritten(p, d).matrices[i] = RewrittenMatrix(p, d, i)
<1> DEFINE matrices == [i \in DOMAIN p.matrices |-> RewrittenMatrix(p, d, i)]
<1>1. Rewritten(p, d) = [p EXCEPT !.matrices = matrices]
  BY DEF Rewritten
<1>2. DOMAIN matrices = DOMAIN p.matrices /\ \A i \in DOMAIN p.matrices : matrices[i] = RewrittenMatrix(p, d, i)
  OBVIOUS
<1> HIDE DEF matrices
<1> QED
  BY <1>1, <1>2 DEF Project

LEMMA RewrittenSpecs ==
  ASSUME NEW p \in Project, NEW d, NEW i \in DOMAIN p.matrices
  PROVE  /\ RewrittenMatrix(p, d, i).dir = p.matrices[i].dir
         /\ DOMAIN RewrittenMatrix(p, d, i).specs = DOMAIN p.matrices[i].specs
         /\ \A k \in DOMAIN p.matrices[i].specs : RewrittenMatrix(p, d, i).specs[k] = RewrittenDir(p, d, i, k)
<1> DEFINE specs == [k \in DOMAIN p.matrices[i].specs |-> RewrittenDir(p, d, i, k)]
<1>1. p.matrices[i] \in Matrix
  BY DEF Project
<1>2. RewrittenMatrix(p, d, i) = [p.matrices[i] EXCEPT !.specs = specs]
  BY DEF RewrittenMatrix
<1>3. DOMAIN specs = DOMAIN p.matrices[i].specs
      /\ \A k \in DOMAIN p.matrices[i].specs : specs[k] = RewrittenDir(p, d, i, k)
  OBVIOUS
<1> HIDE DEF specs
<1> QED
  BY <1>1, <1>2, <1>3 DEF Matrix

LEMMA RewrittenFiles ==
  ASSUME NEW p \in Project, NEW d, NEW i \in DOMAIN p.matrices, NEW k \in DOMAIN p.matrices[i].specs
  PROVE  /\ RewrittenDir(p, d, i, k).there = p.matrices[i].specs[k].there
         /\ DOMAIN RewrittenDir(p, d, i, k).files = DOMAIN p.matrices[i].specs[k].files
         /\ \A n \in DOMAIN p.matrices[i].specs[k].files :
              RewrittenDir(p, d, i, k).files[n] = RewrittenFile(p, d, <<i, k, n>>)
<1> DEFINE files == [n \in DOMAIN p.matrices[i].specs[k].files |-> RewrittenFile(p, d, <<i, k, n>>)]
<1>1. p.matrices[i].specs[k] \in SpecDir
  <2>1. p.matrices[i] \in Matrix
    BY DEF Project
  <2>2. p.matrices[i].specs \in Seq(SpecDir)
    BY <2>1 DEF Matrix
  <2> QED
    BY <2>2
<1>2. RewrittenDir(p, d, i, k) = [p.matrices[i].specs[k] EXCEPT !.files = files]
  BY DEF RewrittenDir
<1>3. DOMAIN files = DOMAIN p.matrices[i].specs[k].files
      /\ \A n \in DOMAIN p.matrices[i].specs[k].files : files[n] = RewrittenFile(p, d, <<i, k, n>>)
  OBVIOUS
<1> HIDE DEF files
<1> QED
  BY <1>1, <1>2, <1>3 DEF SpecDir

LEMMA RewrittenDiscovered ==
  ASSUME NEW p \in Project, NEW d, NEW i \in DOMAIN p.matrices
  PROVE  /\ Discovered(Rewritten(p, d), i) = Discovered(p, i)
         /\ \A w \in Discovered(p, i) : FileAt(Rewritten(p, d), w) = RewrittenFile(p, d, w)
<1> DEFINE q == Rewritten(p, d)
<1>1. q.matrices[i].dir = p.matrices[i].dir /\ DOMAIN q.matrices[i].specs = DOMAIN p.matrices[i].specs
  BY RewrittenKeeps, RewrittenSpecs
<1>2. \A k \in DOMAIN p.matrices[i].specs : q.matrices[i].specs[k] = RewrittenDir(p, d, i, k)
  BY RewrittenKeeps, RewrittenSpecs
<1>3. \A k \in DOMAIN p.matrices[i].specs :
        /\ q.matrices[i].specs[k].there = p.matrices[i].specs[k].there
        /\ DOMAIN q.matrices[i].specs[k].files = DOMAIN p.matrices[i].specs[k].files
        /\ \A n \in DOMAIN p.matrices[i].specs[k].files :
             q.matrices[i].specs[k].files[n] = RewrittenFile(p, d, <<i, k, n>>)
  BY <1>2, RewrittenFiles
<1> HIDE DEF q
<1>4. \A v : v \in Discovered(q, i) <=> v \in Discovered(p, i)
  BY <1>1, <1>3 DEF Discovered
<1>5. Discovered(q, i) = Discovered(p, i)
  BY <1>4
<1>6. \A w \in Discovered(p, i) : FileAt(q, w) = RewrittenFile(p, d, w)
  BY <1>3, FileParts DEF FileAt
<1> QED
  BY <1>5, <1>6 DEF q

\* The faults of a project, one by one.
LEMMA FaultyIs ==
  ASSUME NEW p, NEW w, NEW f
  PROVE  <<w, f>> \in Faulty(p) <=> w \in Shipped(p) /\ f \in FileAt(p, w).faults
BY DEF Faulty, Shipped

LEMMA RewrittenMends ==
  ASSUME NEW p \in Project, NEW d
  PROVE  /\ Faulty(Rewritten(p, d)) \subseteq Faulty(p)
         /\ ByFault(p, d) => Faulty(Rewritten(p, d)) # Faulty(p)
<1> DEFINE q == Rewritten(p, d)
<1>1. Shipped(q) = Shipped(p)
  BY RewrittenKeeps, RewrittenDiscovered DEF Shipped
<1>2. ASSUME NEW w \in Shipped(p)
      PROVE  /\ FileAt(q, w).faults \subseteq FileAt(p, w).faults
             /\ w \in d.at => \A f \in FileAt(q, w).faults : CodeOf[f] # d.code
  <2>1. FileAt(p, w) \in SourceFile
    BY FileIsFile DEF Shipped
  <2>2. FileAt(q, w) = RewrittenFile(p, d, w)
    BY RewrittenDiscovered DEF Shipped
  <2> QED
    BY <2>1, <2>2 DEF RewrittenFile, SourceFile
<1> HIDE DEF q
<1>3. Faulty(q) \subseteq Faulty(p)
  <2> SUFFICES ASSUME NEW x \in Faulty(q) PROVE x \in Faulty(p)
    OBVIOUS
  <2>1. PICK w \in Shipped(q) : x \in {<<w, f>> : f \in FileAt(q, w).faults}
    BY DEF Faulty, Shipped
  <2>2. PICK f \in FileAt(q, w).faults : x = <<w, f>>
    BY <2>1
  <2> QED
    BY <1>1, <1>2, <2>1, <2>2, FaultyIs
<1>4. ASSUME ByFault(p, d) PROVE Faulty(q) # Faulty(p)
  <2>1. PICK w \in d.at \cap Shipped(p) : \E f \in FileAt(p, w).faults : CodeOf[f] = d.code
    BY <1>4 DEF ByFault
  <2>2. PICK f \in FileAt(p, w).faults : CodeOf[f] = d.code
    BY <2>1
  <2>3. <<w, f>> \in Faulty(p)
    BY <2>1, <2>2, FaultyIs
  <2>4. <<w, f>> \notin Faulty(q)
    BY <1>2, <2>1, <2>2, FaultyIs
  <2> QED
    BY <2>3, <2>4
<1> QED
  BY <1>3, <1>4 DEF q

\* Nothing new is amiss in q, and something of p is not.
Better(p, q) ==
  /\ p.config = "ok" => q.config = "ok"
  /\ Loose(q) \subseteq Loose(p) /\ Faulty(q) \subseteq Faulty(p)
  /\ (p.config # "ok" /\ q.config = "ok") \/ Loose(q) # Loose(p) \/ Faulty(q) # Faulty(p)

LEMMA BetterIsLessAmiss ==
  ASSUME NEW p, NEW q, Better(p, q)
  PROVE  /\ \A part \in {"config", "packages", "faults"} : Amiss(q)[part] \subseteq Amiss(p)[part]
         /\ Amiss(q) # Amiss(p)
<1>1. \A r : /\ Amiss(r)["config"] = IF r.config = "ok" THEN {} ELSE {"poliglot.yml"}
             /\ Amiss(r)["packages"] = Loose(r) /\ Amiss(r)["faults"] = Faulty(r)
  BY DEF Amiss
<1>2. \A part \in {"config", "packages", "faults"} : Amiss(q)[part] \subseteq Amiss(p)[part]
  BY <1>1 DEF Better
<1>3. \E part \in {"config", "packages", "faults"} : Amiss(q)[part] # Amiss(p)[part]
  BY <1>1 DEF Better
<1> QED
  BY <1>2, <1>3

LEMMA MendedIsBetter ==
  ASSUME NEW p \in Project, NEW d \in Errors(Validate(p)), PackageAssumption, NoValueAssumption
  PROVE  Better(p, Mended(p, d))
<1>1. CASE d.code = "E0900" /\ p.config # "ok"
  <2>1. Mended(p, d) = [p EXCEPT !.config = "ok"]
    BY <1>1 DEF Mended
  <2> DEFINE q == Mended(p, d)
  <2>2. q.config = "ok" /\ q.lock = p.lock /\ q.cache = p.cache /\ q.matrices = p.matrices
    BY <2>1 DEF Project
  <2> HIDE DEF q
  <2>3. Better(p, q)
    BY <1>1, <2>2, SameMatrices, SamePackages DEF Better
  <2> QED
    BY <2>3 DEF q
<1>2. CASE d.code = "E0900" /\ p.config = "ok"
  <2>1. Mended(p, d) = Synced(p, {})
    BY <1>2 DEF Mended
  <2>2. p.lock = None
    BY <1>2, ErrorsHaveCauses, CodeOfFaults DEF ByFault, ByPackage
  <2>3. Engine \in Loose(p)
    BY <2>2 DEF Loose, PackageAssumption
  <2> DEFINE q == Synced(p, {})
  <2>4. q.config = p.config /\ q.matrices = p.matrices /\ Loose(q) \subseteq Loose(p) /\ Engine \notin Loose(q)
    BY <2>2, SyncedTightens
  <2> HIDE DEF q
  <2>5. Better(p, q)
    BY <2>3, <2>4, SameMatrices DEF Better
  <2> QED
    BY <2>1, <2>5 DEF q
<1>3. CASE d.code # "E0900"
  <2> DEFINE r == Rewritten(p, d)
  <2>1. r \in Project /\ r.config = p.config /\ Loose(r) = Loose(p)
    BY RewrittenIsProject, RewrittenKeeps, SamePackages
  <2>2. Faulty(r) \subseteq Faulty(p) /\ (ByFault(p, d) => Faulty(r) # Faulty(p))
    BY RewrittenMends
  <2>3. ByFault(p, d) \/ ByPackage(p, d)
    BY <1>3, ErrorsHaveCauses
  <2> HIDE DEF r
  <2>4. CASE d.code \in {"E0201", "E0401"}
    <3> DEFINE q == Synced(r, Wanted(p, d))
    <3>1. Wanted(p, d) \in SUBSET Package
      BY WantedIsPackages DEF Errors
    <3>2. q.config = r.config /\ q.matrices = r.matrices /\ Loose(q) \subseteq Loose(r)
          /\ Loose(q) \cap Wanted(p, d) = {}
      BY <2>1, <3>1, SyncedTightens
    <3>3. Mended(p, d) = q
      BY <2>4 DEF Mended, r
    <3> HIDE DEF q
    <3>4. Faulty(q) = Faulty(r)
      BY <3>2, SameMatrices
    <3>5. ByPackage(p, d) => Loose(q) # Loose(p)
      BY <3>2 DEF ByPackage
    <3> QED
      BY <2>1, <2>2, <2>3, <3>2, <3>3, <3>4, <3>5 DEF Better
  <2>5. CASE d.code \notin {"E0201", "E0401"}
    <3>1. Mended(p, d) = r
      BY <1>3, <2>5 DEF Mended, r
    <3>2. ByFault(p, d)
      BY <2>3, <2>5 DEF ByPackage
    <3> QED
      BY <2>1, <2>2, <3>1, <3>2 DEF Better
  <2> QED
    BY <2>4, <2>5
<1> QED
  BY <1>1, <1>2, <1>3

\* An author who does something about an error a run reported has one thing less
\* to mend, and nothing new: no error is without a cause in the project, and no
\* cure of one brings another (validation_pipeline.validate_project).
THEOREM MendingHelps ==
  ASSUME PackageAssumption, BeginningAssumption, NoValueAssumption
  PROVE  Spec => MendsHelp
<1> DEFINE Helps ==
      Mend => /\ \A part \in {"config", "packages", "faults"} : Amiss(project')[part] \subseteq Amiss(project)[part]
              /\ Amiss(project') # Amiss(project)
<1>1. AuthoringInv => Helps
  <2> SUFFICES ASSUME AuthoringInv, Mend
               PROVE  /\ \A part \in {"config", "packages", "faults"} :
                           Amiss(project')[part] \subseteq Amiss(project)[part]
                      /\ Amiss(project') # Amiss(project)
    OBVIOUS
  <2>1. PICK d \in Errors(result) : project' = Mended(project, d)
    BY DEF Mend
  <2>2. project \in Project /\ d \in Errors(Validate(project))
    BY <2>1 DEF Mend, AuthoringInv
  <2>3. Better(project, project')
    BY <2>1, <2>2, MendedIsBetter
  <2> QED
    BY <2>3, BetterIsLessAmiss
<1>2. MendsHelp <=> [][Helps]_vars
  BY DEF MendsHelp
<1> QED
  BY <1>1, <1>2, AuthoringInvariant, PTL
=============================================================================
