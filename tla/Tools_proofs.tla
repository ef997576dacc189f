---------------------------- MODULE Tools_proofs ----------------------------
(***************************************************************************)
(* Proofs about Tools, for all values of its constants that satisfy its    *)
(* assumptions: what each part promises, in the behaviours that exercise   *)
(* it and in the others.                                                   *)
(***************************************************************************)
EXTENDS Tools, LspServer_proofs, FiniteSetTheorems, SequenceTheorems, TLAPS

RP == INSTANCE Release_proofs WITH Drafts <- DraftTable
AP == INSTANCE Authoring_proofs WITH Beginning <- Authored

\* A step of the whole is a step of each part, or leaves it as it is.
LEMMA PartSteps ==
  ASSUME [ToolsNext]_allvars
  PROVE  /\ [Next]_vars /\ [A!Next]_(A!vars) /\ [R!Next]_(R!vars) /\ [B!Next]_(B!vars)
         /\ [M!Next]_(M!vars) /\ [W!Next]_(W!vars) /\ UNCHANGED texts
         /\ tool' = tool /\ (tool # "validate" => UNCHANGED authoring)
                        /\ (tool # "bindings" => UNCHANGED bindings)
<1> USE DEF authoring, release, bindings, terminal, texts, workspace, A!vars, R!vars, R!disk, B!vars, M!vars, W!vars, Use
<1>1. CASE Lsp
  BY <1>1 DEF Lsp
<1>2. CASE Authors
  BY <1>2 DEF Authors
<1>3. CASE Releases
  BY <1>3 DEF Releases
<1>4. CASE Binds
  BY <1>4 DEF Binds
<1>5. CASE Types
  BY <1>5 DEF Types
<1>6. CASE Edits
  BY <1>6 DEF Edits
<1>7. CASE UNCHANGED allvars
  BY <1>7 DEF allvars
<1> QED
  BY <1>1, <1>2, <1>3, <1>4, <1>5, <1>6, <1>7 DEF ToolsNext

-----------------------------------------------------------------------------
(* The language server *)

LEMMA ServerStep == IInv /\ [ToolsNext]_allvars => IInv'
BY PartSteps, StepInv

LEMMA ServerInit == ToolsInit => IInv
BY InitInv DEF ToolsInit

\* What the editor shows of a project is what its kept result reports
\* (lsp_server.py: _refresh_project).
THEOREM SquigglesStayCurrent == ToolsSpec => []SquigglesMatchResult
BY ServerInit, ServerStep, SquigglesHold, PTL DEF ToolsSpec

\* At rest the last file touched has been validated with what is on disk
\* (lsp_server.py: _schedule_debounced_refresh).
THEOREM LastStaysCurrent == ToolsSpec => []LastIsCurrent
BY ServerInit, ServerStep, LastHolds, PTL DEF ToolsSpec

-----------------------------------------------------------------------------
(* Builds and publishes *)

\* The model of builds and publishes is the one Release_proofs is about.
LEMMA SameConclusion == R!Conclusion = RP!Conclusion
BY DEF R!Conclusion, RP!Conclusion, R!Draft, RP!Draft, R!Absent, RP!Absent, R!AssemblyFindings, RP!AssemblyFindings, R!CallFindings,
       RP!CallFindings, R!CodeOf, RP!CodeOf, R!DeclarationFindings, RP!DeclarationFindings,
       R!Declares, RP!Declares, R!EachOf, RP!EachOf, R!Errors, RP!Errors, R!ExitCode,
       RP!ExitCode, R!FileAt, RP!FileAt, R!Finding, RP!Finding, R!Focus, RP!Focus,
       R!GraphFindings, RP!GraphFindings, R!Halt, RP!Halt, R!Halting, RP!Halting,
       R!HasShapes, RP!HasShapes, R!ImportFindings, RP!ImportFindings, R!Indexed,
       RP!Indexed, R!IsError, RP!IsError, R!JsonFindings, RP!JsonFindings, R!Listed,
       RP!Listed, R!Located, RP!Located, R!Merged, RP!Merged, R!Missing, RP!Missing,
       R!NamespaceFindings, RP!NamespaceFindings, R!NativeFindings, RP!NativeFindings,
       R!OnceOf, RP!OnceOf, R!ParseFindings, RP!ParseFindings, R!Parsed, RP!Parsed,
       R!ParsedIn, RP!ParsedIn, R!Parses, RP!Parses, R!PrefixFindings, RP!PrefixFindings,
       R!ReachedMatrices, RP!ReachedMatrices, R!ShaclFindings, RP!ShaclFindings,
       R!SparqlFindings, RP!SparqlFindings, R!SpecOf, RP!SpecOf, R!Stopped, RP!Stopped,
       R!TermFindings, RP!TermFindings, R!UnknownUses, RP!UnknownUses, R!Validate,
       RP!Validate, R!Warnings, RP!Warnings, R!WithFault, RP!WithFault

LEMMA SameRelease ==
  /\ R!Init <=> RP!Init
  /\ [R!Next]_(R!vars) <=> [RP!Next]_(RP!vars)
<1> USE DEF R!Archive, RP!Archive, R!Bundle, RP!Bundle, R!Components, RP!Components, R!Contents,
         RP!Contents, R!Discovered, RP!Discovered, R!Finishes, RP!Finishes, R!Named, RP!Named,
         R!NoParts, RP!NoParts, R!Orders, RP!Orders, R!ScriptsResolve, RP!ScriptsResolve,
         R!Stamp, RP!Stamp, R!Starts, RP!Starts, R!UiOutcome, RP!UiOutcome, R!Valid, RP!Valid,
         R!Declares, RP!Declares, R!FileAt, RP!FileAt, R!Parses, RP!Parses
<1>1. R!Conclusion = RP!Conclusion
  BY SameConclusion
<1>2. R!Init <=> RP!Init
  BY DEF R!Init, RP!Init, R!Out, RP!Out, R!Draft, RP!Draft, R!NoCommand, RP!NoCommand
<1>3. [R!Next]_(R!vars) <=> [RP!Next]_(RP!vars)
  BY <1>1 DEF R!Advance, RP!Advance, R!Answered, RP!Answered, R!At, RP!At, R!BuildUi, RP!BuildUi,
         R!Bump, RP!Bump, R!Configured, RP!Configured, R!Draft, RP!Draft, R!Edit, RP!Edit,
         R!Edited, RP!Edited, R!Ended, RP!Ended, R!Expire, RP!Expire, R!Failed, RP!Failed,
         R!Gate, RP!Gate, R!Goto, RP!Goto, R!Here, RP!Here, R!Identify, RP!Identify, R!Kill,
         RP!Kill, R!MakeArchive, RP!MakeArchive, R!MakeBundle, RP!MakeBundle, R!Next, RP!Next,
         R!NoCommand, RP!NoCommand, R!Out, RP!Out, R!Rival, RP!Rival, R!Seen, RP!Seen, R!Start,
         RP!Start, R!StatusOf, RP!StatusOf, R!Step, RP!Step, R!Stored, RP!Stored, R!Upload,
         RP!Upload, R!Verdict, RP!Verdict, R!disk, RP!disk, R!vars, RP!vars
<1> QED
  BY <1>2, <1>3

LEMMA SameAssumptions == RP!DraftsAssumption /\ RP!TornAssumption
<1>1. RP!TornAssumption
  BY ReleaseAssumption DEF R!TornAssumption, RP!TornAssumption
<1>2. RP!DraftsAssumption
  BY ReleaseAssumption
  DEF R!CacheState, RP!CacheState, R!CodeOf, RP!CodeOf, R!Contents, RP!Contents,
       R!Discovered, RP!Discovered, R!DraftsAssumption, RP!DraftsAssumption, R!Fault,
       RP!Fault, R!FileAt, RP!FileAt, R!Matrix, RP!Matrix, R!Project, RP!Project,
       R!SourceFile, RP!SourceFile, R!SpecDir, RP!SpecDir
<1> QED
  BY <1>1, <1>2

LEMMA SamePromises ==
  /\ RP!ArchiveIsOwn <=> ArchiveIsOwn
  /\ RP!PublishedIsBuilt <=> PublishedIsBuilt
  /\ RP!ConflictIsReal <=> ConflictIsReal
<1>1. RP!ArchiveIsOwn <=> ArchiveIsOwn
  BY DEF ArchiveIsOwn, R!ArchiveIsOwn, RP!ArchiveIsOwn, R!Contents, RP!Contents, R!Declares, RP!Declares,
       R!Discovered, RP!Discovered, R!FileAt, RP!FileAt, R!OwnOutputs, RP!OwnOutputs,
       R!Undisturbed, RP!Undisturbed
<1>2. RP!PublishedIsBuilt <=> PublishedIsBuilt
  BY DEF PublishedIsBuilt, R!PublishedIsBuilt, RP!PublishedIsBuilt
<1>3. RP!ConflictIsReal <=> ConflictIsReal
  BY DEF ConflictIsReal, R!ConflictIsReal, RP!ConflictIsReal, R!SameSources, RP!SameSources
<1> QED
  BY <1>1, <1>2, <1>3

LEMMA ReleaseInit ==
  ASSUME ToolsInit
  PROVE  RP!IInv /\ RP!ConflictInv
<1>1. RP!Init
  BY SameRelease DEF ToolsInit
<1> QED
  BY <1>1, SameAssumptions, RP!InitInv, RP!InitConflict

LEMMA ReleaseStep ==
  ASSUME RP!MarksAssumption, RP!IInv, RP!ConflictInv, [ToolsNext]_allvars
  PROVE  RP!IInv' /\ RP!ConflictInv'
<1>1. [RP!Next]_(RP!vars)
  BY PartSteps, SameRelease
<1> QED
  BY <1>1, SameAssumptions, RP!StepInv, RP!StepConflict

LEMMA ReleasePromises ==
  ASSUME RP!IInv, RP!ConflictInv
  PROVE  ArchiveIsOwn /\ PublishedIsBuilt /\ ConflictIsReal
BY SamePromises DEF RP!IInv, RP!ArchiveInv, RP!PublishInv, RP!ConflictInv

\* An archive holds its own matrices' files, as they are, and components built
\* from them (build_service.build_matrix, create_package_archive).
THEOREM ArchivesAreOwn ==
  ASSUME RP!MarksAssumption
  PROVE  ToolsSpec => []ArchiveIsOwn
<1>1. (RP!IInv /\ RP!ConflictInv) /\ [ToolsNext]_allvars => (RP!IInv /\ RP!ConflictInv)'
  BY ReleaseStep
<1> QED
  BY <1>1, ReleaseInit, ReleasePromises, PTL DEF ToolsSpec

\* A publish that reports success left in the registry the archive it built,
\* and no other checkout replaces it (publish_client.publish).
THEOREM PublishedAreBuilt ==
  ASSUME RP!MarksAssumption
  PROVE  ToolsSpec => []PublishedIsBuilt
<1>1. (RP!IInv /\ RP!ConflictInv) /\ [ToolsNext]_allvars => (RP!IInv /\ RP!ConflictInv)'
  BY ReleaseStep
<1> QED
  BY <1>1, ReleaseInit, ReleasePromises, PTL DEF ToolsSpec

\* A conflict is reported only when the registry holds other sources under the
\* version (publish_client.publish, archive_service.create_package_archive).
THEOREM ConflictsAreReal ==
  ASSUME RP!MarksAssumption
  PROVE  ToolsSpec => []ConflictIsReal
<1>1. (RP!IInv /\ RP!ConflictInv) /\ [ToolsNext]_allvars => (RP!IInv /\ RP!ConflictInv)'
  BY ReleaseStep
<1> QED
  BY <1>1, ReleaseInit, ReleasePromises, PTL DEF ToolsSpec

-----------------------------------------------------------------------------
(* Validation *)

\* The model of the author's loop is the one Authoring_proofs is about.
LEMMA SameAuthoring ==
  /\ A!Init <=> AP!Init
  /\ [A!Next]_(A!vars) <=> [AP!Next]_(AP!vars)
<1> USE DEF A!Absent, AP!Absent, A!AssemblyFindings, AP!AssemblyFindings, A!CallFindings,
       AP!CallFindings, A!Clean, AP!Clean, A!CodeOf, AP!CodeOf, A!DeclarationFindings,
       AP!DeclarationFindings, A!Declares, AP!Declares, A!EachOf, AP!EachOf, A!Errors,
       AP!Errors, A!ExitCode, AP!ExitCode, A!FileAt, AP!FileAt, A!Finding, AP!Finding,
       A!Focus, AP!Focus, A!GraphFindings, AP!GraphFindings, A!Halt, AP!Halt, A!Halting,
       AP!Halting, A!HasShapes, AP!HasShapes, A!ImportFindings, AP!ImportFindings,
       A!Indexed, AP!Indexed, A!Init, AP!Init, A!IsError, AP!IsError, A!JsonFindings,
       AP!JsonFindings, A!Listed, AP!Listed, A!Located, AP!Located, A!Mend, AP!Mend,
       A!Mended, AP!Mended, A!Merged, AP!Merged, A!Missing, AP!Missing, A!NamespaceFindings,
       AP!NamespaceFindings, A!NativeFindings, AP!NativeFindings, A!Next, AP!Next, A!OnceOf,
       AP!OnceOf, A!ParseFindings, AP!ParseFindings, A!Parsed, AP!Parsed, A!ParsedIn,
       AP!ParsedIn, A!Parses, AP!Parses, A!PrefixFindings, AP!PrefixFindings,
       A!ReachedMatrices, AP!ReachedMatrices, A!Rewritten, AP!Rewritten, A!RewrittenDir,
       AP!RewrittenDir, A!RewrittenFile, AP!RewrittenFile, A!RewrittenMatrix,
       AP!RewrittenMatrix, A!Run, AP!Run, A!ShaclFindings, AP!ShaclFindings,
       A!SparqlFindings, AP!SparqlFindings, A!SpecOf, AP!SpecOf, A!Stopped, AP!Stopped,
       A!Synced, AP!Synced, A!TermFindings, AP!TermFindings, A!UnknownUses, AP!UnknownUses,
       A!Validate, AP!Validate, A!Wanted, AP!Wanted, A!Warnings, AP!Warnings, A!WithFault,
       AP!WithFault, A!vars, AP!vars
<1>1. A!Init <=> AP!Init
  OBVIOUS
<1>2. [A!Next]_(A!vars) <=> [AP!Next]_(AP!vars)
  OBVIOUS
<1> QED
  BY <1>1, <1>2

LEMMA SameProject == AP!PackageAssumption /\ AP!BeginningAssumption
BY ProjectAssumption
DEF A!BeginningAssumption, AP!BeginningAssumption, A!CacheState, AP!CacheState, A!CodeOf,
       AP!CodeOf, A!Fault, AP!Fault, A!Matrix, AP!Matrix, A!PackageAssumption,
       AP!PackageAssumption, A!Project, AP!Project, A!SourceFile, AP!SourceFile, A!SpecDir,
       AP!SpecDir

LEMMA SameClean ==
  /\ AP!CleanMeansChecked <=> CleanMeansChecked
  /\ AP!CleanBuilds <=> CleanBuilds
<1> USE DEF A!Cardinality, AP!Cardinality, A!IsFiniteSet, AP!IsFiniteSet, A!AllRead, AP!AllRead, A!Clean, AP!Clean, A!CodeOf, AP!CodeOf, A!Declares,
         AP!Declares, A!Discovered, AP!Discovered, A!ErrorFaults, AP!ErrorFaults, A!Errors,
         AP!Errors, A!ExitCode, AP!ExitCode, A!Fault, AP!Fault, A!FaultyIn, AP!FaultyIn,
         A!FileAt, AP!FileAt, A!Finding, AP!Finding, A!Finishes, AP!Finishes, A!IsError,
         AP!IsError, A!Named, AP!Named, A!Parses, AP!Parses, A!ScriptsResolve,
         AP!ScriptsResolve, A!Starts, AP!Starts, A!Valid, AP!Valid, A!Warnings, AP!Warnings
<1>1. AP!CleanMeansChecked <=> CleanMeansChecked
  BY DEF CleanMeansChecked, A!CleanMeansChecked, AP!CleanMeansChecked
<1>2. AP!CleanBuilds <=> CleanBuilds
  BY DEF CleanBuilds, A!CleanBuilds, AP!CleanBuilds
<1> QED
  BY <1>1, <1>2

\* The project is only worked on by those who validate it.
ValidateInv == IF tool = "validate" THEN AP!AuthoringInv ELSE result = None

LEMMA ValidateInit == ToolsInit => ValidateInv
BY SameAuthoring, SameProject, AP!InitAuthoring DEF ToolsInit, ValidateInv

LEMMA ValidateStep == ValidateInv /\ [ToolsNext]_allvars => ValidateInv'
<1> SUFFICES ASSUME ValidateInv, [ToolsNext]_allvars PROVE ValidateInv'
  OBVIOUS
<1>1. CASE tool = "validate"
  <2>1. AP!AuthoringInv /\ [AP!Next]_(AP!vars)
    BY <1>1, PartSteps, SameAuthoring DEF ValidateInv
  <2>2. AP!AuthoringInv'
    BY <2>1, SameProject, AP!StepAuthoring
  <2> QED
    BY <1>1, <2>2, PartSteps DEF ValidateInv
<1>2. CASE tool # "validate"
  BY <1>2, PartSteps DEF ValidateInv, authoring
<1> QED
  BY <1>1, <1>2

LEMMA ValidatePromises == ValidateInv => CleanMeansChecked /\ CleanBuilds
<1>1. CASE tool = "validate"
  BY <1>1, SameProject, SameClean, AP!CleanPromises DEF ValidateInv
<1>2. CASE tool # "validate"
  BY <1>2 DEF ValidateInv, CleanMeansChecked, CleanBuilds, A!CleanMeansChecked, A!CleanBuilds, A!Clean
<1> QED
  BY <1>1, <1>2

\* A clean validation has looked at all that a build ships
\* (validation_pipeline.validate_project).
THEOREM CleanChecksAll == ToolsSpec => []CleanMeansChecked
BY ValidateInit, ValidateStep, ValidatePromises, PTL DEF ToolsSpec

\* A project that validates clean builds (validation_pipeline.validate_project,
\* build_service.build_matrix).
THEOREM CleanDoesBuild == ToolsSpec => []CleanBuilds
BY ValidateInit, ValidateStep, ValidatePromises, PTL DEF ToolsSpec

-----------------------------------------------------------------------------
(* Ranges *)

Bounds == [op: V!Op, parts: Seq(Nat \cup {Word})]
IsRange(r) == r \in Seq(Bounds)

\* The range looked at was written by hand, or by `plgt add`.
RangeInv ==
  \/ from = None /\ IsRange(range)
  \/ \E v \in V!Version, given \in {1, 2} :
       from = [version |-> v, given |-> given] /\ range = V!RangeOf(v, given)

IsRelease(v) == v.major \in Nat /\ v.minor \in Nat

LEMMA VersionsAreReleases == \A v \in V!Version : IsRelease(v)
BY RangesAssumption DEF V!NumberAssumption, V!Version, IsRelease

\* What a good bound denotes.
LEMMA GoodBounds ==
  ASSUME NEW b, b.parts \in Seq(Nat \cup {Word}), V!GoodBound(b)
  PROVE  IsRelease(V!Bound(b)) /\ V!Bound(b).op = b.op /\ b.op \in {">=", "<"}
BY DEF V!GoodBound, V!Bound, IsRelease

\* Releases are in a line, and a bound cuts it in two.
LEMMA BelowIsOrder ==
  ASSUME NEW u, NEW v, NEW w, IsRelease(u), IsRelease(v), IsRelease(w)
  PROVE  /\ ~V!Below(u, u)
         /\ V!Below(w, v) => ~V!Below(v, w)
         /\ ~V!Below(v, u) /\ V!Below(v, w) => V!Below(u, w)
         /\ ~V!Below(w, v) /\ V!Below(w, u) => V!Below(v, u)
BY DEF V!Below, IsRelease

LEMMA MatchesIsConvex ==
  ASSUME NEW b, IsRelease(b), NEW u, NEW v, NEW w, IsRelease(u), IsRelease(v), IsRelease(w),
         V!Between(u, v, w), V!Matches(b, u), V!Matches(b, w)
  PROVE  V!Matches(b, v)
BY BelowIsOrder DEF V!Between, V!Matches

\* The bounds of a range that is read as one.
LEMMA BoundsOfRange ==
  ASSUME NEW r, IsRange(r), V!Parses(r)
  PROVE  /\ Len(r) \in {1, 2} /\ DOMAIN r = 1..Len(r)
         /\ \A i \in DOMAIN r : /\ IsRelease(V!Bound(r[i])) /\ V!Bound(r[i]).op = r[i].op
                                /\ r[i].op \in {">=", "<"}
         /\ \A i, j \in DOMAIN r : r[i].op = r[j].op => i = j
<1>1. Len(r) \in {1, 2} /\ DOMAIN r = 1..Len(r)
  BY DEF IsRange, V!Parses
<1>2. \A i \in DOMAIN r : /\ IsRelease(V!Bound(r[i])) /\ V!Bound(r[i]).op = r[i].op
                          /\ r[i].op \in {">=", "<"}
  <2> SUFFICES ASSUME NEW i \in DOMAIN r
               PROVE  IsRelease(V!Bound(r[i])) /\ V!Bound(r[i]).op = r[i].op /\ r[i].op \in {">=", "<"}
    OBVIOUS
  <2>1. r[i].parts \in Seq(Nat \cup {Word})
    <3>1. r[i] \in Bounds
      BY DEF IsRange
    <3> QED
      BY <3>1 DEF Bounds
  <2>2. V!GoodBound(r[i])
    BY DEF V!Parses
  <2> QED
    BY <2>1, <2>2, GoodBounds
<1>3. \A i, j \in DOMAIN r : r[i].op = r[j].op => i = j
  BY <1>1 DEF V!Parses
<1> QED
  BY <1>1, <1>2, <1>3

LEMMA RangesAreConvex ==
  ASSUME NEW r, IsRange(r), V!Parses(r), NEW u \in V!Admitted(r), NEW w \in V!Admitted(r),
         NEW v \in V!Version, V!Between(u, v, w)
  PROVE  v \in V!Admitted(r)
<1>1. IsRelease(u) /\ IsRelease(v) /\ IsRelease(w)
  BY VersionsAreReleases DEF V!Admitted
<1>2. \A i \in DOMAIN r : V!Matches(V!Bound(r[i]), v)
  BY <1>1, BoundsOfRange, MatchesIsConvex DEF V!Admitted, V!Satisfies
<1> QED
  BY <1>2 DEF V!Admitted, V!Satisfies

\* A range admits the release it starts at, if there is one it could admit.
LEMMA LeastIsAdmitted ==
  ASSUME NEW r, IsRange(r), V!Parses(r)
  PROVE  V!Satisfies(V!Least(r), r) \/ V!Nothing(r)
<1> DEFINE low == {i \in DOMAIN r : r[i].op = ">="}
<1>1. CASE low = {}
  <2>1. Len(r) = 1 /\ r[1].op = "<" /\ IsRelease(V!Bound(r[1])) /\ V!Bound(r[1]).op = "<"
    BY <1>1, BoundsOfRange
  <2>2. V!Least(r) = [major |-> 0, minor |-> 0]
    BY <1>1 DEF V!Least
  <2>3. CASE V!Below([major |-> 0, minor |-> 0], V!Bound(r[1]))
    <3>1. V!Matches(V!Bound(r[1]), V!Least(r))
      BY <2>1, <2>2, <2>3 DEF V!Matches
    <3> QED
      BY <2>1, <3>1, BoundsOfRange DEF V!Satisfies
  <2>4. CASE ~V!Below([major |-> 0, minor |-> 0], V!Bound(r[1]))
    <3>1. V!Bound(r[1]).major = 0 /\ V!Bound(r[1]).minor = 0
      BY <2>1, <2>4 DEF V!Below, IsRelease
    <3>2. V!GoodBound(r[1]) /\ r[1].parts \in Seq(Nat \cup {Word})
      <4>1. 1 \in DOMAIN r /\ r[1] \in Bounds
        BY <2>1, BoundsOfRange DEF IsRange
      <4> QED
        BY <4>1 DEF Bounds, V!Parses
    <3>3. \A i \in DOMAIN r[1].parts : r[1].parts[i] = 0
      BY <3>1, <3>2 DEF V!Bound, V!GoodBound
    <3> QED
      BY <2>1, <3>3 DEF V!Nothing
  <2> QED
    BY <2>3, <2>4
<1>2. CASE low # {}
  <2>1. PICK i \in low : V!Least(r) = V!Bound(r[i])
    BY <1>2 DEF V!Least
  <2>2. \A j \in DOMAIN r : V!Matches(V!Bound(r[j]), V!Bound(r[i]))
    <3> SUFFICES ASSUME NEW j \in DOMAIN r PROVE V!Matches(V!Bound(r[j]), V!Bound(r[i]))
      OBVIOUS
    <3>1. /\ IsRelease(V!Bound(r[i])) /\ IsRelease(V!Bound(r[j])) /\ V!Bound(r[j]).op = r[j].op
          /\ r[j].op \in {">=", "<"} /\ (r[j].op = ">=" => i = j)
      BY BoundsOfRange
    <3>2. r[j].op = "<" => V!Below(V!Bound(r[i]), V!Bound(r[j]))
      BY DEF V!Parses, V!Ordered
    <3> QED
      BY <3>1, <3>2, BelowIsOrder DEF V!Matches
  <2> QED
    BY <2>1, <2>2 DEF V!Satisfies
<1> QED
  BY <1>1, <1>2

\* The order of the bounds does not matter.
LEMMA OrderDoesNotMatter ==
  ASSUME NEW r, IsRange(r), V!Parses(r), Len(r) = 2
  PROVE  /\ V!Parses(<<r[2], r[1]>>)
         /\ V!Admitted(<<r[2], r[1]>>) = V!Admitted(r)
<1>1. r = <<r[1], r[2]>>
  BY DEF IsRange
<1>2. V!Parses(<<r[2], r[1]>>)
  BY <1>1 DEF V!Parses, V!Ordered
<1>3. \A v : V!Satisfies(v, <<r[2], r[1]>>) <=> V!Satisfies(v, r)
  BY <1>1 DEF V!Satisfies
<1> QED
  BY <1>2, <1>3 DEF V!Admitted

\* What `plgt add` writes for a version.
LEMMA RecordedIsRange ==
  ASSUME NEW v \in V!Version, NEW given \in {1, 2}
  PROVE  /\ IsRange(V!RangeOf(v, given)) /\ V!Parses(V!RangeOf(v, given))
         /\ \A w \in V!Version :
              V!Satisfies(w, V!RangeOf(v, given)) <=> w.major = v.major /\ (given = 2 => w.minor >= v.minor)
<1> DEFINE r == V!RangeOf(v, given)
           low == [op |-> ">=", parts |-> IF given = 1 THEN <<v.major>> ELSE <<v.major, v.minor>>]
           high == [op |-> "<", parts |-> <<v.major + 1>>]
<1>1. IsRelease(v) /\ v.major + 1 \in Nat
  BY VersionsAreReleases DEF IsRelease
<1>2. r = <<low, high>>
  BY DEF V!RangeOf
<1>3. low \in Bounds /\ high \in Bounds
  <2>1. <<v.major>> \in Seq(Nat \cup {Word})
    BY <1>1 DEF IsRelease
  <2>2. <<v.major, v.minor>> \in Seq(Nat \cup {Word})
    BY <1>1 DEF IsRelease
  <2>3. <<v.major + 1>> \in Seq(Nat \cup {Word})
    BY <1>1
  <2> QED
    BY <2>1, <2>2, <2>3 DEF Bounds, V!Op
<1>4. V!GoodBound(low) /\ V!GoodBound(high)
  BY <1>1 DEF V!GoodBound, IsRelease
<1>5. /\ V!Bound(low) = [op |-> ">=", major |-> v.major, minor |-> IF given = 1 THEN 0 ELSE v.minor]
      /\ V!Bound(high) = [op |-> "<", major |-> v.major + 1, minor |-> 0]
  BY DEF V!Bound
<1>6. V!Below(V!Bound(low), V!Bound(high))
  BY <1>1, <1>5 DEF V!Below, IsRelease
<1>7. V!Parses(r)
  BY <1>2, <1>4, <1>6 DEF V!Parses, V!Ordered
<1>8. ASSUME NEW w \in V!Version
      PROVE  V!Satisfies(w, r) <=> w.major = v.major /\ (given = 2 => w.minor >= v.minor)
  <2>1. IsRelease(w)
    BY VersionsAreReleases
  <2>2. V!Satisfies(w, r) <=> ~V!Below(w, V!Bound(low)) /\ V!Below(w, V!Bound(high))
    BY <1>2, <1>5 DEF V!Satisfies, V!Matches
  <2> QED
    BY <1>1, <1>5, <2>1, <2>2 DEF V!Below, IsRelease
<1>9. IsRange(r)
  <2> HIDE DEF low, high
  <2> QED
    BY <1>2, <1>3 DEF IsRange
<1> QED
  BY <1>7, <1>8, <1>9

\* A range that is read as one is an interval that holds its lower bound, and
\* the range `plgt add` records for a version keeps to its major
\* (version_range.py, cmd/lifecycle.py: _range_from_version_arg).
THEOREM RangesAreSound == ToolsSpec => []RangesHold
<1>1. ToolsInit => RangeInv
  <2>1. CASE range \in Written /\ from = None
    <3> DEFINE hand == [op: V!Op, parts: Seq(Number \cup {Word})]
    <3>1. hand \subseteq Bounds
      <4>1. Seq(Number \cup {Word}) \subseteq Seq(Nat \cup {Word})
        BY RangesAssumption, SeqMonotonic DEF V!NumberAssumption
      <4> QED
        BY <4>1 DEF Bounds
    <3>2. range \in Seq(hand) /\ from = None
      BY <2>1, RangesAssumption DEF V!WrittenAssumption
    <3> HIDE DEF hand
    <3> QED
      BY <3>1, <3>2 DEF RangeInv, IsRange
  <2>2. CASE range = <<>> /\ from = None
    BY <2>2 DEF RangeInv, IsRange
  <2> QED
    BY <2>1, <2>2 DEF ToolsInit, V!Init, RangeInv
<1>2. RangeInv /\ [ToolsNext]_allvars => RangeInv'
  BY PartSteps DEF RangeInv, texts
<1>3. RangeInv => RangesHold
  <2> SUFFICES ASSUME RangeInv PROVE RangesHold
    OBVIOUS
  <2>1. IsRange(range)
    BY RecordedIsRange DEF RangeInv
  <2>2. V!RangesAreIntervals
    BY <2>1, RangesAreConvex, LeastIsAdmitted, OrderDoesNotMatter DEF V!RangesAreIntervals
  <2>3. V!RecordedRangeKeepsMajor
    BY RecordedIsRange DEF RangeInv, V!RecordedRangeKeepsMajor
  <2> QED
    BY <2>2, <2>3 DEF RangesHold
<1> QED
  BY <1>1, <1>2, <1>3, PTL DEF ToolsSpec

-----------------------------------------------------------------------------
(* Scripts *)

\* A set of numbers with a bound has a greatest one.
LEMMA GreatestNumber ==
  ASSUME NEW n \in Nat, NEW t, t \subseteq 1..n, t # {}
  PROVE  \E i \in t : \A j \in t : j <= i
<1> DEFINE u == {n - i : i \in t}
<1>1. \A i \in t : i \in Int /\ n - i \in Nat /\ n - i \in u
  OBVIOUS
<1>2. \A k \in u : \E i \in t : k = n - i
  OBVIOUS
<1> HIDE DEF u
<1>3. u \subseteq Nat /\ u # {}
  BY <1>1, <1>2
<1>4. PICK k \in u : \A l \in u : k <= l
  BY <1>3, AP!LeastNumber
<1>5. PICK i \in t : k = n - i
  BY <1>2
<1>6. ASSUME NEW j \in t PROVE j <= i
  <2>1. n - i <= n - j /\ i \in Int /\ j \in Int
    BY <1>1, <1>4, <1>5
  <2> QED
    BY <2>1
<1> QED
  BY <1>6

\* What is finite, and how large it is, is the same in the model of scripts.
LEMMA SameFiniteSets ==
  ASSUME NEW s
  PROVE  (S!IsFiniteSet(s) <=> IsFiniteSet(s)) /\ S!Cardinality(s) = Cardinality(s)
<1>1. S!IsFiniteSet(s) <=> IsFiniteSet(s)
  BY DEF S!IsFiniteSet, IsFiniteSet
<1>2. S!Cardinality(s) = Cardinality(s)
  BY DEF S!Cardinality, Cardinality, S!IsFiniteSet, IsFiniteSet
<1> QED
  BY <1>1, <1>2

\* A finite set, put in a sequence.
LEMMA InSequence ==
  ASSUME NEW t, IsFiniteSet(t)
  PROVE  LET q == S!SetToSeq(t) IN
         /\ Cardinality(t) \in Nat /\ q \in [1..Cardinality(t) -> t]
         /\ \A x \in t : \E i \in 1..Cardinality(t) : q[i] = x
<1> DEFINE c == Cardinality(t)
           q == S!SetToSeq(t)
<1>1. c \in Nat /\ ExistsBijection(1..c, t)
  BY FS_CardinalityType
<1>2. PICK f \in [1..c -> t] : \A a, b \in 1..c : f[a] = f[b] => a = b
  BY <1>1 DEF ExistsBijection, Bijection, Injection, IsInjective
<1>3. S!IsInjective(f)
  BY <1>2 DEF S!IsInjective
<1>4. q \in [1..c -> t] /\ S!IsInjective(q)
  BY <1>3, SameFiniteSets DEF S!SetToSeq
<1>5. q \in Injection(1..c, t)
  BY <1>4 DEF S!IsInjective, Injection, IsInjective
<1>6. Cardinality(1..c) = c
  BY <1>1, FS_Interval
<1>7. q \in Surjection(1..c, t)
  BY <1>5, <1>6, FS_Injection
<1> QED
  BY <1>1, <1>4, <1>7 DEF Surjection

\* The labels read in a token.
LEMMA LabelsAreFew ==
  ASSUME NEW t \in S!Token
  PROVE  S!Labels(t) \subseteq Prefix /\ IsFiniteSet(S!Labels(t))
<1>1. t.p \in Prefix /\ t.iri \in Iri /\ t.kind \in {"declare", "use", "iri"}
  BY DEF S!Token
<1>2. /\ LabelOf \in [Prefix -> Prefix \cup {None}] /\ InIri[t.iri] \subseteq Prefix
      /\ IsFiniteSet(InIri[t.iri])
  BY <1>1, ScriptsAssumption, SameFiniteSets DEF S!TableAssumption
<1>3. IsFiniteSet({}) /\ IsFiniteSet({LabelOf[t.p]}) /\ IsFiniteSet({LabelOf[t.p]} \ {None})
  BY FS_EmptySet, FS_Singleton, FS_Difference
<1>4. CASE t.kind = "use"
  BY <1>1, <1>2, <1>3, <1>4 DEF S!Labels
<1>5. CASE t.kind = "iri"
  BY <1>1, <1>2, <1>5 DEF S!Labels
<1>6. CASE t.kind = "declare"
  BY <1>1, <1>2, <1>3, <1>6 DEF S!Labels
<1> QED
  BY <1>1, <1>4, <1>5, <1>6

\* A script's tokens.
LEMMA Tokens ==
  ASSUME NEW s \in Seq(S!Token)
  PROVE  /\ Len(s) \in Nat /\ DOMAIN s = 1..Len(s) /\ \A i \in 1..Len(s) : s[i] \in S!Token
         /\ S!InCode(s) \subseteq 1..Len(s) /\ S!Needed(s) \subseteq Prefix
         /\ \A p \in S!Needed(s) : /\ Table[p] \in Iri
                                   /\ \E i \in 1..Len(s) : s[i].at # "quoted" /\ p \in S!Labels(s[i])
         /\ IsFiniteSet(S!Needed(s))
<1> DEFINE code == {j \in DOMAIN s : s[j].at \in S!Code}
           each == {S!Labels(s[i]) : i \in code}
<1>1. Len(s) \in Nat /\ DOMAIN s = 1..Len(s) /\ \A i \in 1..Len(s) : s[i] \in S!Token
  BY LenProperties, ElementOfSeq
<1>2. S!InCode(s) \subseteq 1..Len(s)
  BY <1>1 DEF S!InCode
<1>3. IsFiniteSet(code)
  <2>1. IsFiniteSet(1..Len(s)) /\ code \in SUBSET (1..Len(s))
    BY <1>1, FS_Interval
  <2> QED
    BY <2>1, FS_Subset
<1>4. IsFiniteSet(each)
  <2> DEFINE f == [i \in code |-> S!Labels(s[i])]
  <2>1. f \in Surjection(code, each)
    BY DEF Surjection
  <2> QED
    BY <1>3, <2>1, FS_Surjection
<1>5. \A l \in each : IsFiniteSet(l) /\ l \subseteq Prefix
  BY <1>1, LabelsAreFew
<1>6. S!Used(s) = UNION each
  BY DEF S!Used
<1>7. IsFiniteSet(S!Used(s)) /\ S!Used(s) \subseteq Prefix
  BY <1>4, <1>5, <1>6, FS_UNION
<1>8. S!Needed(s) \in SUBSET S!Used(s) /\ \A p \in S!Needed(s) : Table[p] # None
  BY DEF S!Needed
<1>9. ASSUME NEW p \in S!Needed(s)
      PROVE  \E i \in 1..Len(s) : s[i].at # "quoted" /\ p \in S!Labels(s[i])
  <2>1. PICK i \in code : p \in S!Labels(s[i])
    BY <1>6, <1>8, <1>9
  <2> QED
    BY <1>1, <2>1 DEF S!Code
<1>10. \A p \in S!Needed(s) : Table[p] \in Iri
  BY <1>7, <1>8, ScriptsAssumption DEF S!TableAssumption
<1> HIDE DEF code, each
<1>11. IsFiniteSet(S!Needed(s))
  BY <1>7, <1>8, FS_Subset
<1> QED
  BY <1>1, <1>2, <1>7, <1>8, <1>9, <1>10, <1>11

\* What is put in front of a script: a declaration of each prefix it needs.
LEMMA Front ==
  ASSUME NEW s \in Seq(S!Token)
  PROVE  LET f == S!Fronted(s) IN
         /\ f \in Seq(S!Token) /\ Len(f) \in Nat
         /\ \A i \in 1..Len(f) : f[i].kind = "declare" /\ f[i].at = "code" /\ f[i].p \in S!Needed(s)
                                 /\ f[i].iri = Table[f[i].p]
         /\ \A p \in S!Needed(s) : \E i \in 1..Len(f) : f[i].p = p
<1> DEFINE c == Cardinality(S!Needed(s))
           q == S!SetToSeq(S!Needed(s))
           f == S!Fronted(s)
<1>1. /\ c \in Nat /\ q \in [1..c -> S!Needed(s)]
      /\ \A p \in S!Needed(s) : \E i \in 1..c : q[i] = p
  BY Tokens, InSequence
<1> HIDE DEF c, q
<1>2. f = [i \in 1..c |-> S!Declare(q[i])]
  BY <1>1 DEF S!Fronted, q
<1>3. \A p \in S!Needed(s) : p \in Prefix /\ Table[p] \in Iri
  BY Tokens
<1>4. \A i \in 1..c : f[i] \in S!Token
  BY <1>1, <1>2, <1>3 DEF S!Token, S!Place, S!Declare
<1>5. f \in Seq(S!Token) /\ Len(f) = c
  BY <1>1, <1>2, <1>4
<1>6. \A i \in 1..c : f[i].kind = "declare" /\ f[i].at = "code" /\ f[i].p \in S!Needed(s)
                      /\ f[i].iri = Table[f[i].p]
  BY <1>1, <1>2 DEF S!Declare
<1>7. \A p \in S!Needed(s) : \E i \in 1..c : f[i].p = p
  BY <1>1, <1>2 DEF S!Declare
<1> HIDE DEF f
<1> QED
  BY <1>1, <1>5, <1>6, <1>7 DEF f

\* A script with its declarations in front.
LEMMA Whole ==
  ASSUME NEW s \in Seq(S!Token)
  PROVE  LET f == S!Fronted(s)
             n == Len(f)
             out == S!Inlined(s)
         IN  /\ out \in Seq(S!Token) /\ n \in Nat /\ Len(out) = n + Len(s)
             /\ \A i \in 1..n : out[i] = f[i]
             /\ \A i \in 1..Len(s) : out[i + n] = s[i]
<1> DEFINE f == S!Fronted(s)
           out == S!Inlined(s)
<1>1. f \in Seq(S!Token) /\ Len(f) \in Nat /\ s \in Seq(S!Token) /\ Len(s) \in Nat
  BY Front, Tokens
<1>2. out = f \o s
  BY DEF S!Inlined
<1> HIDE DEF f, out
<1>3. /\ out \in Seq(S!Token) /\ Len(out) = Len(f) + Len(s)
      /\ \A i \in 1..Len(f) + Len(s) : out[i] = IF i <= Len(f) THEN f[i] ELSE s[i - Len(f)]
  BY <1>1, <1>2, ConcatProperties
<1>4. \A i \in 1..Len(f) : out[i] = f[i]
  BY <1>1, <1>3
<1>5. \A i \in 1..Len(s) : out[i + Len(f)] = s[i]
  BY <1>1, <1>3
<1> QED
  BY <1>1, <1>3, <1>4, <1>5 DEF f, out

\* The declarations in code that a name is after.
Before(s, i) == {j \in 1..i : s[j].kind = "declare" /\ s[j].p = s[i].p /\ s[j].at # "quoted"}

\* The last of them gives the meaning.
LEMMA LastCounts ==
  ASSUME NEW s, NEW i \in Nat, NEW l \in Before(s, i), \A k \in Before(s, i) : k <= l
  PROVE  S!Meaning(s, i) = s[l].iri
<1> DEFINE b == Before(s, i)
<1>1. \A j \in b : (\A k \in b : k <= j) => j = l
  BY DEF Before
<1>2. S!Meaning(s, i) = s[CHOOSE j \in b : \A k \in b : k <= j].iri
  BY DEF S!Meaning, Before
<1> HIDE DEF b
<1>3. (CHOOSE j \in b : \A k \in b : k <= j) = l
  BY <1>1 DEF b
<1> QED
  BY <1>2, <1>3

\* Without one there is none.
LEMMA NoneCounts ==
  ASSUME NEW s, NEW i, Before(s, i) = {}
  PROVE  S!Meaning(s, i) = None
BY DEF S!Meaning, Before

\* What a name means with the declarations in front: what it meant, or else
\* what the table says, if it was needed.
LEMMA FrontMeans ==
  ASSUME NEW s \in Seq(S!Token), NEW i \in S!InCode(s)
  PROVE  LET n == Len(S!Fronted(s)) IN
         /\ Before(s, i) # {} =>
              /\ S!Meaning(S!Inlined(s), i + n) = S!Meaning(s, i)
              /\ Before(S!Inlined(s), i + n) # {}
         /\ Before(s, i) = {} /\ s[i].p \in S!Needed(s) =>
              /\ S!Meaning(S!Inlined(s), i + n) = Table[s[i].p]
              /\ Before(S!Inlined(s), i + n) # {}
         /\ Before(s, i) = {} /\ s[i].p \notin S!Needed(s) => Before(S!Inlined(s), i + n) = {}
<1> DEFINE f == S!Fronted(s)
           n == Len(f)
           out == S!Inlined(s)
           b == Before(s, i)
           d == Before(out, i + n)
<1>1. /\ n \in Nat /\ Len(s) \in Nat /\ i \in 1..Len(s)
      /\ \A j \in 1..n : /\ out[j] = f[j] /\ f[j].kind = "declare" /\ f[j].at = "code"
                         /\ f[j].p \in S!Needed(s) /\ f[j].iri = Table[f[j].p]
      /\ \A j \in 1..Len(s) : out[j + n] = s[j]
      /\ \A p \in S!Needed(s) : \E j \in 1..n : f[j].p = p
  BY Front, Whole, Tokens
<1> HIDE DEF f, n, out
<1>2. i + n \in Nat /\ out[i + n].p = s[i].p
  BY <1>1
<1>3. \A j \in 1..i : j + n \in d <=> j \in b
  BY <1>1, <1>2 DEF Before
<1>4. \A j \in 1..n : j \in d <=> f[j].p = s[i].p
  BY <1>1, <1>2 DEF Before
<1>5. \A j \in d : j \in 1..n \/ \E k \in 1..i : j = k + n
  <2> SUFFICES ASSUME NEW j \in d, j \notin 1..n PROVE \E k \in 1..i : j = k + n
    OBVIOUS
  <2>1. j \in 1..(i + n)
    BY DEF Before
  <2>2. j - n \in 1..i /\ j = (j - n) + n
    BY <1>1, <2>1
  <2> QED
    BY <2>2
<1>6. b \subseteq 1..i
  BY DEF Before
<1>7. ASSUME b # {} PROVE S!Meaning(out, i + n) = S!Meaning(s, i) /\ d # {}
  <2>1. PICK l \in b : \A k \in b : k <= l
    BY <1>1, <1>6, <1>7, GreatestNumber
  <2>2. l + n \in d
    BY <1>3, <1>6
  <2>3. \A k \in d : k <= l + n
    <3> SUFFICES ASSUME NEW k \in d PROVE k <= l + n
      OBVIOUS
    <3>1. l \in 1..i
      BY <1>6
    <3>2. CASE k \in 1..n
      BY <1>1, <3>1, <3>2
    <3>3. ASSUME NEW j \in 1..i, k = j + n PROVE k <= l + n
      <4>1. j \in b
        BY <1>3, <3>3
      <4> QED
        BY <1>1, <2>1, <3>1, <3>3, <4>1
    <3>4. k \in 1..n \/ \E j \in 1..i : k = j + n
      BY <1>5
    <3> QED
      BY <3>2, <3>3, <3>4
  <2>4. out[l + n].iri = s[l].iri
    BY <1>1, <1>6
  <2> QED
    BY <1>1, <1>2, <2>1, <2>2, <2>3, <2>4, LastCounts
<1>8. ASSUME b = {}, s[i].p \in S!Needed(s)
      PROVE  S!Meaning(out, i + n) = Table[s[i].p] /\ d # {}
  <2>0. PICK j \in 1..n : f[j].p = s[i].p
    BY <1>1, <1>8
  <2>1. d # {} /\ d \subseteq 1..n
    <3>1. j \in d
      BY <1>4, <2>0
    <3>2. \A k \in d : k \in 1..n
      BY <1>3, <1>5, <1>8
    <3> QED
      BY <3>1, <3>2
  <2>2. PICK l \in d : \A k \in d : k <= l
    BY <1>1, <2>1, GreatestNumber
  <2>3. out[l].iri = Table[s[i].p]
    BY <1>1, <1>4, <2>1
  <2> QED
    BY <1>2, <2>1, <2>2, <2>3, LastCounts
<1>9. ASSUME b = {}, s[i].p \notin S!Needed(s) PROVE d = {}
  <2> SUFFICES ASSUME NEW k \in d PROVE FALSE
    OBVIOUS
  <2>1. CASE k \in 1..n
    BY <1>1, <1>4, <1>9, <2>1
  <2>2. CASE \E j \in 1..i : k = j + n
    BY <1>3, <1>9, <2>2
  <2> QED
    BY <1>5, <2>1, <2>2
<1> QED
  BY <1>7, <1>8, <1>9 DEF f, n, out

\* A script's names keep their meaning, those the patterns miss included, and
\* those the patterns read and nothing declares take the table's, for every
\* script, table and reading of labels (script_expander.py:
\* inline_with_prefixes).
THEOREM InlinedNamesResolve == ToolsSpec => []InlinedResolves
<1>1. ASSUME NEW s \in Seq(S!Token), NEW i \in S!InCode(s)
      PROVE  LET t == s[i]
                 own == S!Meaning(s, i)
                 out == S!Inlined(s)
                 n == Len(S!Fronted(s))
                 m == Len(S!Fronted(out))
                 got == S!Meaning(out, i + n)
             IN  /\ own # None => got = own
                 /\ own = None => got \in {None, Table[t.p]}
                 /\ S!Open(s, i) /\ t.local = "letter" /\ LabelOf[t.p] = t.p => got = Table[t.p]
                 /\ got # None => S!Meaning(S!Inlined(out), i + n + m) = got
  <2> DEFINE t == s[i]
             out == S!Inlined(s)
             n == Len(S!Fronted(s))
             m == Len(S!Fronted(out))
  <2>1. /\ i \in 1..Len(s) /\ t \in S!Token /\ t.kind = "use" /\ t.at # "quoted"
        /\ DOMAIN s = 1..Len(s) /\ Len(s) \in Nat
    BY Tokens DEF S!InCode
  <2>2. out \in Seq(S!Token) /\ n \in Nat /\ out[i + n] = t /\ i + n \in S!InCode(out)
    BY <2>1, Whole, Tokens DEF S!InCode
  <2>3. S!Meaning(s, i) # None => S!Meaning(out, i + n) = S!Meaning(s, i)
    BY FrontMeans, NoneCounts
  <2>4. S!Meaning(s, i) = None => S!Meaning(out, i + n) \in {None, Table[t.p]}
    <3>1. CASE Before(s, i) # {}
      BY <3>1, FrontMeans
    <3>2. CASE Before(s, i) = {}
      BY <3>2, FrontMeans, NoneCounts
    <3> QED
      BY <3>1, <3>2
  <2>5. ASSUME S!Open(s, i), t.local = "letter", LabelOf[t.p] = t.p
        PROVE  S!Meaning(out, i + n) = Table[t.p]
    <3>1. Before(s, i) = {}
      BY <2>1, <2>5 DEF Before, S!Open
    <3>2. t.p # None
      BY <2>1, ScriptsAssumption DEF S!TableAssumption, S!Token
    <3>3. t.p \in S!Labels(t)
      BY <2>1, <2>5, <3>2 DEF S!Labels
    <3>4. t.p \in S!Used(s)
      BY <2>1, <3>3 DEF S!Used, S!Code, S!Token, S!Place
    <3>5. t.p \notin S!Declared(s)
      BY <2>1, <2>5 DEF S!Declared, S!Seen, S!Open
    <3>6. t.p \in S!Needed(s) <=> Table[t.p] # None
      BY <3>4, <3>5 DEF S!Needed
    <3> QED
      BY <3>1, <3>6, FrontMeans, NoneCounts
  <2>6. S!Meaning(out, i + n) # None => S!Meaning(S!Inlined(out), i + n + m) = S!Meaning(out, i + n)
    BY <2>2, FrontMeans, NoneCounts
  <2> QED
    BY <2>3, <2>4, <2>5, <2>6
<1>2. ASSUME NEW s \in Seq(S!Token), NEW p \in S!Needed(s)
      PROVE  \E i \in DOMAIN s : s[i].at # "quoted" /\ p \in S!Labels(s[i])
  BY Tokens
<1>3. script \in Seq(S!Token) => InlinedResolves
  BY <1>1, <1>2 DEF InlinedResolves, S!InlinedResolves
<1>4. ToolsInit => script \in Seq(S!Token)
  BY ScriptsAssumption, EmptySeq DEF ToolsInit, S!Init, S!TableAssumption
<1>5. script \in Seq(S!Token) /\ [ToolsNext]_allvars => (script \in Seq(S!Token))'
  BY DEF ToolsNext, allvars, Lsp, Authors, Releases, Binds, Types, Edits, texts
<1> QED
  BY <1>3, <1>4, <1>5, PTL DEF ToolsSpec

-----------------------------------------------------------------------------
(* Bindings *)

\* No URI is bound twice for a kind.
BoundOnce == \A b, c \in bound : b.kind = c.kind /\ b.uri = c.uri => b = c

\* Each flag taken is at what it was for.
FlagsMeant == \A i \in at : i \in DOMAIN case.flags /\ B!Meant(case, case.flags[i]) # {}

\* What was asked for was given, or will be warned of.
AskedAnswered == step # "end" => \A k, u : <<k, u>> \in asked => B!Has(k, u) \/ <<k, u>> \in skipped

\* What is known of the required, once the prompts are over.
AllThere ==
  \A k \in B!Kind : \A u \in B!Required(case, k) : B!Has(k, u) \/ <<k, u>> \in skipped

\* Each secret encrypted so far was bound, and has a key of its own.
SealedOnce ==
  /\ keys \in Nat
  /\ \A s \in sealed :
       /\ s.key \in 1..keys
       /\ \E b \in bound : b.kind = "secret" /\ b.uri = s.uri
  /\ \A s, t \in sealed : s.key = t.key => s = t

\* How far the run is.
Reached ==
  /\ step \in {"start", "flags", "ask", "seal", "build", "end"}
  /\ step = "start" => bound = {} /\ at = {}
  /\ step \in {"start", "flags"} => asked = {} /\ skipped = {}
  /\ step \in {"start", "flags", "ask"} => sealed = {} /\ keys = 0
  /\ step \in {"ask", "seal", "build"} => at = DOMAIN case.flags
  /\ step \in {"seal", "build"} => AllThere
  /\ step = "build" => {s.uri : s \in sealed} = {b.uri : b \in {x \in bound : x.kind = "secret"}}
  /\ step # "end" => outcome = None

\* What holds of a run of an install.
BindingsInv ==
  /\ case \in Cases /\ BoundOnce /\ FlagsMeant /\ AskedAnswered /\ SealedOnce /\ Reached
  /\ BindingsHold

\* The end is an outcome.
LEMMA NoneIsNotOver == None \notin {"sent", "refused"}
BY BindingsAssumption DEF B!CasesAssumption, B!Outcome

\* The end of a run that is neither sent nor refused.
LEMMA EndsOtherwise ==
  ASSUME BindingsInv, NEW how, how \notin {"sent", "refused"}, B!End(how), case' = case,
         BoundOnce', FlagsMeant', SealedOnce'
  PROVE  BindingsInv'
<1>1. step' = "end" /\ outcome' = how
  BY DEF B!End
<1>2. BindingsHold'
  BY <1>1 DEF BindingsHold, B!RequestIsComplete, B!BadFlagsCostNothing
<1>3. AskedAnswered' /\ Reached'
  BY <1>1 DEF AskedAnswered, Reached
<1> QED
  BY <1>2, <1>3 DEF BindingsInv

\* A step to somewhere else, or none.
LEMMA GoesOnTo ==
  ASSUME BindingsInv, step # "end", outcome' = outcome, case' = case,
         BoundOnce', FlagsMeant', AskedAnswered', SealedOnce', Reached'
  PROVE  BindingsInv'
<1>1. outcome' = None
  BY DEF BindingsInv, Reached
<1>2. BindingsHold'
  BY <1>1, NoneIsNotOver DEF BindingsHold, B!RequestIsComplete, B!BadFlagsCostNothing
<1> QED
  BY <1>2 DEF BindingsInv

\* The declarations, read: those without any need none.
LEMMA DiscoverKeeps ==
  ASSUME BindingsInv, B!Discover
  PROVE  BindingsInv'
<1>1. /\ UNCHANGED <<case, at, bound, asked, skipped, keys, sealed>> /\ step = "start" /\ outcome = None
      /\ bound = {} /\ at = {} /\ asked = {} /\ skipped = {} /\ sealed = {} /\ keys = 0
  BY DEF B!Discover, BindingsInv, Reached
<1>2. case' \in Cases /\ BoundOnce' /\ FlagsMeant' /\ AskedAnswered' /\ SealedOnce'
  BY <1>1 DEF BindingsInv, BoundOnce, FlagsMeant, B!Meant, AskedAnswered, SealedOnce
<1>3. CASE B!Goto("flags")
  <2>1. Reached'
    BY <1>1, <1>3 DEF B!Goto, Reached
  <2> QED
    BY <1>1, <1>2, <1>3, <2>1, GoesOnTo DEF B!Goto
<1>4. CASE B!End("refused")
  <2>1. Reached'
    BY <1>1, <1>4 DEF B!End, Reached
  <2>2. BindingsHold'
    BY <1>1, <1>4 DEF B!End, BindingsHold, B!RequestIsComplete, B!BadFlagsCostNothing
  <2> QED
    BY <1>2, <2>1, <2>2 DEF BindingsInv
<1>5. CASE /\ B!Declared(case, "variable") \cup B!Declared(case, "secret") = {} /\ case.flags = <<>>
           /\ B!Goto("build")
  <2>1. AllThere'
    <3>1. \A k : B!Required(case, k) \subseteq B!Declared(case, k)
      BY DEF B!Required, B!Declared
    <3> QED
      BY <1>1, <1>5, <3>1 DEF AllThere, B!Kind
  <2>2. at = DOMAIN case.flags
    BY <1>1, <1>5
  <2>3. Reached'
    BY <1>1, <1>5, <2>1, <2>2 DEF B!Goto, Reached
  <2> QED
    BY <1>1, <1>2, <1>5, <2>3, GoesOnTo DEF B!Goto
<1> QED
  BY <1>3, <1>4, <1>5 DEF B!Discover

\* The first file that has the prefix gives it this namespace.
ByFirst(c, prefix, ns) ==
  \E i \in B!Read(c) : /\ prefix \in DOMAIN c.files[i].prefixes
                       /\ c.files[i].prefixes[prefix] = ns
                       /\ \A j \in B!Read(c) : j < i => prefix \notin DOMAIN c.files[j].prefixes

\* What a flag resolves to, when that is declared, is what it is for.
LEMMA ResolvesToMeant ==
  ASSUME NEW c \in Cases, NEW i \in DOMAIN c.flags, NEW b, NEW f, f = c.flags[i],
         f.form # "malformed", B!Resolve(c, f) \in B!Declared(c, f.kind),
         b.kind = f.kind, b.uri = B!Resolve(c, f), b.value = f.value
  PROVE  /\ b.uri[2] = f.local
         /\ f.form = "uri" => b.uri[1] = f.of
         /\ f.form = "qname" => ByFirst(c, f.of, b.uri[1])
         /\ f.form = "name" => \A k \in B!Kind : \A u \in B!Declared(c, k) :
                                 u[2] = f.local => k = f.kind /\ u = b.uri
<1>1. f.kind \in B!Kind /\ f.form \in B!Form
  BY BindingsAssumption DEF B!CasesAssumption
<1>2. b.uri # None
  <2>1. PICK d \in B!Declarations(B!Here(c), f.kind) : b.uri = d.uri
    BY DEF B!Declared
  <2>2. PICK j \in DOMAIN c.files : d \in c.files[j].declares
    BY <2>1 DEF B!Declarations, B!Here, B!Read
  <2> QED
    BY <2>1, <2>2, BindingsAssumption DEF B!CasesAssumption
<1>3. CASE f.form = "uri"
  BY <1>3 DEF B!Resolve, B!URI
<1>4. CASE f.form = "qname"
  <2>1. b.uri = <<B!Namespace(c, f.of), f.local>> /\ B!Binders(c, f.of) # {}
    BY <1>2, <1>4 DEF B!Resolve, B!URI
  <2>2. B!Binders(c, f.of) \subseteq Nat
    BY BindingsAssumption DEF B!CasesAssumption, B!Binders, B!Read
  <2>3. \E m \in B!Binders(c, f.of) : \A j \in B!Binders(c, f.of) : m <= j
    BY <2>1, <2>2, AP!LeastNumber
  <2> DEFINE first == CHOOSE m \in B!Binders(c, f.of) : \A j \in B!Binders(c, f.of) : m <= j
  <2>4. first \in B!Binders(c, f.of) /\ \A j \in B!Binders(c, f.of) : first <= j
    BY <2>3
  <2>5. B!Namespace(c, f.of) = c.files[first].prefixes[f.of]
    BY DEF B!Namespace
  <2> HIDE DEF first
  <2>6. ByFirst(c, f.of, b.uri[1])
    <3>1. \A j \in B!Read(c) : j < first => f.of \notin DOMAIN c.files[j].prefixes
      <4> SUFFICES ASSUME NEW j \in B!Read(c), j < first, f.of \in DOMAIN c.files[j].prefixes
                   PROVE  FALSE
        OBVIOUS
      <4>1. j \in B!Binders(c, f.of)
        BY DEF B!Binders
      <4> QED
        BY <2>2, <2>4, <4>1
    <3>2. first \in B!Read(c) /\ f.of \in DOMAIN c.files[first].prefixes
      BY <2>4 DEF B!Binders
    <3>3. b.uri[1] = B!Namespace(c, f.of)
      BY <2>1
    <3>4. c.files[first].prefixes[f.of] = b.uri[1]
      BY <2>5, <3>3
    <3> QED
      BY <3>1, <3>2, <3>4 DEF ByFirst
  <2> QED
    BY <1>4, <2>1, <2>6
<1>5. CASE f.form = "name"
  <2> DEFINE matches == B!Named(c, f.local)
  <2>1. b.uri = B!TheOnly(matches)
    BY <1>2, <1>5 DEF B!Resolve
  <2>2. PICK m \in matches : matches = {m}
    BY <1>2, <2>1 DEF B!TheOnly
  <2>3. b.uri = m.uri
    BY <2>1, <2>2 DEF B!TheOnly
  <2>4. ASSUME NEW k \in B!Kind, NEW u \in B!Declared(c, k), u[2] = f.local
        PROVE  [kind |-> k, uri |-> u] \in matches
    <3>1. PICK d \in B!Declarations(B!Here(c), k) : u = d.uri
      BY <2>4 DEF B!Declared
    <3>2. d.kind = k
      BY <3>1 DEF B!Declarations
    <3>3. d \in {e \in UNION {B!Declarations(B!Here(c), l) : l \in B!Kind} : e.uri[2] = f.local}
      BY <2>4, <3>1
    <3> QED
      BY <3>1, <3>2, <3>3 DEF B!Named
  <2>5. m.uri[2] = f.local
    BY DEF B!Named
  <2>6. [kind |-> f.kind, uri |-> b.uri] \in matches
    BY <1>1, <2>3, <2>4, <2>5
  <2>7. \A k \in B!Kind : \A u \in B!Declared(c, k) : u[2] = f.local => k = f.kind /\ u = b.uri
    <3> SUFFICES ASSUME NEW k \in B!Kind, NEW u \in B!Declared(c, k), u[2] = f.local
                 PROVE  k = f.kind /\ u = b.uri
      OBVIOUS
    <3>1. [kind |-> k, uri |-> u] = [kind |-> f.kind, uri |-> b.uri]
      BY <2>2, <2>4, <2>6
    <3> QED
      BY <3>1
  <2> QED
    BY <1>5, <2>3, <2>5, <2>7
<1> QED
  BY <1>1, <1>3, <1>4, <1>5 DEF B!Form

\* A binding more, for a URI that has none of the kind.
LEMMA OneMore ==
  ASSUME BoundOnce, FlagsMeant, SealedOnce, NEW b, ~B!Has(b.kind, b.uri), bound' = bound \cup {b},
         case' = case, keys' = keys, sealed' = sealed
  PROVE  /\ BoundOnce' /\ SealedOnce'
         /\ \A i \in at : i \in DOMAIN case.flags /\ B!Meant(case, case.flags[i])' # {}
         /\ \A k, u : B!Has(k, u) => B!Has(k, u)'
<1>1. BoundOnce'
  BY DEF BoundOnce, B!Has
<1>2. SealedOnce'
  BY DEF SealedOnce
<1>3. \A i \in at : i \in DOMAIN case.flags /\ B!Meant(case, case.flags[i])' # {}
  BY DEF FlagsMeant, B!Meant
<1> QED
  BY <1>1, <1>2, <1>3 DEF B!Has

\* A flag taken is the only binding of its URI, at the declaration it is for.
LEMMA FlagKeeps ==
  ASSUME BindingsInv, B!Flag
  PROVE  BindingsInv'
<1>1. PICK i \in B!Left :
       LET f == case.flags[i] IN
       \/ B!End("refused") /\ UNCHANGED <<at, bound>>
       \/ /\ f.form # "malformed" /\ ~B!Refused(case, f)
          /\ bound' = bound \cup {[kind |-> f.kind, uri |-> B!Resolve(case, f), value |-> f.value]}
          /\ at' = at \cup {i} /\ UNCHANGED <<step, outcome>>
  BY DEF B!Flag
<1>2. /\ UNCHANGED <<case, asked, skipped, keys, sealed>> /\ step = "flags" /\ i \in DOMAIN case.flags
      /\ asked = {} /\ skipped = {} /\ sealed = {} /\ keys = 0 /\ outcome = None
  BY DEF B!Flag, B!Left, BindingsInv, Reached
<1>3. CASE B!End("refused") /\ UNCHANGED <<at, bound>>
  <2>1. case' \in Cases /\ BoundOnce' /\ FlagsMeant' /\ AskedAnswered' /\ SealedOnce'
    BY <1>2, <1>3 DEF BindingsInv, BoundOnce, FlagsMeant, B!Meant, AskedAnswered, SealedOnce
  <2>2. Reached' /\ BindingsHold'
    BY <1>2, <1>3 DEF B!End, Reached, BindingsHold, B!RequestIsComplete, B!BadFlagsCostNothing
  <2> QED
    BY <2>1, <2>2 DEF BindingsInv
<1>4. ASSUME NEW f, f = case.flags[i], f.form # "malformed", ~B!Refused(case, f), NEW b,
             b = [kind |-> f.kind, uri |-> B!Resolve(case, f), value |-> f.value],
             bound' = bound \cup {b}, at' = at \cup {i}, UNCHANGED <<step, outcome>>
      PROVE  BindingsInv'
  <2>1. ~B!Has(b.kind, b.uri) /\ B!Resolve(case, f) \in B!Declared(case, f.kind)
    BY <1>4 DEF B!Refused
  <2>2. /\ BoundOnce' /\ SealedOnce'
        /\ \A j \in at : j \in DOMAIN case.flags /\ B!Meant(case, case.flags[j])' # {}
    BY <1>2, <1>4, <2>1, OneMore DEF BindingsInv
  <2>3. B!Meant(case, case.flags[i])' # {}
    <3>1. /\ b.uri[2] = f.local
          /\ f.form = "uri" => b.uri[1] = f.of
          /\ f.form = "qname" => ByFirst(case, f.of, b.uri[1])
          /\ f.form = "name" => \A k \in B!Kind : \A u \in B!Declared(case, k) :
                                  u[2] = f.local => k = f.kind /\ u = b.uri
      BY <1>2, <1>4, <2>1, ResolvesToMeant DEF BindingsInv
    <3>2. b \in B!Meant(case, f)'
      BY <1>2, <1>4, <3>1 DEF B!Meant, ByFirst
    <3> QED
      BY <1>2, <1>4, <3>2
  <2>4. FlagsMeant'
    BY <1>2, <1>4, <2>2, <2>3 DEF FlagsMeant
  <2>5. AskedAnswered' /\ Reached'
    BY <1>2, <1>4 DEF BindingsInv, AskedAnswered, Reached
  <2> QED
    BY <1>2, <1>4, <2>2, <2>4, <2>5, GoesOnTo DEF BindingsInv
<1> QED
  BY <1>1, <1>3, <1>4

\* All flags are taken.
LEMMA FlagsDoneKeeps ==
  ASSUME BindingsInv, B!FlagsDone
  PROVE  BindingsInv'
<1>1. /\ UNCHANGED <<case, at, bound, asked, skipped, keys, sealed, outcome>>
      /\ step = "flags" /\ step' = "ask" /\ at = DOMAIN case.flags /\ outcome = None
      /\ sealed = {} /\ keys = 0
  BY DEF B!FlagsDone, B!Goto, B!Left, BindingsInv, FlagsMeant, Reached
<1>2. BoundOnce' /\ FlagsMeant' /\ AskedAnswered' /\ SealedOnce'
  BY <1>1 DEF BindingsInv, BoundOnce, FlagsMeant, B!Meant, AskedAnswered, B!Has, SealedOnce
<1>3. Reached'
  BY <1>1 DEF Reached
<1> QED
  BY <1>1, <1>2, <1>3, GoesOnTo

\* What is asked for next is not bound.
LEMMA NextIsWanted ==
  ASSUME B!Wanted("variable") \cup B!Wanted("secret") # {}
  PROVE  \E k, u : B!NextWanted = <<k, u>> /\ ~B!Has(k, u)
BY DEF B!NextWanted, B!Wanted

\* An answer, a gap for the warning, or an interruption.
LEMMA PromptKeeps ==
  ASSUME BindingsInv, B!Ask
  PROVE  BindingsInv'
<1>1. PICK k, u : B!NextWanted = <<k, u>> /\ ~B!Has(k, u)
  BY NextIsWanted DEF B!Ask
<1>2. /\ UNCHANGED <<case, at, keys, sealed>> /\ step = "ask" /\ at = DOMAIN case.flags /\ outcome = None
      /\ sealed = {} /\ keys = 0
  BY DEF B!Ask, BindingsInv, Reached
<1>3. FlagsMeant /\ BoundOnce /\ SealedOnce /\ AskedAnswered /\ Reached /\ at' = at
  BY <1>2 DEF BindingsInv
<1>4. CASE /\ asked' = asked \cup {<<k, u>>} /\ UNCHANGED <<skipped, step, outcome>>
           /\ bound' = bound \cup {[kind |-> k, uri |-> u, value |-> "typed"]}
  <2>1. /\ BoundOnce' /\ SealedOnce'
        /\ \A i \in at : i \in DOMAIN case.flags /\ B!Meant(case, case.flags[i])' # {}
        /\ \A l, v : B!Has(l, v) => B!Has(l, v)'
    BY <1>1, <1>2, <1>3, <1>4, OneMore
  <2>2. FlagsMeant'
    BY <1>2, <2>1 DEF FlagsMeant
  <2>3. B!Has(k, u)'
    <3> DEFINE answer == [kind |-> k, uri |-> u, value |-> "typed"]
    <3>1. answer \in bound'
      BY <1>4
    <3>2. answer.kind = k /\ answer.uri = u
      OBVIOUS
    <3> QED
      BY <3>1, <3>2 DEF B!Has
  <2>4. AskedAnswered'
    BY <1>2, <1>3, <1>4, <2>1, <2>3 DEF AskedAnswered
  <2>5. Reached'
    BY <1>2, <1>4 DEF Reached
  <2> QED
    BY <1>2, <1>4, <2>1, <2>2, <2>4, <2>5, GoesOnTo
<1>5. CASE /\ asked' \in {asked, asked \cup {<<k, u>>}} /\ skipped' = skipped \cup {<<k, u>>}
           /\ UNCHANGED <<bound, step, outcome>>
  <2>1. BoundOnce' /\ FlagsMeant' /\ SealedOnce'
    BY <1>2, <1>3, <1>5 DEF BoundOnce, FlagsMeant, B!Meant, SealedOnce
  <2>2. AskedAnswered'
    BY <1>2, <1>3, <1>5 DEF AskedAnswered, B!Has
  <2>3. Reached'
    BY <1>2, <1>5 DEF Reached
  <2> QED
    BY <1>2, <1>5, <2>1, <2>2, <2>3, GoesOnTo
<1>6. CASE B!End("interrupted") /\ UNCHANGED <<bound, skipped>>
  <2>1. BoundOnce' /\ FlagsMeant' /\ SealedOnce'
    BY <1>2, <1>3, <1>6 DEF BoundOnce, FlagsMeant, B!Meant, SealedOnce
  <2> QED
    BY <1>2, <1>6, <2>1, EndsOtherwise
<1> QED
  BY <1>1, <1>4, <1>5, <1>6 DEF B!Ask

\* Nothing required is left to ask for.
LEMMA AskDoneKeeps ==
  ASSUME BindingsInv, B!AskDone
  PROVE  BindingsInv'
<1>1. /\ UNCHANGED <<case, at, bound, asked, skipped, keys, sealed, outcome>>
      /\ step = "ask" /\ step' = "seal" /\ outcome = None /\ at = DOMAIN case.flags
  BY DEF B!AskDone, B!Goto, BindingsInv, Reached
<1>2. AllThere'
  <2>1. ASSUME NEW k \in B!Kind, NEW u \in B!Required(case, k), ~B!Has(k, u)
        PROVE  <<k, u>> \in skipped
    <3>1. B!Wanted(k) = {}
      BY DEF B!AskDone, B!Kind
    <3>2. <<k, u>> \in asked \cup skipped
      BY <2>1, <3>1 DEF B!Wanted
    <3> QED
      BY <1>1, <2>1, <3>2 DEF BindingsInv, AskedAnswered
  <2> QED
    BY <1>1, <2>1 DEF AllThere, B!Has
<1>3. BoundOnce' /\ FlagsMeant' /\ AskedAnswered' /\ SealedOnce'
  BY <1>1 DEF BindingsInv, BoundOnce, FlagsMeant, B!Meant, AskedAnswered, B!Has, SealedOnce
<1>4. Reached'
  BY <1>1, <1>2 DEF Reached
<1> QED
  BY <1>1, <1>3, <1>4, GoesOnTo

\* A secret more, under the next key.
LEMMA SealKeeps ==
  ASSUME BindingsInv, B!Seal
  PROVE  BindingsInv'
<1>1. /\ UNCHANGED <<case, at, bound, asked, skipped>> /\ step = "seal" /\ outcome = None
      /\ at = DOMAIN case.flags /\ AllThere
  BY DEF B!Seal, BindingsInv, Reached
<1>2. BoundOnce' /\ FlagsMeant'
  BY <1>1 DEF BindingsInv, BoundOnce, FlagsMeant, B!Meant
<1>3. CASE B!End("failed") /\ UNCHANGED <<keys, sealed>>
  <2>1. SealedOnce'
    BY <1>1, <1>3 DEF BindingsInv, SealedOnce
  <2> QED
    BY <1>1, <1>2, <1>3, <2>1, EndsOtherwise
<1>4. ASSUME NEW b \in B!Unsealed, keys' = keys + 1,
             sealed' = sealed \cup {[uri |-> b.uri, key |-> keys + 1]}, UNCHANGED <<step, outcome>>
      PROVE  BindingsInv'
  <2>1. SealedOnce'
    BY <1>1, <1>4 DEF BindingsInv, SealedOnce, B!Unsealed
  <2>2. AskedAnswered' /\ Reached'
    BY <1>1, <1>4 DEF BindingsInv, AskedAnswered, B!Has, Reached, AllThere
  <2> QED
    BY <1>1, <1>2, <1>4, <2>1, <2>2, GoesOnTo
<1>5. PICK b \in B!Unsealed : b = CHOOSE c \in B!Unsealed : TRUE
  BY DEF B!Seal
<1> QED
  BY <1>3, <1>4, <1>5 DEF B!Seal, B!KeyOf

\* All secrets are encrypted.
LEMMA SealDoneKeeps ==
  ASSUME BindingsInv, B!SealDone
  PROVE  BindingsInv'
<1>1. /\ UNCHANGED <<case, at, bound, asked, skipped, keys, sealed, outcome>>
      /\ step = "seal" /\ step' = "build" /\ outcome = None /\ at = DOMAIN case.flags /\ AllThere
  BY DEF B!SealDone, B!Goto, BindingsInv, Reached
<1>2. {s.uri : s \in sealed} = {b.uri : b \in {x \in bound : x.kind = "secret"}}
  <2>1. \A b \in bound : b.kind = "secret" => \E s \in sealed : s.uri = b.uri
    BY DEF B!SealDone, B!Unsealed
  <2>2. \A s \in sealed : \E b \in bound : b.kind = "secret" /\ b.uri = s.uri
    BY DEF BindingsInv, SealedOnce
  <2> QED
    BY <2>1, <2>2
<1>3. BoundOnce' /\ FlagsMeant' /\ AskedAnswered' /\ SealedOnce'
  BY <1>1 DEF BindingsInv, BoundOnce, FlagsMeant, B!Meant, AskedAnswered, B!Has, SealedOnce
<1>4. Reached'
  BY <1>1, <1>2 DEF Reached, AllThere, B!Has
<1> QED
  BY <1>1, <1>3, <1>4, GoesOnTo

\* A request that is sent leaves nothing out.
LEMMA SendKeeps ==
  ASSUME BindingsInv, B!BuildAndSend
  PROVE  BindingsInv'
<1>1. /\ UNCHANGED <<case, at, bound, asked, skipped, keys, sealed>> /\ step = "build"
      /\ at = DOMAIN case.flags /\ AllThere
      /\ {s.uri : s \in sealed} = {b.uri : b \in {x \in bound : x.kind = "secret"}}
  BY DEF B!BuildAndSend, BindingsInv, Reached
<1>2. BoundOnce' /\ FlagsMeant' /\ SealedOnce'
  BY <1>1 DEF BindingsInv, BoundOnce, FlagsMeant, B!Meant, SealedOnce
<1>3. CASE B!End("failed")
  BY <1>1, <1>2, <1>3, EndsOtherwise
<1>4. CASE (case.registry \/ B!Read(case) = DOMAIN case.files) /\ B!End("sent")
  <2>1. step' = "end" /\ outcome' = "sent"
    BY <1>4 DEF B!End
  <2>2. B!Read(case) = DOMAIN case.files
    BY <1>4, BindingsAssumption DEF BindingsInv, B!CasesAssumption, B!Read
  <2>3. \A k \in B!Kind : B!ShouldHave(case, k) = B!Required(case, k)
    BY <2>2 DEF B!ShouldHave, B!Required, B!All, B!Here
  <2>4. \A k \in B!Kind : \A u \in B!ShouldHave(case, k) : B!Has(k, u) \/ <<k, u>> \in skipped
    BY <1>1, <2>3 DEF AllThere
  <2>5. \A k \in B!Kind : \A b, c \in {x \in bound : x.kind = k} : b.uri = c.uri => b = c
    BY DEF BindingsInv, BoundOnce
  <2>6. \A i \in DOMAIN case.flags : B!Meant(case, case.flags[i]) # {}
    BY <1>1 DEF BindingsInv, FlagsMeant
  <2>7. \A s, t \in sealed : s.key = t.key => s = t
    BY DEF BindingsInv, SealedOnce
  <2>8. BindingsHold'
    <3>1. \A k \in B!Kind : \A u \in B!ShouldHave(case, k)' : B!Has(k, u)' \/ <<k, u>> \in skipped'
      BY <1>1, <2>4 DEF B!Has
    <3>2. \A i \in DOMAIN case'.flags : B!Meant(case, case.flags[i])' # {}
      BY <1>1, <2>6 DEF B!Meant
    <3>3. B!RequestIsComplete'
      BY <1>1, <2>5, <2>7, <3>1, <3>2 DEF B!RequestIsComplete
    <3>4. B!BadFlagsCostNothing'
      BY <2>1 DEF B!BadFlagsCostNothing
    <3> QED
      BY <3>3, <3>4 DEF BindingsHold
  <2>9. AskedAnswered' /\ Reached'
    BY <1>1, <2>1 DEF AskedAnswered, Reached
  <2> QED
    BY <1>1, <1>2, <2>8, <2>9 DEF BindingsInv
<1> QED
  BY <1>3, <1>4 DEF B!BuildAndSend

\* Nothing is bound but by those who install.
InstallInv == IF tool = "bindings" THEN BindingsInv ELSE outcome = None

\* A request is complete, each of its values at the declaration it was given
\* for, and a flag that cannot be honoured ends the run before anything is
\* asked (bindings.collect_bindings, encrypt_secret_bindings).
THEOREM BindingsAreComplete == ToolsSpec => []BindingsHold
<1>1. ToolsInit => InstallInv
  <2>1. CASE tool = "bindings" /\ B!Init
    BY <2>1, NoneIsNotOver
    DEF B!Init, B!Unstarted, InstallInv, BindingsInv, BoundOnce, FlagsMeant, AskedAnswered, SealedOnce,
        Reached, BindingsHold, B!RequestIsComplete, B!BadFlagsCostNothing
  <2>2. CASE tool # "bindings" /\ B!Unstarted
    BY <2>2 DEF B!Unstarted, InstallInv
  <2> QED
    BY <2>1, <2>2 DEF ToolsInit
<1>2. InstallInv /\ [ToolsNext]_allvars => InstallInv'
  <2>1. BindingsInv /\ UNCHANGED B!vars => BindingsInv'
    <3> SUFFICES ASSUME BindingsInv, UNCHANGED B!vars PROVE BindingsInv'
      OBVIOUS
    <3>1. UNCHANGED <<case, step, at, bound, asked, skipped, keys, sealed, outcome>>
      BY DEF B!vars
    <3>2. BoundOnce' /\ FlagsMeant' /\ AskedAnswered' /\ SealedOnce'
      BY <3>1 DEF BindingsInv, BoundOnce, FlagsMeant, B!Meant, AskedAnswered, B!Has, SealedOnce
    <3>3. Reached'
      BY <3>1 DEF BindingsInv, Reached, AllThere, B!Has
    <3>4. B!RequestIsComplete' /\ B!BadFlagsCostNothing'
      BY <3>1 DEF BindingsInv, BindingsHold, B!RequestIsComplete, B!BadFlagsCostNothing, B!Has, B!Meant
    <3> QED
      BY <3>1, <3>2, <3>3, <3>4 DEF BindingsInv, BindingsHold
  <2>2. BindingsInv /\ [B!Next]_(B!vars) => BindingsInv'
    BY <2>1, DiscoverKeeps, FlagKeeps, FlagsDoneKeeps, PromptKeeps, AskDoneKeeps, SealKeeps, SealDoneKeeps,
       SendKeeps DEF B!Next
  <2> QED
    BY <2>2, PartSteps DEF InstallInv, bindings
<1>3. InstallInv => BindingsHold
  BY NoneIsNotOver
  DEF InstallInv, BindingsInv, BindingsHold, B!RequestIsComplete, B!BadFlagsCostNothing
<1> QED
  BY <1>1, <1>2, <1>3, PTL DEF ToolsSpec

-----------------------------------------------------------------------------
(* The workspace *)

IsItem(i) ==
  DOMAIN i = {"kind", "id", "ns", "name", "value", "required", "locked"} /\ i.id \in Nat /\ i.id < next

\* FiniteSets is the same wherever it is instantiated.
LEMMA SameFinite ==
  ASSUME NEW s
  PROVE  (W!IsFiniteSet(s) <=> IsFiniteSet(s)) /\ W!Cardinality(s) = Cardinality(s)
<1>1. W!IsFiniteSet(s) <=> IsFiniteSet(s)
  BY DEF W!IsFiniteSet, IsFiniteSet
<1>2. W!Cardinality(s) = Cardinality(s)
  BY DEF W!Cardinality, Cardinality, W!IsFiniteSet, IsFiniteSet
<1> QED
  BY <1>1, <1>2

\* A set of items with an identity each.
Identified(s) ==
  IsFiniteSet(s) /\ (\A i \in s : IsItem(i)) /\ \A i, j \in s : i.id = j.id => i = j

\* What has an identity keeps what it was listed under.
KeepsName == \A i \in items, j \in listed : i.id = j.id => i.name = j.name /\ i.ns = j.ns

\* The variable a command is about to change alone answered to its name.
Resolved(r) ==
  \E i \in listed :
    target = i.id /\ {j \in listed : W!Answers(r, j)} = {i} /\ (r.value = None => ~i.required)

\* What is sent for a secret is not empty.
HasValue(r) == W!Given(r) # W!Blank

AtEdit ==
  edit # W!Idle =>
    /\ edit = [req |-> edit.req, step |-> edit.step]
    /\ told = None /\ applied = <<>>
    /\ edit.req.kind = "variable" =>
         edit.step \in {"list", "resolve", "write"} /\ (edit.step = "write" => Resolved(edit.req))
    /\ edit.req.kind = "secret" =>
         edit.step \in {"exists", "value", "key", "write"}
         /\ (edit.step \in {"key", "write"} => HasValue(edit.req))

EditsInv ==
  next \in Nat /\ Identified(items) /\ Identified(listed) /\ KeepsName /\ AtEdit /\ ToldIsDone

\* What tells of no change, before one was made.
LEMMA ToldNothing ==
  ASSUME AtEdit, edit # W!Idle, NEW how, W!End(how), how # "done", applied' = applied
  PROVE  AtEdit' /\ ToldIsDone'
BY DEF AtEdit, W!End, ToldIsDone, W!ToldIsDone, W!Idle

\* The next step for a secret, once it has a value only with one.
Sound(s) ==
  edit.req.kind = "secret" =>
    s \in {"value", "key", "write"} /\ (s # "value" => HasValue(edit.req))

\* A step of a command that changes nothing on the platform.
LEMMA EditGoesOn ==
  ASSUME EditsInv, W!Quiet, edit # W!Idle, listed' = listed,
         \/ \E how : W!End(how) /\ how # "done"
         \/ \E s : /\ W!Goto(s) /\ (edit.req.kind = "variable" => s = "write" /\ Resolved(edit.req)')
                   /\ Sound(s)
  PROVE  EditsInv'
<1>1. next' \in Nat /\ Identified(items)' /\ Identified(listed)' /\ KeepsName'
  BY DEF EditsInv, Identified, IsItem, KeepsName, W!Quiet
<1>2. CASE \E how : W!End(how) /\ how # "done"
  BY <1>1, <1>2, ToldNothing DEF EditsInv, W!Quiet
<1>3. CASE \E s : /\ W!Goto(s) /\ (edit.req.kind = "variable" => s = "write" /\ Resolved(edit.req)')
                  /\ Sound(s)
  <2>1. PICK s : /\ W!Goto(s) /\ (edit.req.kind = "variable" => s = "write" /\ Resolved(edit.req)')
                 /\ Sound(s)
    BY <1>3
  <2>2. edit = [req |-> edit.req, step |-> edit.step] /\ told' = None /\ applied' = <<>>
    BY <2>1 DEF EditsInv, AtEdit, W!Goto, W!Quiet
  <2>3. edit' = [req |-> edit.req, step |-> s]
    BY <2>1, <2>2 DEF W!Goto
  <2>4. AtEdit'
    BY <2>1, <2>2, <2>3 DEF AtEdit, Resolved, Sound, HasValue, W!Given
  <2>5. ToldIsDone'
    BY <2>2 DEF ToldIsDone, W!ToldIsDone
  <2> QED
    BY <1>1, <2>4, <2>5 DEF EditsInv
<1> QED
  BY <1>2, <1>3

\* A request that arrives: one change, to the item the command named.
LEMMA EditApplied ==
  ASSUME EditsInv, edit # W!Idle, NEW i, NEW changed, NEW how, W!Apply(i, changed), W!End(how),
         how \in {"done", "failed"}, listed' = listed, next' \in Nat, next' >= next,
         i.name = edit.req.name, edit.req.form = "uri" => i.ns = edit.req.ns,
         edit.req.kind = "variable" => Resolved(edit.req) /\ i.id = target,
         edit.req.kind = "secret" => HasValue(edit.req),
         Identified(items)', KeepsName'
  PROVE  EditsInv'
<1> DEFINE r == edit.req
           a == [kind |-> r.kind, id |-> i.id, ns |-> i.ns, name |-> i.name, value |-> W!Given(r)]
<1>1. applied' = <<a>> /\ told' = [req |-> r, how |-> how] /\ edit' = W!Idle
  BY DEF W!Apply, W!End, EditsInv, AtEdit, W!Req, W!Given
<1>2. Identified(listed)'
  BY DEF EditsInv, Identified, IsItem
<1>3. r.kind = "variable" =>
        /\ {j.id : j \in {k \in listed : W!Answers(r, k)}} = {i.id}
        /\ r.value = None => \A j \in listed : j.id = i.id => ~j.required
  BY DEF EditsInv, Identified, Resolved
<1>4. ToldIsDone'
  <2>1. a.name = r.name /\ a.value = W!Given(r) /\ (r.form = "uri" => a.ns = r.ns) /\ a.id = i.id
    OBVIOUS
  <2>2. r.kind = "secret" => a.value # W!Blank
    BY <2>1 DEF HasValue
  <2> HIDE DEF a
  <2> QED
    BY <1>1, <1>3, <2>1, <2>2 DEF ToldIsDone, W!ToldIsDone
<1>5. AtEdit'
  BY <1>1 DEF AtEdit
<1> QED
  BY <1>2, <1>4, <1>5 DEF EditsInv

\* Item i is gone, or replaced by a later state of itself.
LEMMA Gone ==
  ASSUME EditsInv, NEW i \in items, items' = items \ {i}, next' = next, listed' = listed
  PROVE  next' \in Nat /\ Identified(items)' /\ KeepsName'
<1>1. IsFiniteSet(items')
  BY FS_RemoveElement DEF EditsInv, Identified
<1> QED
  BY <1>1 DEF EditsInv, Identified, IsItem, KeepsName

LEMMA Replaced ==
  ASSUME EditsInv, NEW i \in items, NEW j, items' = (items \ {i}) \cup {j}, listed' = listed,
         DOMAIN j = DOMAIN i, j.name = i.name, j.ns = i.ns,
         \/ j.id = i.id /\ next' = next
         \/ j.id = next /\ next' = next + 1
  PROVE  next' \in Nat /\ Identified(items)' /\ KeepsName'
<1>1. IsFiniteSet(items')
  <2>1. IsFiniteSet(items \ {i})
    BY FS_RemoveElement DEF EditsInv, Identified
  <2> QED
    BY <2>1, FS_AddElement
<1>2. next \in Nat /\ next' \in Nat /\ next <= next'
  BY DEF EditsInv
<1>3. \A k \in items : IsItem(k) /\ IsItem(k)'
  BY <1>2 DEF EditsInv, Identified, IsItem
<1>4. IsItem(j)'
  BY <1>2, <1>3 DEF IsItem
<1>5. \A k \in items \ {i} : k.id # j.id
  BY <1>2, <1>3 DEF EditsInv, Identified, IsItem
<1>6. \A k \in items' : IsItem(k)'
  BY <1>3, <1>4
<1>7. \A k, l \in items' : k.id = l.id => k = l
  BY <1>5 DEF EditsInv, Identified
<1>8. \A l \in listed : j.id = l.id => i.id = l.id
  BY <1>2 DEF EditsInv, Identified, IsItem
<1>9. KeepsName'
  BY <1>8 DEF EditsInv, KeepsName
<1> QED
  BY <1>1, <1>2, <1>6, <1>7, <1>9 DEF Identified

\* What others do reaches neither the command nor what it has read.
LEMMA OthersKeep ==
  ASSUME EditsInv, W!Redeclare \/ W!Remove \/ W!Overwrite
  PROVE  EditsInv'
<1>1. UNCHANGED <<edit, listed, target, applied, told>>
  BY DEF W!Redeclare, W!Remove, W!Overwrite
<1>2. next \in Nat /\ \A i \in items : IsItem(i)
  BY DEF EditsInv, Identified
<1>3. next' \in Nat /\ Identified(items)' /\ KeepsName'
  <2>1. CASE W!Redeclare
    <3>1. PICK i \in items : items' = (items \ {i}) \cup {[i EXCEPT !.id = next, !.value = None]}
      BY <2>1 DEF W!Redeclare
    <3> DEFINE j == [i EXCEPT !.id = next, !.value = None]
    <3>2. DOMAIN j = DOMAIN i /\ j.name = i.name /\ j.ns = i.ns /\ j.id = next
      BY <1>2 DEF IsItem
    <3>3. next' = next + 1
      BY <2>1 DEF W!Redeclare
    <3> HIDE DEF j
    <3> QED
      BY <1>1, <1>2, <3>1, <3>2, <3>3, Replaced DEF j
  <2>2. CASE W!Remove
    <3>1. PICK i \in items : items' = items \ {i}
      BY <2>2 DEF W!Remove
    <3> QED
      BY <1>1, <2>2, <3>1, Gone DEF W!Remove
  <2>3. CASE W!Overwrite
    <3>1. PICK i \in items :
            \E v, q : items' = (items \ {i}) \cup {[i EXCEPT !.value = v, !.required = q]}
      BY <2>3 DEF W!Overwrite
    <3>0. PICK v, q : items' = (items \ {i}) \cup {[i EXCEPT !.value = v, !.required = q]}
      BY <3>1
    <3> DEFINE j == [i EXCEPT !.value = v, !.required = q]
    <3>2. DOMAIN j = DOMAIN i /\ j.name = i.name /\ j.ns = i.ns /\ j.id = i.id
      BY <1>2 DEF IsItem
    <3>3. next' = next
      BY <2>3 DEF W!Overwrite
    <3> HIDE DEF j
    <3> QED
      BY <1>1, <1>2, <3>0, <3>2, <3>3, Replaced DEF j
  <2> QED
    BY <2>1, <2>2, <2>3
<1>4. Identified(listed)'
  <2>1. next' = next \/ next' = next + 1
    BY Zenon DEF W!Redeclare, W!Remove, W!Overwrite
  <2> QED
    BY <1>1, <1>2, <1>3, <2>1 DEF EditsInv, Identified, IsItem
<1>5. AtEdit' /\ ToldIsDone'
  BY <1>1 DEF EditsInv, AtEdit, Resolved, W!Answers, W!Given, ToldIsDone, W!ToldIsDone
<1> QED
  BY <1>3, <1>4, <1>5 DEF EditsInv

LEMMA EditBegins ==
  ASSUME EditsInv, W!Start \/ W!Misused
  PROVE  EditsInv'
<1>1. UNCHANGED <<items, next>> /\ listed' = {} /\ applied' = <<>>
  BY DEF W!Start, W!Misused
<1>2. next' \in Nat /\ Identified(items)' /\ Identified(listed)' /\ KeepsName'
  BY <1>1, FS_EmptySet DEF EditsInv, Identified, IsItem, KeepsName
<1>3. AtEdit'
  <2>1. CASE W!Start
    <3>1. PICK r \in Requests :
            edit' = [req |-> r, step |-> CASE r.kind = "variable" -> "list"
                                        [] r.kind = "secret" -> "exists"
                                        [] r.kind = "extension" /\ r.verb = "delete" -> "confirm"
                                        [] OTHER -> "write"]
      BY <2>1 DEF W!Start
    <3>2. told' = None
      BY <2>1 DEF W!Start
    <3> QED
      BY <1>1, <3>1, <3>2 DEF AtEdit
  <2>2. CASE W!Misused
    BY <2>2 DEF W!Misused, W!Begins, AtEdit
  <2> QED
    BY <2>1, <2>2
<1>4. ToldIsDone'
  BY <1>1 DEF ToldIsDone, W!ToldIsDone, W!Start, W!Misused
<1> QED
  BY <1>2, <1>3, <1>4 DEF EditsInv

\* A command at a step is at work.
LEMMA Busy ==
  ASSUME NEW kind, NEW s, s # "none", W!At(kind, s)
  PROVE  edit # W!Idle /\ edit.req.kind = kind /\ edit.step = s
BY DEF W!At, W!Idle, W!Req

LEMMA EditLists ==
  ASSUME EditsInv, W!List
  PROVE  EditsInv'
<1>1. edit # W!Idle /\ edit.req.kind = "variable"
  BY Busy DEF W!List
<1>2. CASE UNCHANGED listed /\ W!End("failed")
  BY <1>1, <1>2, EditGoesOn DEF W!List
<1>3. CASE listed' = {i \in items : i.kind = "variable"} /\ W!Goto("resolve")
  <2>1. UNCHANGED <<items, next, applied, told>>
    BY <1>3 DEF W!List, W!Quiet, W!Goto
  <2>2. IsFiniteSet(listed')
    BY <1>3, FS_Subset DEF EditsInv, Identified
  <2>3. next' \in Nat /\ Identified(items)' /\ Identified(listed)' /\ KeepsName'
    BY <1>3, <2>1, <2>2 DEF EditsInv, Identified, IsItem, KeepsName
  <2>4. edit = [req |-> edit.req, step |-> edit.step] /\ told' = None /\ applied' = <<>>
    BY <1>1, <2>1 DEF EditsInv, AtEdit
  <2>5. edit' = [req |-> edit.req, step |-> "resolve"]
    BY <1>3, <2>4 DEF W!Goto
  <2>6. AtEdit' /\ ToldIsDone'
    BY <1>1, <2>4, <2>5 DEF AtEdit, ToldIsDone, W!ToldIsDone
  <2> QED
    BY <2>3, <2>6 DEF EditsInv
<1> QED
  BY <1>2, <1>3 DEF W!List

LEMMA EditResolves ==
  ASSUME EditsInv, W!Resolve
  PROVE  EditsInv'
<1>1. edit # W!Idle /\ edit.req.kind = "variable"
  BY Busy DEF W!Resolve
<1>2. W!Quiet /\ listed' = listed
  BY DEF W!Resolve
<1> DEFINE found == {i \in listed : W!Answers(edit.req, i)}
<1>3. CASE W!End("refused")
  BY <1>1, <1>2, <1>3, EditGoesOn
<1>4. ASSUME Cardinality(found) = 1, NEW i \in found,
             IF edit.req.verb = "get" THEN W!End("shown") /\ UNCHANGED target
             ELSE IF edit.req.value = None /\ i.required THEN W!End("refused") /\ UNCHANGED target
             ELSE W!Goto("write") /\ target' = i.id
      PROVE  EditsInv'
  <2>1. CASE W!End("shown")
    BY <1>1, <1>2, <2>1, EditGoesOn
  <2>2. CASE ~(edit.req.value = None /\ i.required) /\ W!Goto("write") /\ target' = i.id
    <3>1. IsFiniteSet(found)
      BY FS_Subset DEF EditsInv, Identified
    <3>2. found = {i}
      BY <1>4, <3>1, FS_Singleton
    <3>3. edit'.req = edit.req
      BY <1>1, <2>2 DEF W!Goto, EditsInv, AtEdit
    <3>4. Resolved(edit.req)'
      BY <1>2, <2>2, <3>2, <3>3 DEF Resolved, W!Answers
    <3> QED
      BY <1>1, <1>2, <2>2, <3>4, EditGoesOn DEF Sound
  <2>3. CASE edit.req.verb = "get"
    BY <1>4, <2>1, <2>3
  <2>4. CASE edit.req.verb # "get" /\ edit.req.value = None /\ i.required
    BY <1>3, <1>4, <2>4
  <2>5. CASE edit.req.verb # "get" /\ ~(edit.req.value = None /\ i.required)
    BY <1>4, <2>2, <2>5
  <2> QED
    BY <2>3, <2>4, <2>5
<1> QED
  BY <1>3, <1>4, SameFinite DEF W!Resolve, W!Req

LEMMA EditAsks ==
  ASSUME EditsInv, W!Exists \/ W!Value \/ W!FetchKey \/ W!Confirm
  PROVE  EditsInv'
<1>1. edit # W!Idle /\ edit.req.kind # "variable"
  <2>1. CASE W!Exists
    BY <2>1, Busy DEF W!Exists
  <2>2. CASE W!Value
    BY <2>2, Busy DEF W!Value
  <2>3. CASE W!FetchKey
    BY <2>3, Busy DEF W!FetchKey
  <2>4. CASE W!Confirm
    BY <2>4, Busy DEF W!Confirm
  <2> QED
    BY <2>1, <2>2, <2>3, <2>4
<1>2. W!Quiet /\ listed' = listed
  BY DEF W!Exists, W!Value, W!FetchKey, W!Confirm
<1>3. (\E how : W!End(how) /\ how # "done") \/ \E s : W!Goto(s) /\ Sound(s)
  <2>1. CASE W!Exists
    BY <2>1 DEF W!Exists, Sound
  <2>2. CASE W!Value
    BY <2>2 DEF W!Value, W!Req, Sound, HasValue, W!Given
  <2>3. CASE W!FetchKey
    <3>1. edit.req.kind = "secret" /\ edit.step = "key"
      BY <2>3, Busy DEF W!FetchKey
    <3>2. HasValue(edit.req)
      BY <1>1, <3>1 DEF EditsInv, AtEdit
    <3> QED
      BY <2>3, <3>2 DEF W!FetchKey, Sound
  <2>4. CASE W!Confirm
    <3>1. edit.req.kind = "extension"
      BY <2>4, Busy DEF W!Confirm
    <3> QED
      BY <2>4, <3>1 DEF W!Confirm, Sound
  <2> QED
    BY <2>1, <2>2, <2>3, <2>4
<1> QED
  BY <1>1, <1>2, <1>3, EditGoesOn

\* A request that does not arrive, or is refused.
LEMMA EditFails ==
  ASSUME EditsInv, edit # W!Idle, NEW how, how # "done", W!End(how),
         UNCHANGED <<items, next, applied, listed>>
  PROVE  EditsInv'
<1>1. next' \in Nat /\ Identified(items)' /\ Identified(listed)' /\ KeepsName'
  BY DEF EditsInv, Identified, IsItem, KeepsName
<1>2. AtEdit' /\ ToldIsDone'
  BY ToldNothing DEF EditsInv
<1> QED
  BY <1>1, <1>2 DEF EditsInv

LEMMA EditSends ==
  ASSUME EditsInv, NEW kind, NEW verb, W!Sends(kind, verb)
  PROVE  EditsInv'
<1>1. edit # W!Idle /\ edit.req.kind = kind /\ edit.step = "write"
  BY Busy DEF W!Sends
<1>2. UNCHANGED <<next, listed, target>>
  BY DEF W!Sends
<1>3. CASE \E how : how # "done" /\ W!End(how) /\ UNCHANGED <<items, applied>>
  BY <1>1, <1>2, <1>3, EditFails
<1>4. CASE \E i \in W!Addressed(edit.req), how \in {"done", "failed"} :
             W!Apply(i, W!Made(edit.req, i)) /\ W!End(how)
  <2>1. PICK i \in W!Addressed(edit.req), how \in {"done", "failed"} :
             W!Apply(i, W!Made(edit.req, i)) /\ W!End(how)
    BY <1>4
  <2>2. i \in items /\ IsItem(i)
    BY DEF W!Addressed, EditsInv, Identified
  <2>3. edit.req.kind = "variable" => Resolved(edit.req) /\ i.id = target
    BY <1>1 DEF W!Addressed, EditsInv, AtEdit
  <2>4. i.name = edit.req.name /\ (edit.req.form = "uri" => i.ns = edit.req.ns)
    <3>1. CASE edit.req.kind = "variable"
      BY <2>2, <2>3, <3>1 DEF Resolved, EditsInv, KeepsName, W!Answers
    <3>2. CASE edit.req.kind # "variable"
      BY <3>2 DEF W!Addressed, W!Answers
    <3> QED
      BY <3>1, <3>2
  <2>5. next' \in Nat /\ Identified(items)' /\ KeepsName'
    <3>1. CASE edit.req.verb = "delete"
      <4>1. items' = items \ {i}
        BY <2>1, <3>1 DEF W!Apply, W!Made
      <4> QED
        BY <1>2, <2>2, <4>1, Gone
    <3>2. CASE edit.req.verb # "delete"
      <4> DEFINE j == [i EXCEPT !.value = W!Given(edit.req)]
      <4>1. items' = (items \ {i}) \cup {j}
        BY <2>1, <3>2 DEF W!Apply, W!Made
      <4>2. DOMAIN j = DOMAIN i /\ j.name = i.name /\ j.ns = i.ns /\ j.id = i.id
        BY <2>2 DEF IsItem
      <4> HIDE DEF j
      <4> QED
        BY <1>2, <2>2, <4>1, <4>2, Replaced
    <3> QED
      BY <3>1, <3>2
  <2>6. next' >= next
    BY <1>2 DEF EditsInv
  <2>7. edit.req.kind = "secret" => HasValue(edit.req)
    BY <1>1 DEF EditsInv, AtEdit
  <2> QED
    BY <1>1, <1>2, <2>1, <2>3, <2>4, <2>5, <2>6, <2>7, EditApplied
<1> QED
  BY <1>3, <1>4 DEF W!Sends, W!Req

LEMMA EditCreates ==
  ASSUME EditsInv, W!Create
  PROVE  EditsInv'
<1>1. edit # W!Idle /\ edit.req.kind = "extension" /\ UNCHANGED <<listed, target>>
  BY Busy DEF W!Create
<1>2. CASE W!End("failed") /\ UNCHANGED <<items, applied, next>>
  BY <1>1, <1>2, EditFails
<1>0. PICK i : i = [kind |-> "extension", id |-> next, ns |-> edit.req.ns, name |-> edit.req.name,
                    value |-> edit.req.value, required |-> FALSE, locked |-> FALSE]
  OBVIOUS
<1>3. CASE W!Apply(i, {i}) /\ next' = next + 1 /\ (W!End("done") \/ W!End("failed"))
  <2>1. next \in Nat /\ next' = next + 1 /\ DOMAIN i = {"kind", "id", "ns", "name", "value", "required", "locked"}
        /\ i.id = next /\ i.name = edit.req.name /\ i.ns = edit.req.ns
    BY <1>0, <1>3 DEF EditsInv
  <2>2. items' = (items \ {i}) \cup {i}
    BY <1>3 DEF W!Apply
  <2>3. i \notin items /\ (\A k \in items : IsItem(k) /\ IsItem(k)') /\ IsItem(i)'
    BY <2>1 DEF EditsInv, Identified, IsItem
  <2>4. Identified(items)'
    BY <2>1, <2>2, <2>3, FS_AddElement DEF EditsInv, Identified, IsItem
  <2>5. KeepsName'
    BY <1>1, <2>1, <2>2 DEF EditsInv, Identified, IsItem, KeepsName
  <2> QED
    BY <1>1, <1>3, <2>1, <2>4, <2>5, EditApplied
<1> QED
  BY <1>0, <1>2, <1>3 DEF W!Create, W!Req

\* A command that changes the workspace did what it tells (cmd/variables.py,
\* cmd/secrets.py, cmd/extensions.py, cmd/publish.py).
THEOREM TellsWhatItDid == ToolsSpec => []ToldIsDone
<1>1. ToolsInit => EditsInv
  <2>1. SUFFICES ASSUME W!Init PROVE EditsInv
    BY DEF ToolsInit
  <2>2. Identified(items)
    <3>1. items = Items /\ next = 100
      BY <2>1 DEF W!Init
    <3>2. IsFiniteSet(items)
      BY <3>1, EditsAssumption, SameFinite DEF W!BeginningAssumption
    <3>3. \A i \in items : DOMAIN i = {"kind", "id", "ns", "name", "value", "required", "locked"} /\ i.id \in 0..99
      BY <3>1, EditsAssumption DEF W!BeginningAssumption
    <3>4. \A i, j \in items : i.id = j.id => i = j
      BY <3>1, EditsAssumption DEF W!BeginningAssumption
    <3> QED
      BY <3>1, <3>2, <3>3, <3>4 DEF Identified, IsItem
  <2>3. Identified(listed)
    BY <2>1, FS_EmptySet DEF W!Init, Identified
  <2> QED
    BY <2>1, <2>2, <2>3 DEF W!Init, EditsInv, KeepsName, AtEdit, ToldIsDone, W!ToldIsDone
<1>2. EditsInv /\ [W!Next]_(W!vars) => EditsInv'
  <2>1. CASE EditsInv /\ UNCHANGED W!vars
    BY <2>1 DEF W!vars, EditsInv, Identified, IsItem, KeepsName, AtEdit, Resolved, W!Answers,
                ToldIsDone, W!ToldIsDone
  <2> QED
    BY <2>1, OthersKeep, EditBegins, EditLists, EditResolves, EditAsks, EditSends, EditCreates
    DEF W!Next, W!SetVariable, W!SetSecret, W!UpdateExtension, W!DeleteExtension, W!SetAutoUpdate,
        W!Yank, W!Unyank
<1>3. EditsInv /\ [ToolsNext]_allvars => EditsInv'
  BY <1>2, PartSteps
<1>4. EditsInv => ToldIsDone
  BY DEF EditsInv
<1> QED
  BY <1>1, <1>3, <1>4, PTL DEF ToolsSpec

-----------------------------------------------------------------------------
(* The reader of secrets *)

\* How many numbers of s there are from a to z.
Among(s, a, z) == Cardinality(s \cap (a..z))

\* The characters w still there after key n, when the keys b are backspaces.
Standing(w, b, n) == {i \in w : \A j \in i..n : Among(b, i + 1, j) <= Among(w, i + 1, j)}

\* f lists the k numbers of s from the least up.
Lists(f, k, s) ==
  /\ f \in [1..k -> s]
  /\ \A m, l \in 1..k : m < l => f[m] < f[l]
  /\ \A i \in s : \E m \in 1..k : f[m] = i

\* The k characters that still stand, of which the next backspace erases the
\* last one.
Balanced(w, b, n, k, f) ==
  /\ w \subseteq 1..n /\ b \subseteq 1..n
  /\ Lists(f, k, Standing(w, b, n))
  /\ \A m \in 1..k : Among(w, f[m] + 1, n) = Among(b, f[m] + 1, n) + k - m

\* A list of k numbers with one more; one number less; the list of the r least.
Extended(f, k, i) == [m \in 1..(k + 1) |-> IF m = k + 1 THEN i ELSE f[m]]
Less(k) == IF k = 0 THEN 0 ELSE k - 1
Least(f, r) == [m \in 1..r |-> f[m]]

\* M's FiniteSets is the one used here.
LEMMA SameCardinality == \A s : M!Cardinality(s) = Cardinality(s)
BY DEF M!Cardinality, Cardinality, M!IsFiniteSet, IsFiniteSet

\* A number more, and how many there are.
LEMMA AmongNext ==
  ASSUME NEW n \in Nat, NEW s, s \subseteq 1..n, NEW a \in Nat, NEW z \in Nat
  PROVE  /\ Among(s, a, z) \in Nat
         /\ a > z => Among(s, a, z) = 0
         /\ Among(s, a, n + 1) = Among(s, a, n)
         /\ a <= n + 1 => Among(s \cup {n + 1}, a, n + 1) = Among(s, a, n) + 1
<1>1. \A y \in Nat : IsFiniteSet(s \cap (a..y))
  <2> TAKE y \in Nat
  <2>1. a \in Int /\ y \in Int
    OBVIOUS
  <2>2. IsFiniteSet(a..y)
    BY <2>1, FS_Interval
  <2> QED
    BY <2>2, FS_Subset
<1>2. Among(s, a, z) \in Nat
  BY <1>1, FS_CardinalityType DEF Among
<1>3. ASSUME a > z PROVE Among(s, a, z) = 0
  <2>1. s \cap (a..z) = {}
    BY <1>3
  <2> QED
    BY <2>1, FS_EmptySet DEF Among
<1>5. Among(s, a, n + 1) = Among(s, a, n)
  <2>1. s \cap (a..(n + 1)) = s \cap (a..n)
    OBVIOUS
  <2> QED
    BY <2>1 DEF Among
<1>6. ASSUME a <= n + 1 PROVE Among(s \cup {n + 1}, a, n + 1) = Among(s, a, n) + 1
  <2>1. (s \cup {n + 1}) \cap (a..(n + 1)) = (s \cap (a..n)) \cup {n + 1}
    BY <1>6
  <2>2. n + 1 \notin s \cap (a..n)
    OBVIOUS
  <2> QED
    BY <1>1, <2>1, <2>2, FS_AddElement DEF Among
<1> QED
  BY <1>2, <1>3, <1>5, <1>6

\* A later number does not count before its time.
LEMMA AmongBefore ==
  ASSUME NEW n \in Nat, NEW s, NEW a \in Nat, NEW z \in Nat, z <= n
  PROVE  Among(s \cup {n + 1}, a, z) = Among(s, a, z)
<1>1. (s \cup {n + 1}) \cap (a..z) = s \cap (a..z)
  OBVIOUS
<1> QED
  BY <1>1 DEF Among

\* What stands after a key more: one that writes, a backspace, another.
LEMMA StandingNext ==
  ASSUME NEW n \in Nat, NEW w, NEW b, w \subseteq 1..n, b \subseteq 1..n
  PROVE  /\ Standing(w \cup {n + 1}, b, n + 1) = Standing(w, b, n) \cup {n + 1}
         /\ Standing(w, b, n + 1) = Standing(w, b, n)
         /\ Standing(w, b \cup {n + 1}, n + 1)
              = {i \in Standing(w, b, n) : Among(b, i + 1, n) < Among(w, i + 1, n)}
<1>0. \A a, z \in Nat : z <= n => /\ Among(w \cup {n + 1}, a, z) = Among(w, a, z)
                                  /\ Among(b \cup {n + 1}, a, z) = Among(b, a, z)
  BY AmongBefore
<1>1. \A i \in w : i \in Nat /\ i + 1 \in Nat /\ i + 1 <= n + 1 /\ i..(n + 1) = (i..n) \cup {n + 1}
                   /\ n \in i..n /\ i..n \subseteq Nat /\ \A j \in i..n : j <= n
  OBVIOUS
<1> DEFINE below(v, c, i, j) == Among(c, i + 1, j) <= Among(v, i + 1, j)
<1>2. ASSUME NEW i \in w
      PROVE  /\ \A j \in i..n : below(w \cup {n + 1}, b, i, j) <=> below(w, b, i, j)
             /\ \A j \in i..n : below(w, b \cup {n + 1}, i, j) <=> below(w, b, i, j)
             /\ below(w \cup {n + 1}, b, i, n + 1) <=> Among(b, i + 1, n) <= Among(w, i + 1, n) + 1
             /\ below(w, b, i, n + 1) <=> below(w, b, i, n)
             /\ below(w, b \cup {n + 1}, i, n + 1) <=> Among(b, i + 1, n) < Among(w, i + 1, n)
  <2>1. ASSUME NEW j \in i..n
        PROVE  /\ Among(w \cup {n + 1}, i + 1, j) = Among(w, i + 1, j)
               /\ Among(b \cup {n + 1}, i + 1, j) = Among(b, i + 1, j)
    BY <1>0, <1>1
  <2>2. /\ Among(w, i + 1, n) \in Nat /\ Among(b, i + 1, n) \in Nat
        /\ Among(w, i + 1, n + 1) = Among(w, i + 1, n)
        /\ Among(b, i + 1, n + 1) = Among(b, i + 1, n)
        /\ Among(w \cup {n + 1}, i + 1, n + 1) = Among(w, i + 1, n) + 1
        /\ Among(b \cup {n + 1}, i + 1, n + 1) = Among(b, i + 1, n) + 1
    BY <1>1, AmongNext
  <2> QED
    BY <2>1, <2>2
<1>3. ASSUME NEW i \in w
      PROVE  (\A j \in i..(n + 1) : below(w \cup {n + 1}, b, i, j)) <=> (\A j \in i..n : below(w, b, i, j))
  <2>1. Among(w, i + 1, n) \in Nat /\ Among(b, i + 1, n) \in Nat
    BY <1>1, AmongNext
  <2> QED
    BY <1>1, <1>2, <2>1
<1>4. ASSUME NEW i \in w
      PROVE  (\A j \in i..(n + 1) : below(w, b, i, j)) <=> (\A j \in i..n : below(w, b, i, j))
  BY <1>1, <1>2
<1>5. ASSUME NEW i \in w
      PROVE  (\A j \in i..(n + 1) : below(w, b \cup {n + 1}, i, j))
               <=> (\A j \in i..n : below(w, b, i, j)) /\ Among(b, i + 1, n) < Among(w, i + 1, n)
  BY <1>1, <1>2
<1>6. \A j \in (n + 1)..(n + 1) : below(w \cup {n + 1}, b, n + 1, j)
  <2>1. Among(b, n + 2, n + 1) = 0 /\ Among(w \cup {n + 1}, n + 2, n + 1) = 0
    <3>1. b \cap ((n + 2)..(n + 1)) = {} /\ (w \cup {n + 1}) \cap ((n + 2)..(n + 1)) = {}
      OBVIOUS
    <3> QED
      BY <3>1, FS_EmptySet DEF Among
  <2>2. (n + 1) + 1 = n + 2
    OBVIOUS
  <2> QED
    BY <2>1, <2>2
<1>7. Standing(w \cup {n + 1}, b, n + 1) = Standing(w, b, n) \cup {n + 1}
  BY <1>3, <1>6 DEF Standing
<1>8. Standing(w, b, n + 1) = Standing(w, b, n)
  BY <1>4 DEF Standing
<1>9. Standing(w, b \cup {n + 1}, n + 1) = {i \in Standing(w, b, n) : Among(b, i + 1, n) < Among(w, i + 1, n)}
  BY <1>5 DEF Standing
<1> QED
  BY <1>7, <1>8, <1>9

\* A list of the least up has as many numbers as what it lists, and each number
\* of it stands at its rank.
LEMMA ListIsRanked ==
  ASSUME NEW k \in Nat, NEW s, s \subseteq Nat, NEW f, Lists(f, k, s)
  PROVE  M!Ranked(s) = [m \in 1..k |-> f[m]]
<1>1. \A t : M!Cardinality(t) = Cardinality(t)
  BY SameCardinality
<1>2. \A m \in 1..k : f[m] \in s /\ f[m] \in Nat
  BY DEF Lists
<1>3. ASSUME NEW m \in 1..k
      PROVE  Cardinality({j \in s : j <= f[m]}) = m
  <2> DEFINE upto == {j \in s : j <= f[m]}
             g == [l \in 1..m |-> f[l]]
  <2>1. \A l \in 1..k : f[l] <= f[m] <=> l <= m
    BY <1>2 DEF Lists
  <2>2. \A l \in 1..m : l \in 1..k /\ f[l] \in upto
    BY <1>2, <2>1
  <2>3. \A j \in upto : \E l \in 1..m : f[l] = j
    BY <2>1 DEF Lists
  <2>4. \A l, o \in 1..m : f[l] = f[o] => l = o
    BY <1>2, <2>2 DEF Lists
  <2> HIDE DEF upto
  <2>5. g \in Bijection(1..m, upto)
    BY <2>2, <2>3, <2>4 DEF Bijection, Injection, IsInjective, Surjection
  <2>6. IsFiniteSet(1..m) /\ Cardinality(1..m) = m
    <3>1. 1 \in Int /\ m \in Int /\ ~ 1 > m /\ m - 1 + 1 = m
      OBVIOUS
    <3> QED
      BY <3>1, FS_Interval
  <2>7. Cardinality(upto) = m
    BY <2>5, <2>6, FS_Bijection DEF ExistsBijection
  <2> QED
    BY <2>7 DEF upto
<1>4. Cardinality(s) = k
  <2>1. f \in Bijection(1..k, s)
    BY <1>2 DEF Lists, Bijection, Injection, IsInjective, Surjection
  <2>2. IsFiniteSet(1..k) /\ Cardinality(1..k) = k
    <3>1. 1 \in Int /\ k \in Int /\ (1 > k => k = 0) /\ k - 1 + 1 = k
      OBVIOUS
    <3> QED
      BY <3>1, FS_Interval
  <2> QED
    BY <2>1, <2>2, FS_Bijection DEF ExistsBijection
<1>5. ASSUME NEW m \in 1..k
      PROVE  (CHOOSE i \in s : M!Cardinality({j \in s : j <= i}) = m) = f[m]
  <2>1. \E i \in s : M!Cardinality({j \in s : j <= i}) = m
    BY <1>1, <1>2, <1>3
  <2>2. PICK i \in s : /\ i = CHOOSE o \in s : M!Cardinality({j \in s : j <= o}) = m
                       /\ M!Cardinality({j \in s : j <= i}) = m
    BY <2>1
  <2>3. PICK l \in 1..k : f[l] = i
    BY DEF Lists
  <2>4. l = m
    BY <1>1, <1>3, <2>2, <2>3
  <2> QED
    BY <2>2, <2>3, <2>4
<1> QED
  BY <1>1, <1>4, <1>5 DEF M!Ranked

\* A character written stands last.
LEMMA WrittenStands ==
  ASSUME NEW n \in Nat, NEW k \in Nat, NEW w, NEW b, NEW f, Balanced(w, b, n, k, f)
  PROVE  Balanced(w \cup {n + 1}, b, n + 1, k + 1, Extended(f, k, n + 1))
<1> DEFINE v == w \cup {n + 1}
           g == Extended(f, k, n + 1)
           s == Standing(w, b, n)
<1>1. /\ w \subseteq 1..n /\ b \subseteq 1..n /\ s \subseteq 1..n
      /\ Standing(v, b, n + 1) = s \cup {n + 1}
  <2>1. w \subseteq 1..n /\ b \subseteq 1..n
    BY DEF Balanced
  <2>2. s \subseteq 1..n
    BY <2>1 DEF Standing
  <2> QED
    BY <2>1, <2>2, StandingNext
<1>2. /\ \A m \in 1..k : f[m] \in s /\ f[m] \in 1..n /\ f[m] + 1 \in Nat /\ f[m] + 1 <= n + 1
      /\ \A m, l \in 1..k : m < l => f[m] < f[l]
      /\ \A i \in s : \E m \in 1..k : f[m] = i
      /\ \A m \in 1..k : Among(w, f[m] + 1, n) = Among(b, f[m] + 1, n) + k - m
  BY <1>1 DEF Balanced, Lists
<1>3. \A m \in 1..(k + 1) : m = k + 1 \/ m \in 1..k
  OBVIOUS
<1>4. g[k + 1] = n + 1 /\ k + 1 \in 1..(k + 1) /\ \A m \in 1..k : g[m] = f[m] /\ m \in 1..(k + 1)
  BY DEF Extended
<1> HIDE DEF s
<1>5. Lists(g, k + 1, s \cup {n + 1})
  <2>1. g \in [1..(k + 1) -> s \cup {n + 1}]
    BY <1>2, <1>3 DEF Extended
  <2> HIDE DEF g
  <2>2. \A m, l \in 1..(k + 1) : m < l => g[m] < g[l]
    BY <1>2, <1>3, <1>4
  <2>3. \A i \in s \cup {n + 1} : \E m \in 1..(k + 1) : g[m] = i
    BY <1>2, <1>4
  <2> QED
    BY <2>1, <2>2, <2>3 DEF Lists
<1> HIDE DEF g
<1>6. ASSUME NEW m \in 1..(k + 1)
      PROVE  Among(v, g[m] + 1, n + 1) = Among(b, g[m] + 1, n + 1) + (k + 1) - m
  <2>1. CASE m = k + 1
    <3>1. Among(v, n + 2, n + 1) = 0 /\ Among(b, n + 2, n + 1) = 0
      <4>1. b \cap ((n + 2)..(n + 1)) = {} /\ v \cap ((n + 2)..(n + 1)) = {}
        BY <1>1
      <4> QED
        BY <4>1, FS_EmptySet DEF Among
    <3>2. g[m] + 1 = n + 2 /\ 0 = 0 + (k + 1) - m
      BY <1>4, <2>1
    <3> QED
      BY <3>1, <3>2
  <2>2. CASE m \in 1..k
    <3>1. /\ Among(b, f[m] + 1, n) \in Nat /\ Among(w, f[m] + 1, n) \in Nat
          /\ Among(v, f[m] + 1, n + 1) = Among(w, f[m] + 1, n) + 1
          /\ Among(b, f[m] + 1, n + 1) = Among(b, f[m] + 1, n)
      BY <1>1, <1>2, <2>2, AmongNext
    <3> QED
      BY <1>2, <1>4, <2>2, <3>1
  <2> QED
    BY <1>3, <2>1, <2>2
<1>7. v \subseteq 1..(n + 1) /\ b \subseteq 1..(n + 1)
  BY <1>1
<1> HIDE DEF v
<1>8. Balanced(v, b, n + 1, k + 1, g)
  BY <1>1, <1>5, <1>6, <1>7 DEF Balanced
<1> QED
  BY <1>8 DEF v, g

\* A key that neither writes nor erases leaves what stands.
LEMMA OtherStands ==
  ASSUME NEW n \in Nat, NEW k \in Nat, NEW w, NEW b, NEW f, Balanced(w, b, n, k, f)
  PROVE  Balanced(w, b, n + 1, k, f)
<1>1. /\ w \subseteq 1..n /\ b \subseteq 1..n /\ Standing(w, b, n) \subseteq 1..n
      /\ Standing(w, b, n + 1) = Standing(w, b, n)
  <2>1. w \subseteq 1..n /\ b \subseteq 1..n
    BY DEF Balanced
  <2>2. Standing(w, b, n) \subseteq 1..n
    BY <2>1 DEF Standing
  <2> QED
    BY <2>1, <2>2, StandingNext
<1>2. ASSUME NEW m \in 1..k
      PROVE  Among(w, f[m] + 1, n + 1) = Among(b, f[m] + 1, n + 1) + k - m
  <2>1. f[m] + 1 \in Nat /\ Among(w, f[m] + 1, n) = Among(b, f[m] + 1, n) + k - m
    BY <1>1 DEF Balanced, Lists
  <2> QED
    BY <1>1, <2>1, AmongNext
<1> QED
  BY <1>1, <1>2 DEF Balanced

\* A backspace erases the last character that stands, if one does.
LEMMA LastErased ==
  ASSUME NEW n \in Nat, NEW k \in Nat, NEW w, NEW b, NEW f, Balanced(w, b, n, k, f)
  PROVE  Balanced(w, b \cup {n + 1}, n + 1, Less(k), Least(f, Less(k)))
<1> DEFINE r == Less(k)
           c == b \cup {n + 1}
           g == Least(f, r)
           s == Standing(w, b, n)
           t == Standing(w, c, n + 1)
<1>1. /\ w \subseteq 1..n /\ b \subseteq 1..n /\ s \subseteq 1..n
      /\ t = {i \in s : Among(b, i + 1, n) < Among(w, i + 1, n)}
  <2>1. w \subseteq 1..n /\ b \subseteq 1..n
    BY DEF Balanced
  <2>2. s \subseteq 1..n
    BY <2>1 DEF Standing
  <2> QED
    BY <2>1, <2>2, StandingNext
<1>2. /\ \A m \in 1..k : f[m] \in s /\ f[m] \in 1..n /\ f[m] + 1 \in Nat /\ f[m] + 1 <= n + 1
      /\ \A m, l \in 1..k : m < l => f[m] < f[l]
      /\ \A i \in s : \E m \in 1..k : f[m] = i
      /\ \A m \in 1..k : Among(w, f[m] + 1, n) = Among(b, f[m] + 1, n) + k - m
  BY <1>1 DEF Balanced, Lists
<1>3. r \in Nat /\ (\A m \in 1..r : m \in 1..k /\ m < k) /\ (k # 0 => r = k - 1)
  BY DEF Less
<1>4. \A m \in 1..k : m < k => m \in 1..r
  BY DEF Less
<1> HIDE DEF r, s, t
<1>5. \A m \in 1..k : Among(b, f[m] + 1, n) \in Nat /\ Among(w, f[m] + 1, n) \in Nat
  BY <1>1, <1>2, AmongNext
<1>6. \A m \in 1..k : f[m] \in t <=> m < k
  BY <1>1, <1>2, <1>5
<1>7. Lists(g, r, t)
  <2>1. g \in [1..r -> t]
    BY <1>3, <1>6 DEF Least
  <2>2. \A m \in 1..r : g[m] = f[m]
    BY DEF Least
  <2> HIDE DEF g
  <2>3. \A m, l \in 1..r : m < l => g[m] < g[l]
    BY <1>2, <1>3, <2>2
  <2>4. \A i \in t : \E m \in 1..r : g[m] = i
    BY <1>1, <1>2, <1>4, <1>6, <2>2
  <2> QED
    BY <2>1, <2>3, <2>4 DEF Lists
<1>8. ASSUME NEW m \in 1..r
      PROVE  Among(w, g[m] + 1, n + 1) = Among(c, g[m] + 1, n + 1) + r - m
  <2>1. m \in 1..k /\ g[m] = f[m] /\ r = k - 1
    BY <1>3 DEF Least
  <2>2. /\ Among(b, f[m] + 1, n) \in Nat /\ Among(w, f[m] + 1, n) \in Nat
        /\ Among(w, f[m] + 1, n + 1) = Among(w, f[m] + 1, n)
        /\ Among(c, f[m] + 1, n + 1) = Among(b, f[m] + 1, n) + 1
    BY <1>1, <1>2, <2>1, AmongNext
  <2>3. Among(w, f[m] + 1, n) = Among(b, f[m] + 1, n) + k - m
    BY <1>2, <2>1
  <2> QED
    BY <2>1, <2>2, <2>3
<1>9. w \subseteq 1..(n + 1) /\ c \subseteq 1..(n + 1)
  BY <1>1
<1> HIDE DEF c, g
<1>10. Balanced(w, c, n + 1, r, g)
  BY <1>7, <1>8, <1>9 DEF Balanced, t
<1> QED
  BY <1>10 DEF c, g, r

Byte == {"x", "w1", "w2", "nl"}

\* The first byte of a key's character.
FirstByte(x) == IF x = "wide" THEN "w1" ELSE IF x \in {"cr", "lf"} THEN "nl" ELSE x

\* All of its bytes; the bytes without the last.
Bytes(x) == IF x = "wide" THEN <<"w1", "w2">> ELSE <<FirstByte(x)>>
Popped(c) == IF c = <<>> THEN c ELSE SubSeq(c, 1, Len(c) - 1)

\* The bytes c hold the characters of the k keys of t that f lists: they start
\* at g, and no character is torn.
Holds(c, t, k, f, g) ==
  /\ Lists(g, k, {i \in DOMAIN c : c[i] # "w2"})
  /\ \A m \in 1..k : c[g[m]] = FirstByte(t[f[m]])
  /\ \A i \in DOMAIN c : /\ c[i] = "w1" => i + 1 \in DOMAIN c /\ c[i + 1] = "w2"
                         /\ c[i] = "w2" => i - 1 \in DOMAIN c /\ c[i - 1] = "w1"

\* A character more.
LEMMA CharacterHeld ==
  ASSUME NEW c \in Seq(Byte), NEW t \in Seq(M!Key), NEW k \in Nat, NEW f, NEW g,
         f \in [1..k -> 1..Len(t)], Holds(c, t, k, f, g), NEW x \in {"x", "wide", "cr", "lf"}
  PROVE  Holds(c \o Bytes(x), Append(t, x), k + 1, Extended(f, k, Len(t) + 1), Extended(g, k, Len(c) + 1))
<1> DEFINE d == c \o Bytes(x)
           e == Extended(f, k, Len(t) + 1)
           h == Extended(g, k, Len(c) + 1)
           s == {i \in DOMAIN c : c[i] # "w2"}
           o == {i \in DOMAIN d : d[i] # "w2"}
           z == Len(c)
           y == Len(d)
<1>1. /\ z \in Nat /\ DOMAIN c = 1..z /\ d \in Seq(Byte) /\ y \in Nat /\ DOMAIN d = 1..y
      /\ \A i \in 1..z : d[i] = c[i]
      /\ d[z + 1] = FirstByte(x) /\ FirstByte(x) # "w2"
      /\ \/ x # "wide" /\ y = z + 1
         \/ x = "wide" /\ y = z + 2 /\ d[z + 2] = "w2"
  <2>1. CASE x = "wide"
    BY <2>1 DEF Bytes, FirstByte, Byte
  <2>2. CASE x # "wide"
    BY <2>2 DEF Bytes, FirstByte, Byte
  <2> QED
    BY <2>1, <2>2
<1>2. /\ \A m \in 1..k : g[m] \in s /\ g[m] \in 1..z /\ c[g[m]] = FirstByte(t[f[m]])
      /\ \A m, l \in 1..k : m < l => g[m] < g[l]
      /\ \A i \in s : \E m \in 1..k : g[m] = i
  BY <1>1 DEF Holds, Lists
<1>3. o = s \cup {z + 1}
  <2>1. z + 1 \in o /\ s \subseteq o
    BY <1>1
  <2>2. \A i \in 1..y : i \in 1..z \/ i = z + 1 \/ (i = z + 2 /\ d[i] = "w2")
    BY <1>1
  <2> QED
    BY <1>1, <2>1, <2>2
<1>4. \A m \in 1..(k + 1) : m = k + 1 \/ m \in 1..k
  OBVIOUS
<1>5. /\ h[k + 1] = z + 1 /\ e[k + 1] = Len(t) + 1 /\ k + 1 \in 1..(k + 1)
      /\ \A m \in 1..k : h[m] = g[m] /\ e[m] = f[m] /\ m \in 1..(k + 1)
  BY DEF Extended
<1>6. Lists(h, k + 1, o)
  <2> HIDE DEF s, o, z
  <2>1. h \in [1..(k + 1) -> o]
    BY <1>2, <1>3, <1>4 DEF z, Extended
  <2> HIDE DEF h
  <2>2. ASSUME NEW m \in 1..(k + 1), NEW l \in 1..(k + 1), m < l PROVE h[m] < h[l]
    <3>1. m \in 1..k
      BY <2>2, <1>4
    <3>2. CASE l \in 1..k
      BY <1>2, <1>5, <2>2, <3>1, <3>2
    <3>3. CASE l = k + 1
      <4>1. h[m] = g[m] /\ g[m] \in 1..Len(c) /\ h[l] = Len(c) + 1
        BY <1>2, <1>5, <3>1, <3>3 DEF z
      <4> QED
        BY <4>1
    <3> QED
      BY <1>4, <3>2, <3>3
  <2>3. \A i \in o : \E m \in 1..(k + 1) : h[m] = i
    BY <1>2, <1>3, <1>5
  <2> QED
    BY <2>1, <2>2, <2>3 DEF Lists
<1>7. ASSUME NEW m \in 1..(k + 1)
      PROVE  d[h[m]] = FirstByte(Append(t, x)[e[m]])
  <2>1. CASE m = k + 1
    <3>1. Append(t, x)[Len(t) + 1] = x
      OBVIOUS
    <3> QED
      BY <1>1, <1>5, <2>1, <3>1
  <2>2. CASE m \in 1..k
    <3>1. f[m] \in 1..Len(t)
      BY <2>2
    <3>2. Append(t, x)[f[m]] = t[f[m]]
      BY <3>1
    <3> QED
      BY <1>1, <1>2, <1>5, <2>2, <3>2
  <2> QED
    BY <1>4, <2>1, <2>2
<1>8. ASSUME NEW i \in DOMAIN d
      PROVE  /\ d[i] = "w1" => i + 1 \in DOMAIN d /\ d[i + 1] = "w2"
             /\ d[i] = "w2" => i - 1 \in DOMAIN d /\ d[i - 1] = "w1"
  <2>1. CASE i \in 1..z
    BY <1>1, <2>1 DEF Holds
  <2>2. CASE i = z + 1
    BY <1>1, <2>2 DEF FirstByte
  <2>3. CASE i = z + 2
    BY <1>1, <2>3 DEF FirstByte
  <2> QED
    BY <1>1, <2>1, <2>2, <2>3
<1> HIDE DEF d, e, h
<1>9. Holds(d, Append(t, x), k + 1, e, h)
  BY <1>6, <1>7, <1>8 DEF Holds
<1> QED
  BY <1>9 DEF d, e, h

\* A character less, when each is one byte.
LEMMA CharacterErased ==
  ASSUME NEW c \in Seq(Byte), NEW t \in Seq(M!Key), NEW k \in Nat, NEW f, NEW g, NEW x \in M!Key,
         f \in [1..k -> 1..Len(t)], Holds(c, t, k, f, g), \A i \in DOMAIN t : t[i] # "wide"
  PROVE  Holds(Popped(c), Append(t, x), Less(k), Least(f, Less(k)), Least(g, Less(k)))
<1> DEFINE r == Less(k)
           d == Popped(c)
           e == Least(f, r)
           h == Least(g, r)
           z == Len(c)
<1>1. z \in Nat /\ DOMAIN c = 1..z /\ Len(t) \in Nat /\ DOMAIN t = 1..Len(t)
  OBVIOUS
<1>2. /\ \A m \in 1..k : g[m] \in 1..z /\ c[g[m]] = FirstByte(t[f[m]])
      /\ \A m, l \in 1..k : m < l => g[m] < g[l]
      /\ \A i \in 1..z : c[i] # "w2" => \E m \in 1..k : g[m] = i
  BY <1>1 DEF Holds, Lists
<1>3. ASSUME NEW i \in 1..z PROVE c[i] \notin {"w1", "w2"}
  <2>1. ASSUME NEW j \in 1..z PROVE c[j] # "w1"
    <3>1. SUFFICES ASSUME c[j] = "w1" PROVE FALSE
      OBVIOUS
    <3>2. PICK m \in 1..k : g[m] = j
      BY <1>2, <3>1
    <3>3. f[m] \in 1..Len(t) /\ t[f[m]] # "wide" /\ FirstByte(t[f[m]]) = "w1"
      BY <1>1, <1>2, <3>1, <3>2
    <3>4. t[f[m]] \in M!Key
      BY <3>3
    <3> QED
      BY <3>3, <3>4 DEF FirstByte, M!Key
  <2>2. c[i] = "w2" => i - 1 \in 1..z /\ c[i - 1] = "w1"
    BY <1>1 DEF Holds
  <2> QED
    BY <2>1, <2>2
<1>4. k = z /\ \A m \in 1..k : m # k => g[m] < z
  <2>1. \A i \in 1..z : \E m \in 1..k : g[m] = i
    BY <1>2, <1>3
  <2>2. g \in Bijection(1..k, 1..z)
    <3>1. g \in [1..k -> 1..z]
      BY <1>1 DEF Holds, Lists
    <3>2. \A m, l \in 1..k : g[m] = g[l] => m = l
      BY <1>2
    <3> QED
      BY <2>1, <3>1, <3>2 DEF Bijection, Injection, IsInjective, Surjection
  <2>3. \A y \in Nat : IsFiniteSet(1..y) /\ Cardinality(1..y) = y
    <3> TAKE y \in Nat
    <3>1. 1 \in Int /\ y \in Int /\ (1 > y => y = 0) /\ y - 1 + 1 = y
      OBVIOUS
    <3> QED
      BY <3>1, FS_Interval
  <2>4. k = z
    BY <1>1, <2>2, <2>3, FS_Bijection DEF ExistsBijection
  <2>5. ASSUME NEW m \in 1..k, m # k PROVE g[m] < z
    <3>1. k \in 1..k /\ m < k
      BY <2>5
    <3>2. g[m] \in 1..z /\ g[k] \in 1..z /\ g[m] < g[k]
      BY <1>2, <3>1
    <3> QED
      BY <1>1, <3>2
  <2> QED
    BY <2>4, <2>5
<1>5. d \in Seq(Byte) /\ Len(d) = r /\ DOMAIN d = 1..r /\ \A i \in 1..r : d[i] = c[i]
  <2>1. CASE c = <<>>
    BY <1>1, <1>4, <2>1 DEF Popped, Less
  <2>2. CASE c # <<>>
    <3>0. z # 0
      BY <2>2, EmptySeq
    <3>1. z \in Nat /\ z # 0 /\ r = z - 1 /\ z - 1 \in 0..z /\ 1 \in Int /\ z - 1 \in Int
      <4>1. z \in Nat /\ k = z
        BY <1>1, <1>4
      <4> HIDE DEF z
      <4> QED
        BY <4>1, <3>0 DEF Less
    <3>2. /\ SubSeq(c, 1, z - 1) \in Seq(Byte) /\ Len(SubSeq(c, 1, z - 1)) = z - 1
          /\ \A i \in 1..(z - 1) : SubSeq(c, 1, z - 1)[i] = c[i]
      <4>1. \A i \in 1..(z - 1) : c[i] \in Byte /\ 1 + i - 1 = i
        BY <3>1
      <4>2. (IF 1 <= z - 1 THEN z - 1 - 1 + 1 ELSE 0) = z - 1 /\ z - 1 - 1 + 1 = z - 1
        <5>1. z \in Nat /\ z # 0
          BY <3>1
        <5> HIDE DEF z
        <5> QED
          BY <5>1
      <4> HIDE DEF z
      <4> QED
        BY <3>1, <4>1, <4>2, SubSeqProperties
    <3>3. d = SubSeq(c, 1, z - 1)
      BY <2>2 DEF Popped
    <3> HIDE DEF d, r
    <3>4. d \in Seq(Byte) /\ Len(d) = r
      BY <3>1, <3>2, <3>3
    <3>5. DOMAIN d = 1..r
      BY <3>4
    <3> QED
      BY <3>1, <3>2, <3>3, <3>4, <3>5
  <2> QED
    BY <2>1, <2>2
<1>6. r \in Nat /\ \A m \in 1..r : m \in 1..k /\ m # k /\ h[m] = g[m] /\ e[m] = f[m]
  BY <1>4 DEF Less, Least
<1>7. \A m \in 1..r : g[m] \in 1..r
  <2> TAKE m \in 1..r
  <2>1. m \in 1..k /\ m # k /\ k # 0
    BY <1>6
  <2>2. g[m] \in 1..z /\ g[m] < z /\ z = k
    BY <1>2, <1>4, <2>1
  <2>3. r = k - 1
    BY <2>1 DEF Less
  <2> HIDE DEF z, r
  <2> QED
    BY <2>2, <2>3
<1>8. \A i \in 1..r : i \in 1..z /\ i # z
  BY <1>4, <1>6
<1> HIDE DEF d, e, r
<1>9. Lists(h, r, {i \in DOMAIN d : d[i] # "w2"})
  <2>1. {i \in DOMAIN d : d[i] # "w2"} = 1..r
    BY <1>3, <1>5, <1>8
  <2>2. h \in [1..r -> 1..r]
    BY <1>7 DEF Least
  <2> HIDE DEF h
  <2>3. \A m, l \in 1..r : m < l => h[m] < h[l]
    BY <1>2, <1>6
  <2>4. h \in Injection(1..r, 1..r)
    <3>1. \A m \in 1..r : m \in Int /\ h[m] \in Int
      BY <1>6, <2>2
    <3>2. \A m, l \in 1..r : h[m] = h[l] => ~ m < l /\ ~ l < m
      BY <2>3, <3>1
    <3>3. \A m, l \in 1..r : h[m] = h[l] => m = l
      BY <3>1, <3>2
    <3> QED
      BY <2>2, <3>3 DEF Injection, IsInjective
  <2>5. IsFiniteSet(1..r)
    <3>1. 1 \in Int /\ r \in Int
      BY <1>6
    <3> QED
      BY <3>1, FS_Interval
  <2>6. h \in Surjection(1..r, 1..r)
    BY <2>4, <2>5, FS_Injection
  <2> QED
    BY <2>1, <2>2, <2>3, <2>6 DEF Lists, Surjection
<1>10. ASSUME NEW m \in 1..r
      PROVE  d[h[m]] = FirstByte(Append(t, x)[e[m]])
  <2>1. m \in 1..k /\ h[m] = g[m] /\ e[m] = f[m] /\ h[m] \in 1..r
    BY <1>6, <1>7
  <2>2. Append(t, x)[f[m]] = t[f[m]]
    BY <2>1
  <2> QED
    BY <1>2, <1>5, <2>1, <2>2
<1> HIDE DEF h
<1>11. \A i \in DOMAIN d : d[i] \notin {"w1", "w2"}
  BY <1>3, <1>5, <1>8
<1>12. Holds(d, Append(t, x), r, e, h)
  BY <1>9, <1>10, <1>11 DEF Holds
<1> QED
  BY <1>12 DEF d, e, h, r

Writing == {i \in DOMAIN typed : M!Writes(i)}
Erasing == {i \in DOMAIN typed : typed[i] = "bs"}

\* Nothing arrived that the property excludes.
Clear ==
  /\ ~M!Arrived({"odd", "lateopen", "lateclose", "arrow"})
  /\ ~(M!Arrived({"wide"}) /\ M!Arrived({"bs"}))

\* What the reader remembers of the keys: whether a paste is open, and whether
\* the last key was a carriage return in it.
Remembers ==
  /\ typed \in Seq(M!Key) /\ chars \in Seq(Byte) /\ paste \in BOOLEAN /\ cr \in BOOLEAN
  /\ paste <=> M!InPaste(Len(typed))
  /\ end = "" => (cr <=> paste /\ Len(typed) # 0 /\ typed[Len(typed)] = "cr")
  /\ end = "submitted" => (typed[Len(typed)] \in {"cr", "lf"} => ~paste)

\* The bytes kept are those of the characters that still stand.
KeepsStanding ==
  Clear => \E k \in Nat : \E f, g :
             Balanced(Writing, Erasing, Len(typed), k, f) /\ Holds(chars, typed, k, f, g)

ReaderInv == Remembers /\ KeepsStanding

\* What a key changes of what was meant.
LEMMA KeyArrives ==
  ASSUME typed \in Seq(M!Key), NEW x \in M!Key, typed' = Append(typed, x)
  PROVE  LET n == Len(typed) IN
         /\ n \in Nat /\ typed' \in Seq(M!Key) /\ Len(typed') = n + 1 /\ typed'[n + 1] = x
         /\ M!InPaste(Len(typed))' <=> x = "open" \/ (x # "close" /\ M!InPaste(n))
         /\ Writing' = IF \/ x \in M!Letter
                          \/ x = "cr" /\ M!InPaste(n)
                          \/ x = "lf" /\ M!InPaste(n) /\ ~(n # 0 /\ typed[n] = "cr")
                       THEN Writing \cup {n + 1} ELSE Writing
         /\ Erasing' = IF x = "bs" THEN Erasing \cup {n + 1} ELSE Erasing
         /\ Clear' => Clear /\ x \notin {"odd", "lateopen", "lateclose", "arrow"}
         /\ Clear' /\ x = "bs" => \A i \in 1..n : typed[i] # "wide"
<1>0. PICK n \in Nat : n = Len(typed)
  OBVIOUS
<1>1. /\ n \in Nat /\ DOMAIN typed = 1..n /\ typed' \in Seq(M!Key) /\ Len(typed') = n + 1
      /\ DOMAIN typed' = 1..(n + 1) /\ typed'[n + 1] = x /\ \A i \in 1..n : typed'[i] = typed[i]
  BY <1>0
<1>2. \A i \in 1..(n + 1) : i \in 1..n \/ i = n + 1
  BY <1>1
<1>3. n + 1 \in 1..(n + 1) /\ \A i \in 1..n : i \in 1..(n + 1) /\ 1..i \subseteq 1..n /\ \A o \in 1..i : o..i \subseteq 1..n
  BY <1>1
<1>4. \A i \in 1..n : M!InPaste(i)' <=> M!InPaste(i)
  BY <1>1, <1>3 DEF M!InPaste
<1>5. M!InPaste(n) <=> \E o \in 1..n : typed[o] = "open" /\ \A j \in o..n : typed[j] # "close"
  BY DEF M!InPaste
<1>6. M!InPaste(n + 1)' <=> x = "open" \/ (x # "close" /\ M!InPaste(n))
  <2> DEFINE opens(o) == typed'[o] = "open" /\ \A j \in o..(n + 1) : typed'[j] # "close"
  <2>1. M!InPaste(n + 1)' <=> \E o \in 1..(n + 1) : opens(o)
    BY <1>1 DEF M!InPaste
  <2>2. ASSUME NEW o \in 1..n
        PROVE  opens(o) <=> x # "close" /\ typed[o] = "open" /\ \A j \in o..n : typed[j] # "close"
    <3>1. o..(n + 1) = (o..n) \cup {n + 1} /\ o..n \subseteq 1..n
      BY <1>1
    <3> QED
      BY <1>1, <3>1
  <2>3. opens(n + 1) <=> x = "open"
    <3>1. (n + 1)..(n + 1) = {n + 1}
      BY <1>1
    <3> QED
      BY <1>1, <3>1
  <2> HIDE DEF opens
  <2>4. (\E o \in 1..(n + 1) : opens(o)) <=> opens(n + 1) \/ \E o \in 1..n : opens(o)
    BY <1>2, <1>3
  <2>5. (\E o \in 1..n : opens(o)) <=> x # "close" /\ M!InPaste(n)
    BY <1>5, <2>2
  <2> QED
    BY <2>1, <2>3, <2>4, <2>5
<1>7. \A i \in 1..n : M!Writes(i)' <=> M!Writes(i)
  <2>1. \A i \in 1..n : i # 1 => i - 1 \in 1..n
    BY <1>1
  <2> QED
    BY <1>1, <1>4, <2>1 DEF M!Writes, M!Letter
<1>8. M!Writes(n + 1)' <=> \/ x \in M!Letter
                           \/ x = "cr" /\ M!InPaste(n)
                           \/ x = "lf" /\ M!InPaste(n) /\ ~(n # 0 /\ typed[n] = "cr")
  <2>1. n + 1 - 1 = n /\ (n + 1 = 1 <=> n = 0) /\ (n # 0 => n \in 1..n)
    BY <1>1
  <2> QED
    BY <1>1, <1>6, <2>1 DEF M!Writes, M!Letter
<1>9. Writing = {i \in 1..n : M!Writes(i)} /\ Writing' = {i \in 1..(n + 1) : M!Writes(i)'}
  BY <1>1 DEF Writing
<1>10. Writing' = IF M!Writes(n + 1)' THEN Writing \cup {n + 1} ELSE Writing
  BY <1>2, <1>3, <1>7, <1>9
<1>11. Erasing' = IF x = "bs" THEN Erasing \cup {n + 1} ELSE Erasing
  <2>1. Erasing = {i \in 1..n : typed[i] = "bs"} /\ Erasing' = {i \in 1..(n + 1) : typed'[i] = "bs"}
    BY <1>1 DEF Erasing
  <2> QED
    BY <1>1, <1>2, <1>3, <2>1
<1>12. \A s : M!Arrived(s) => M!Arrived(s)'
  BY <1>1, <1>3 DEF M!Arrived
<1>13. \A s : x \in s => M!Arrived(s)'
  BY <1>1, <1>3 DEF M!Arrived
<1>14. Clear' => Clear /\ x \notin {"odd", "lateopen", "lateclose", "arrow"}
  BY <1>12, <1>13 DEF Clear
<1>15. ASSUME Clear', x = "bs", NEW i \in 1..n PROVE typed[i] # "wide"
  <2>1. M!Arrived({"bs"})'
    BY <1>13, <1>15
  <2>2. ~M!Arrived({"wide"})'
    BY <1>15, <2>1 DEF Clear
  <2> QED
    BY <1>1, <1>3, <2>2 DEF M!Arrived
<1>16. M!InPaste(Len(typed))' <=> M!InPaste(n + 1)'
  BY <1>1 DEF M!InPaste
<1> QED
  BY <1>1, <1>6, <1>8, <1>10, <1>11, <1>14, <1>15, <1>16, <1>0

\* Whether a key that arrives stands for a character.
Wrote(x) ==
  \/ x \in M!Letter
  \/ x = "cr" /\ paste
  \/ x = "lf" /\ paste /\ ~cr

\* What a key does to the bytes kept.
LEMMA KeyDoes ==
  ASSUME Remembers, end = "", NEW x \in M!Key, x \notin {"odd", "lateopen", "lateclose", "arrow"},
         M!Escape(x) \/ M!LateEscape(x) \/ M!Backspace(x) \/ M!Control(x) \/ M!Pasted(x) \/ M!Line(x)
  PROVE  \/ /\ Wrote(x) /\ x \in {"x", "wide", "cr", "lf"}
            /\ chars' = chars \o Bytes(x)
         \/ x = "bs" /\ ~Wrote(x) /\ chars' = Popped(chars)
         \/ /\ x # "bs" /\ ~Wrote(x) /\ chars' = chars
<1>1. Append(chars, "nl") = chars \o <<"nl">>
  <2>1. chars \in Seq(Byte) /\ "nl" \in Byte
    BY DEF Remembers, Byte
  <2> QED
    BY <2>1, AppendIsConcat
<1>2. CASE M!Escape(x)
  BY <1>2 DEF M!Escape, Wrote, M!Letter
<1>3. CASE M!Backspace(x)
  BY <1>3 DEF M!Backspace, Wrote, M!Letter, Popped
<1>4. CASE M!Control(x)
  BY <1>4 DEF M!Control, Wrote, M!Letter
<1>5. CASE M!Pasted(x)
  <2>1. CASE x \in {"cr", "lf"}
    BY <1>1, <1>5, <2>1 DEF M!Pasted, M!Append1, Wrote, M!Letter, Bytes, FirstByte
  <2>2. CASE x \in M!Letter
    BY <1>5, <2>2 DEF M!Pasted, Wrote, M!Letter, Bytes, FirstByte, M!Kept
  <2> QED
    BY <1>5, <2>1, <2>2 DEF M!Pasted
<1>6. CASE M!Line(x)
  <2>1. CASE x \in {"cr", "lf"}
    BY <1>6, <2>1 DEF M!Line, Wrote, M!Letter
  <2>2. CASE x \in M!Letter
    BY <1>6, <2>2 DEF M!Line, Wrote, M!Letter, Bytes, FirstByte, M!Kept
  <2> QED
    BY <1>6, <2>1, <2>2 DEF M!Line
<1> QED
  BY <1>2, <1>3, <1>4, <1>5, <1>6 DEF M!LateEscape

\* A key more leaves what the bytes hold.
LEMMA StillHolds ==
  ASSUME NEW c, NEW t \in Seq(M!Key), NEW x \in M!Key, NEW k \in Nat, NEW f \in [1..k -> 1..Len(t)], NEW g,
         Holds(c, t, k, f, g)
  PROVE  Holds(c, Append(t, x), k, f, g)
<1>1. \A m \in 1..k : Append(t, x)[f[m]] = t[f[m]]
  OBVIOUS
<1> QED
  BY <1>1 DEF Holds

\* The bytes are bytes, and what is remembered is what arrived.
LEMMA StillRemembers ==
  ASSUME Remembers, M!Press
  PROVE  Remembers'
<1>1. PICK x \in M!Key :
        /\ typed' = Append(typed, x)
        /\ M!Escape(x) \/ M!LateEscape(x) \/ M!Backspace(x) \/ M!Control(x) \/ M!Pasted(x) \/ M!Line(x)
  BY DEF M!Press
<1>2. /\ typed' \in Seq(M!Key) /\ Len(typed)' = Len(typed) + 1 /\ Len(typed) \in Nat
      /\ (typed[Len(typed)])' = x
      /\ M!InPaste(Len(typed))' <=> x = "open" \/ (x # "close" /\ paste)
  BY <1>1, KeyArrives DEF Remembers
<1>3. /\ chars \in Seq(Byte) /\ paste \in BOOLEAN /\ cr \in BOOLEAN /\ end = ""
      /\ cr <=> paste /\ Len(typed) # 0 /\ typed[Len(typed)] = "cr"
  BY DEF Remembers, M!Press
<1>4. chars' \in Seq(Byte)
  <2>1. <<"x", "x">> \in Seq(Byte) /\ [i \in 1..5 |-> "x"] \in Seq(Byte)
    BY DEF Byte
  <2>2. ASSUME x \in M!Letter PROVE M!Kept(x) \in Seq(Byte)
    <3>1. /\ M!Kept("x") = <<"x">> /\ M!Kept("wide") = <<"w1", "w2">> /\ M!Kept("odd") = <<"w1">>
          /\ x \in {"x", "wide", "odd"}
      BY <2>2 DEF M!Letter, M!Kept
    <3>2. <<"x">> \in Seq(Byte) /\ <<"w1", "w2">> \in Seq(Byte) /\ <<"w1">> \in Seq(Byte)
      BY DEF Byte
    <3> QED
      BY <3>1, <3>2
  <2>3. "nl" \in Byte
    BY DEF Byte
  <2>4. chars # <<>> => SubSeq(chars, 1, Len(chars) - 1) \in Seq(Byte)
    <3>0. Len(chars) \in Nat /\ \A i \in 1..Len(chars) : chars[i] \in Byte
      BY <1>3, ElementOfSeq, LenProperties
    <3>1. \A i \in 1..(Len(chars) - 1) : chars[i] \in Byte
      BY <3>0
    <3>2. 1 \in Int /\ Len(chars) - 1 \in Int
      BY <3>0
    <3> QED
      BY <3>1, <3>2, SubSeqProperties
  <2>5. CASE M!Escape(x) \/ M!LateEscape(x)
    BY <1>3, <2>1, <2>5, ConcatProperties DEF M!Escape, M!LateEscape
  <2>6. CASE M!Backspace(x)
    BY <1>3, <2>4, <2>6 DEF M!Backspace
  <2>7. CASE M!Control(x)
    BY <1>3, <2>7 DEF M!Control
  <2>8. CASE M!Pasted(x) \/ M!Line(x)
    <3>1. CASE x \in M!Letter
      <4>1. chars' = chars \o M!Kept(x)
        BY <2>8, <3>1 DEF M!Pasted, M!Line, M!Letter
      <4> QED
        BY <1>3, <2>2, <3>1, <4>1, ConcatProperties
    <3>2. CASE x \notin M!Letter
      <4>1. chars' = chars \/ chars' = Append(chars, "nl")
        BY <2>8, <3>2 DEF M!Pasted, M!Line, M!Append1
      <4>2. Append(chars, "nl") \in Seq(Byte)
        BY <1>3, <2>3, AppendProperties
      <4> QED
        BY <1>3, <4>1, <4>2
    <3> QED
      BY <3>1, <3>2
  <2> QED
    BY <1>1, <2>5, <2>6, <2>7, <2>8
<1>5. CASE M!Escape(x)
  BY <1>2, <1>3, <1>4, <1>5 DEF M!Escape, Remembers
<1>6. CASE M!LateEscape(x)
  BY <1>2, <1>3, <1>4, <1>6 DEF M!LateEscape, Remembers
<1>7. CASE M!Backspace(x)
  BY <1>2, <1>3, <1>4, <1>7 DEF M!Backspace, Remembers
<1>8. CASE M!Control(x)
  BY <1>2, <1>3, <1>4, <1>8 DEF M!Control, Remembers
<1>9. CASE M!Pasted(x)
  <2>1. paste' = paste /\ end' = end /\ paste /\ x \notin {"open", "close"}
    BY <1>9 DEF M!Pasted, M!Letter
  <2>2. cr' \in BOOLEAN /\ (cr' <=> x = "cr")
    BY <1>9 DEF M!Pasted, M!Letter
  <2> QED
    <3>1. paste' <=> M!InPaste(Len(typed))'
      BY <1>2, <2>1
    <3>2. cr' <=> paste' /\ Len(typed)' # 0 /\ (typed[Len(typed)])' = "cr"
      BY <1>2, <2>1, <2>2
    <3>3. typed' \in Seq(M!Key) /\ paste' \in BOOLEAN /\ end' = ""
      BY <1>2, <1>3, <2>1
    <3> QED
      BY <1>4, <2>2, <3>1, <3>2, <3>3 DEF Remembers
<1>10. CASE M!Line(x)
  BY <1>2, <1>3, <1>4, <1>10 DEF M!Line, Remembers, M!Letter
<1> QED
  BY <1>1, <1>5, <1>6, <1>7, <1>8, <1>9, <1>10

\* The bytes go on holding what stands: a character written is held, one a
\* backspace erases is the last, and no other key changes either.
LEMMA StillStanding ==
  ASSUME Remembers, KeepsStanding, M!Press
  PROVE  KeepsStanding'
<1>1. PICK x \in M!Key :
        /\ typed' = Append(typed, x)
        /\ M!Escape(x) \/ M!LateEscape(x) \/ M!Backspace(x) \/ M!Control(x) \/ M!Pasted(x) \/ M!Line(x)
  BY DEF M!Press
<1>2. SUFFICES ASSUME Clear'
               PROVE  \E k \in Nat : \E f, g :
                        /\ Balanced(Writing', Erasing', Len(typed'), k, f)
                        /\ Holds(chars', typed', k, f, g)
  BY DEF KeepsStanding
<1>3. PICK n \in Nat : n = Len(typed)
  BY LenProperties DEF Remembers
<1>4. /\ typed \in Seq(M!Key) /\ chars \in Seq(Byte) /\ Len(typed') = n + 1
      /\ Clear /\ x \notin {"odd", "lateopen", "lateclose", "arrow"}
      /\ x = "bs" => \A i \in 1..n : typed[i] # "wide"
      /\ Erasing' = IF x = "bs" THEN Erasing \cup {n + 1} ELSE Erasing
  BY <1>1, <1>2, <1>3, KeyArrives DEF Remembers
<1>5. Writing' = IF Wrote(x) THEN Writing \cup {n + 1} ELSE Writing
  <2>1. /\ paste <=> M!InPaste(n)
        /\ paste => (cr <=> n # 0 /\ typed[n] = "cr")
    BY <1>3 DEF Remembers, M!Press
  <2>2. Wrote(x) <=> \/ x \in M!Letter
                     \/ x = "cr" /\ M!InPaste(n)
                     \/ x = "lf" /\ M!InPaste(n) /\ ~(n # 0 /\ typed[n] = "cr")
    BY <2>1 DEF Wrote
  <2> QED
    BY <1>1, <1>3, <1>4, <2>2, KeyArrives
<1>6. PICK k \in Nat : \E f, g : Balanced(Writing, Erasing, n, k, f) /\ Holds(chars, typed, k, f, g)
  BY <1>3, <1>4 DEF KeepsStanding
<1>7. PICK f, g : Balanced(Writing, Erasing, n, k, f) /\ Holds(chars, typed, k, f, g)
  BY <1>6
<1>8. f \in [1..k -> 1..n]
  BY <1>7 DEF Balanced, Lists, Standing
<1>9. CASE Wrote(x) /\ x \in {"x", "wide", "cr", "lf"} /\ chars' = chars \o Bytes(x)
  <2>1. Balanced(Writing', Erasing', n + 1, k + 1, Extended(f, k, n + 1))
    <3>1. Writing' = Writing \cup {n + 1} /\ Erasing' = Erasing
      BY <1>4, <1>5, <1>9
    <3> QED
      BY <1>7, <3>1, WrittenStands
  <2>2. Holds(chars', typed', k + 1, Extended(f, k, n + 1), Extended(g, k, Len(chars) + 1))
    <3>1. f \in [1..k -> 1..Len(typed)]
      BY <1>3, <1>8
    <3>2. Holds(chars \o Bytes(x), Append(typed, x), k + 1, Extended(f, k, Len(typed) + 1), Extended(g, k, Len(chars) + 1))
      BY <1>4, <1>7, <1>9, <3>1, CharacterHeld
    <3> QED
      BY <1>1, <1>3, <1>9, <3>2
  <2>3. k + 1 \in Nat
    OBVIOUS
  <2> QED
    BY <1>4, <2>1, <2>2, <2>3
<1>10. CASE x = "bs" /\ ~Wrote(x) /\ chars' = Popped(chars)
  <2>1. Balanced(Writing', Erasing', n + 1, Less(k), Least(f, Less(k)))
    <3>1. Writing' = Writing /\ Erasing' = Erasing \cup {n + 1}
      BY <1>4, <1>5, <1>10
    <3> QED
      BY <1>7, <3>1, LastErased
  <2>2. Holds(chars', typed', Less(k), Least(f, Less(k)), Least(g, Less(k)))
    <3>1. \A i \in DOMAIN typed : typed[i] # "wide"
      BY <1>3, <1>4, <1>10
    <3>2. f \in [1..k -> 1..Len(typed)]
      BY <1>3, <1>8
    <3>3. Holds(Popped(chars), Append(typed, x), Less(k), Least(f, Less(k)), Least(g, Less(k)))
      BY <1>4, <1>7, <3>1, <3>2, CharacterErased
    <3> QED
      BY <1>1, <1>10, <3>3
  <2>3. Less(k) \in Nat
    BY DEF Less
  <2> QED
    BY <1>4, <2>1, <2>2, <2>3
<1>11. CASE x # "bs" /\ ~Wrote(x) /\ chars' = chars
  <2>1. Balanced(Writing', Erasing', n + 1, k, f)
    <3>1. Writing' = Writing /\ Erasing' = Erasing
      BY <1>4, <1>5, <1>11
    <3> QED
      BY <1>7, <3>1, OtherStands
  <2>2. Holds(chars', typed', k, f, g)
    BY <1>1, <1>3, <1>4, <1>7, <1>8, <1>11, StillHolds
  <2> QED
    BY <1>4, <2>1, <2>2
<1>12. end = ""
  BY DEF M!Press
<1> QED
  BY <1>1, <1>4, <1>9, <1>10, <1>11, <1>12, KeyDoes

\* The characters meant are those that still stand.
LEMMA MeantStand ==
  ASSUME Remembers
  PROVE  {i \in DOMAIN typed : M!Writes(i) /\ ~M!Erased(i)} = Standing(Writing, Erasing, Len(typed))
<1> DEFINE n == Len(typed)
<1>1. n \in Nat /\ DOMAIN typed = 1..n
  BY LenProperties DEF Remembers
<1>2. Writing \subseteq 1..n /\ Erasing \subseteq 1..n
  BY <1>1 DEF Writing, Erasing
<1> HIDE DEF n
<1>3. ASSUME NEW i \in 1..n, NEW j \in i..n
      PROVE  /\ M!Cardinality({l \in i + 1..j : typed[l] = "bs"}) = Among(Erasing, i + 1, j)
             /\ M!Cardinality({l \in i + 1..j : M!Writes(l)}) = Among(Writing, i + 1, j)
             /\ Among(Erasing, i + 1, j) \in Nat /\ Among(Writing, i + 1, j) \in Nat
  <2>1. i + 1 \in Nat /\ j \in Nat /\ i + 1..j \subseteq 1..n
    BY <1>1
  <2>2. \A s : M!Cardinality(s) = Cardinality(s)
    BY SameCardinality
  <2>3. {l \in i + 1..j : typed[l] = "bs"} = Erasing \cap (i + 1..j)
    BY <1>1, <2>1 DEF Erasing
  <2>4. {l \in i + 1..j : M!Writes(l)} = Writing \cap (i + 1..j)
    BY <1>1, <2>1 DEF Writing
  <2>5. Among(Erasing, i + 1, j) \in Nat /\ Among(Writing, i + 1, j) \in Nat
    BY <1>1, <1>2, <2>1, AmongNext
  <2> QED
    BY <2>2, <2>3, <2>4, <2>5 DEF Among
<1>4. ASSUME NEW i \in 1..n
      PROVE  ~M!Erased(i) <=> \A j \in i..n : Among(Erasing, i + 1, j) <= Among(Writing, i + 1, j)
  <2>1. M!Erased(i) <=> \E j \in i..n : Among(Erasing, i + 1, j) > Among(Writing, i + 1, j)
    BY <1>3 DEF M!Erased, n
  <2>2. \A j \in i..n : ~(Among(Erasing, i + 1, j) > Among(Writing, i + 1, j))
                          <=> Among(Erasing, i + 1, j) <= Among(Writing, i + 1, j)
    <3> TAKE j \in i..n
    <3>1. Among(Erasing, i + 1, j) \in Nat /\ Among(Writing, i + 1, j) \in Nat
      BY <1>3
    <3> QED
      BY <3>1
  <2> QED
    BY <2>1, <2>2
<1>5. \A i : i \in Writing <=> i \in 1..n /\ M!Writes(i)
  BY <1>1 DEF Writing
<1> QED
  BY <1>1, <1>4, <1>5 DEF Standing, n

\* What the bytes decode to is what the keys meant.
LEMMA ReadsAsMeant ==
  ASSUME Remembers, KeepsStanding, Clear
  PROVE  M!Value = M!Meant
<1>1. PICK k \in Nat : \E f, g : Balanced(Writing, Erasing, Len(typed), k, f) /\ Holds(chars, typed, k, f, g)
  BY DEF KeepsStanding
<1>2. PICK f, g : Balanced(Writing, Erasing, Len(typed), k, f) /\ Holds(chars, typed, k, f, g)
  BY <1>1
<1> DEFINE stand == Standing(Writing, Erasing, Len(typed))
           first == {i \in DOMAIN chars : chars[i] # "w2"}
           sign(m) == IF typed[f[m]] \in {"cr", "lf"} THEN "nl" ELSE typed[f[m]]
<1>3. /\ typed \in Seq(M!Key) /\ Len(typed) \in Nat /\ DOMAIN typed = 1..Len(typed)
      /\ chars \in Seq(Byte) /\ Len(chars) \in Nat /\ DOMAIN chars = 1..Len(chars)
  BY LenProperties DEF Remembers
<1>4. /\ stand \subseteq 1..Len(typed) /\ stand \subseteq Writing /\ first \subseteq Nat
      /\ Lists(f, k, stand) /\ Lists(g, k, first)
  <2>1. stand \subseteq Writing /\ Writing \subseteq 1..Len(typed)
    BY <1>3 DEF Standing, Writing
  <2>2. Lists(f, k, stand) /\ Lists(g, k, first)
    BY <1>2 DEF Balanced, Holds
  <2>3. first \subseteq Nat
    BY <1>3
  <2> HIDE DEF stand, first
  <2> QED
    BY <2>1, <2>2, <2>3
<1>5. ASSUME NEW m \in 1..k
      PROVE  /\ g[m] \in DOMAIN chars /\ chars[g[m]] = FirstByte(typed[f[m]])
             /\ typed[f[m]] \in {"x", "wide", "cr", "lf"}
  <2>1. g[m] \in first /\ f[m] \in Writing
    BY <1>4 DEF Lists
  <2>2. typed[f[m]] \in M!Letter \cup {"cr", "lf"} /\ f[m] \in DOMAIN typed
    BY <2>1 DEF Writing, M!Writes
  <2>3. typed[f[m]] # "odd"
    BY <2>2 DEF Clear, M!Arrived
  <2> QED
    BY <1>2, <2>1, <2>2, <2>3 DEF Holds, M!Letter
<1>6. ASSUME NEW i \in DOMAIN chars
      PROVE  M!Decoded(i) = IF chars[i] = "w1" THEN "wide" ELSE IF chars[i] = "w2" THEN "" ELSE chars[i]
  <2>1. /\ chars[i] = "w1" => i < Len(chars) /\ chars[i + 1] = "w2"
        /\ chars[i] = "w2" => i > 1 /\ chars[i - 1] = "w1"
    BY <1>2, <1>3 DEF Holds
  <2> QED
    BY <2>1 DEF M!Decoded
<1>7. {i \in DOMAIN chars : M!Decoded(i) # ""} = first
  <2>1. \A i \in DOMAIN chars : chars[i] \in Byte
    BY <1>3, ElementOfSeq
  <2>2. \A i \in DOMAIN chars : M!Decoded(i) # "" <=> chars[i] # "w2"
    BY <1>6, <2>1 DEF Byte
  <2> QED
    BY <2>2
<1> HIDE DEF stand, first
<1>8. M!Value = [m \in 1..k |-> M!Decoded(g[m])]
  <2>1. M!Ranked(first) = [m \in 1..k |-> g[m]]
    BY <1>4, ListIsRanked
  <2> QED
    BY <1>7, <2>1 DEF M!Value
<1>9. M!Meant = [m \in 1..k |-> sign(m)]
  <2>1. M!Ranked(stand) = [m \in 1..k |-> f[m]]
    <3>1. stand \subseteq Nat
      BY <1>3, <1>4
    <3> QED
      BY <1>4, <3>1, ListIsRanked
  <2>2. {i \in DOMAIN typed : M!Writes(i) /\ ~M!Erased(i)} = stand
    BY MeantStand DEF stand
  <2> QED
    BY <2>1, <2>2 DEF M!Meant
<1>10. ASSUME NEW m \in 1..k PROVE M!Decoded(g[m]) = sign(m)
  <2>1. M!Decoded(g[m]) = IF chars[g[m]] = "w1" THEN "wide" ELSE IF chars[g[m]] = "w2" THEN "" ELSE chars[g[m]]
    BY <1>5, <1>6
  <2> QED
    BY <1>5, <2>1 DEF FirstByte
<1> QED
  BY <1>8, <1>9, <1>10

\* What the reader returns is what was meant.
LEMMA ReaderPromises == ReaderInv => M!SecretIsAsTyped
<1> SUFFICES ASSUME Remembers, KeepsStanding, end = "submitted", Clear
             PROVE  M!Value = M!Meant /\ (typed[Len(typed)] \in {"cr", "lf"} => ~M!InPaste(Len(typed)))
  BY DEF ReaderInv, M!SecretIsAsTyped, Clear
<1>1. M!Value = M!Meant
  BY ReadsAsMeant
<1>2. typed[Len(typed)] \in {"cr", "lf"} => ~M!InPaste(Len(typed))
  BY DEF Remembers
<1> QED
  BY <1>1, <1>2

\* Before the first key nothing is held.
LEMMA ReaderBegins == M!Init => ReaderInv
<1> SUFFICES ASSUME M!Init PROVE ReaderInv
  OBVIOUS
<1>0. typed = <<>> /\ chars = <<>> /\ paste = FALSE /\ cr = FALSE /\ end = ""
  BY DEF M!Init
<1>1. /\ Len(typed) = 0 /\ typed \in Seq(M!Key) /\ chars \in Seq(Byte)
      /\ DOMAIN typed = {} /\ DOMAIN chars = {}
  <2>1. Len(<<>>) = 0 /\ <<>> \in Seq(M!Key) /\ <<>> \in Seq(Byte)
    BY EmptySeq
  <2>2. DOMAIN <<>> = {}
    OBVIOUS
  <2> QED
    BY <1>0, <2>1, <2>2
<1>2. Remembers
  <2>1. ~M!InPaste(0)
    BY DEF M!InPaste
  <2> QED
    BY <1>0, <1>1, <2>1 DEF Remembers
<1>3. Writing = {} /\ Erasing = {}
  BY <1>1 DEF Writing, Erasing
<1>4. Standing({}, {}, 0) = {}
  BY DEF Standing
<1> DEFINE none == [m \in 1..0 |-> 0]
<1>5. Lists(none, 0, {})
  <2>1. 1..0 = {}
    OBVIOUS
  <2>2. none \in [1..0 -> {}]
    BY <2>1
  <2> QED
    BY <2>1, <2>2 DEF Lists
<1> HIDE DEF none
<1>6. 1..0 = {} /\ 0 \in Nat
  OBVIOUS
<1>7. Balanced(Writing, Erasing, Len(typed), 0, none)
  BY <1>1, <1>3, <1>4, <1>5, <1>6 DEF Balanced
<1>8. Holds(chars, typed, 0, none, none)
  <2>1. {i \in DOMAIN chars : chars[i] # "w2"} = {}
    BY <1>1
  <2> QED
    BY <1>1, <1>5, <1>6, <2>1 DEF Holds
<1> QED
  BY <1>2, <1>6, <1>7, <1>8 DEF ReaderInv, KeepsStanding

\* A step of the reader, or of another part.
LEMMA ReaderKeeps == ReaderInv /\ [M!Next]_(M!vars) => ReaderInv'
<1>1. CASE ReaderInv /\ M!Press
  BY <1>1, StillRemembers, StillStanding DEF ReaderInv
<1>2. CASE ReaderInv /\ UNCHANGED M!vars
  <2>1. typed' = typed /\ chars' = chars /\ paste' = paste /\ cr' = cr /\ end' = end
    BY <1>2 DEF M!vars
  <2>2. Remembers'
    BY <1>2, <2>1 DEF ReaderInv, Remembers, M!InPaste
  <2>3. KeepsStanding'
    <3>1. Writing' = Writing /\ Erasing' = Erasing /\ Clear' = Clear
      BY <2>1 DEF Writing, Erasing, Clear, M!Writes, M!InPaste, M!Arrived
    <3> QED
      BY <1>2, <2>1, <3>1 DEF ReaderInv, KeepsStanding
  <2> QED
    BY <2>2, <2>3 DEF ReaderInv
<1> QED
  BY <1>1, <1>2 DEF M!Next

\* The secret read from a terminal is the one typed and pasted, and a line of a
\* paste never submits (bindings.py: _masked_input).
THEOREM SecretsAreAsTyped == ToolsSpec => []SecretIsAsTyped
<1>1. ToolsInit => ReaderInv
  BY ReaderBegins DEF ToolsInit
<1>2. ReaderInv /\ [ToolsNext]_allvars => ReaderInv'
  BY PartSteps, ReaderKeeps
<1>3. ReaderInv => SecretIsAsTyped
  BY ReaderPromises DEF SecretIsAsTyped
<1> QED
  BY <1>1, <1>2, <1>3, PTL DEF ToolsSpec
=============================================================================
