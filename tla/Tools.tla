------------------------------- MODULE Tools -------------------------------
(***************************************************************************)
(* The parts of plgt that work on one project or one terminal and share    *)
(* nothing: the language server, `plgt validate`, build and publish, the   *)
(* bindings of an install, the reader of secrets, script expansion,        *)
(* version ranges, and the commands that edit a workspace.                 *)
(*                                                                         *)
(* A behaviour exercises one of them, `tool`; the variables of the others  *)
(* stay as they are: a sum of the models, not a product.                   *)
(***************************************************************************)
EXTENDS LspServer

CONSTANTS
  Package, Engine, Authored,                        \* Authoring
  Drafts, First, Torn, MaxVersion, MaxEdits, MaxRuns, \* Release
  Cases,                                            \* Bindings
  MaxKeys,                                          \* MaskedInput
  Prefix, LabelOf, Iri, InIri, Script, Table,          \* Scripts
  Number, Word, Written,                            \* Ranges
  Requests, Items, Bare, MaxChanges, MaxCommands    \* WorkspaceEdits

VARIABLES
  tool,                                             \* the part exercised
  project, result,                                  \* Authoring
  source, version, bundles, parts, package, cmd,
  report, registry, token, edits, runs,             \* Release
  case, step, at, bound, asked, skipped, keys,
  sealed, outcome,                                  \* Bindings
  typed, chars, paste, cr, end,                     \* MaskedInput
  script,                                           \* Scripts
  range, from,                                      \* Ranges
  items, next, edit, listed, target, applied, told,
  changes, commands                                 \* WorkspaceEdits

-----------------------------------------------------------------------------
(* The instances *)

\* A definition, so that TLC computes the drafts once.
DraftTable == Drafts

A == INSTANCE Authoring WITH Beginning <- Authored
R == INSTANCE Release WITH Drafts <- DraftTable
B == INSTANCE Bindings
M == INSTANCE MaskedInput
S == INSTANCE Scripts
V == INSTANCE Ranges
W == INSTANCE WorkspaceEdits WITH Beginning <- Items, cmd <- edit, report <- told

ASSUME ProjectAssumption == A!PackageAssumption /\ A!BeginningAssumption /\ A!NoValueAssumption
ASSUME ReleaseAssumption == R!TornAssumption /\ R!DraftsAssumption
ASSUME BindingsAssumption == B!CasesAssumption
ASSUME ScriptsAssumption == S!TableAssumption
ASSUME RangesAssumption == V!NumberAssumption /\ V!WrittenAssumption
ASSUME EditsAssumption == W!RequestsAssumption /\ W!BeginningAssumption

-----------------------------------------------------------------------------
(* The whole *)

Tool == {"lsp", "validate", "release", "bindings", "terminal", "script", "range", "edits"}

ToolsInit ==
  /\ tool \in Tool
  /\ Init /\ R!Init /\ M!Init /\ W!Init
  /\ IF tool = "validate" THEN A!Init ELSE project = None /\ result = None
  /\ IF tool = "bindings" THEN B!Init ELSE case = None /\ B!Unstarted
  /\ IF tool = "script" THEN S!Init ELSE script = <<>>
  /\ IF tool = "range" THEN V!Init ELSE range = <<>> /\ from = None

authoring == <<project, result>>
release == <<source, version, bundles, parts, package, cmd, report, registry, token, edits, runs>>
bindings == <<case, step, at, bound, asked, skipped, keys, sealed, outcome>>
terminal == <<typed, chars, paste, cr, end>>
texts == <<script, range, from>>
workspace == <<items, next, edit, listed, target, applied, told, changes, commands>>
allvars == <<tool, vars, authoring, release, bindings, terminal, texts, workspace>>

Use(t) == tool = t /\ UNCHANGED tool

Lsp == Use("lsp") /\ Next /\ UNCHANGED <<authoring, release, bindings, terminal, texts, workspace>>
LspServes == Use("lsp") /\ Server /\ UNCHANGED <<authoring, release, bindings, terminal, texts, workspace>>
Authors == Use("validate") /\ A!Next /\ UNCHANGED <<vars, release, bindings, terminal, texts, workspace>>
Releases == Use("release") /\ R!Next /\ UNCHANGED <<vars, authoring, bindings, terminal, texts, workspace>>
Advances == Use("release") /\ R!Advance /\ UNCHANGED <<vars, authoring, bindings, terminal, texts, workspace>>
Binds == Use("bindings") /\ B!Next /\ UNCHANGED <<vars, authoring, release, terminal, texts, workspace>>
Types == Use("terminal") /\ M!Next /\ UNCHANGED <<vars, authoring, release, bindings, texts, workspace>>
Edits == Use("edits") /\ W!Next /\ UNCHANGED <<vars, authoring, release, bindings, terminal, texts>>

ToolsNext == Lsp \/ Authors \/ Releases \/ Binds \/ Types \/ Edits

\* The fairness of each part, as its own specification has it.
ToolsSpec ==
  /\ ToolsInit /\ [][ToolsNext]_allvars
  /\ WF_allvars(LspServes) /\ WF_allvars(Authors) /\ WF_allvars(Advances)

-----------------------------------------------------------------------------
(* The properties of the parts, by the names they have there *)

\* A clean validation has looked at all that a build ships (Authoring).
CleanMeansChecked == A!CleanMeansChecked

\* A project that validates clean builds (Authoring).
CleanBuilds == A!CleanBuilds

\* Mending what validation reports comes to a clean run (Authoring).
FixesConverge == tool = "validate" => A!FixesConverge

\* An archive holds its own matrices' files, as they are (Release).
ArchiveIsOwn == R!ArchiveIsOwn

\* A publish that succeeded published what it built (Release).
PublishedIsBuilt == R!PublishedIsBuilt

\* A conflict means other content under the version (Release).
ConflictIsReal == R!ConflictIsReal

\* Every build and publish comes to an end (Release).
CommandsEnd == R!CommandsEnd

\* An install request is complete, each of its values at the declaration it
\* was given for, and a flag that cannot be honoured ends the run before
\* anything is asked (Bindings).
BindingsHold == B!RequestIsComplete /\ B!BadFlagsCostNothing

\* The secret read from a terminal is the one typed and pasted (MaskedInput).
SecretIsAsTyped == M!SecretIsAsTyped

\* A script's names mean in the package what they mean in the script (Scripts).
InlinedResolves == S!InlinedResolves

\* Ranges are intervals, and the one `plgt add` records keeps to the major
\* (Ranges).
RangesHold == V!RangesAreIntervals /\ V!RecordedRangeKeepsMajor

\* A command that changes the workspace did what it tells (WorkspaceEdits).
ToldIsDone == W!ToldIsDone
=============================================================================
