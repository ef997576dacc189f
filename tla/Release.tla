------------------------------ MODULE Release ------------------------------
(***************************************************************************)
(* `plgt build` and `plgt publish`, from the sources to the registry:      *)
(* cmd/lifecycle.py, cmd/publish.py, clients/publish_client.py and the     *)
(* steps of build_service.py on the disk.                                  *)
(*                                                                         *)
(* In one checkout of a package, commands run one at a time; the author    *)
(* may edit and the process be killed at any moment.  Another checkout, a  *)
(* pipeline's say, publishes versions of the same package.                 *)
(***************************************************************************)
EXTENDS Build

CONSTANTS
  Drafts,      \* the projects the author writes, by name
  First,       \* those the work starts from
  Torn,        \* what a killed writer leaves: archives are written in place
  MaxVersion,  \* bound: versions of the package
  MaxEdits,    \* bound: edits
  MaxRuns      \* bound: commands

\* The module of the runs assumes it.
TornAssumption == Torn # None /\ First \subseteq DOMAIN Drafts

\* What a command sees: the sources on the disk, p, under the configuration it
\* read when it started, c's.
Configured(p, c) ==
  [p EXCEPT !.matrices = [i \in DOMAIN @ |->
     [@[i] EXCEPT !.ui = c.matrices[i].ui, !.out = c.matrices[i].out]]]

\* The drafts are of one package: the same matrices in all of them; and whether
\* a matrix has anonymous siblings is seen in its files.
DraftsAssumption ==
  /\ \A d \in DOMAIN Drafts : Drafts[d] \in Project /\ Len(Drafts[d].matrices) # 0
  /\ \A d, e \in DOMAIN Drafts :
       /\ Len(Drafts[d].matrices) = Len(Drafts[e].matrices)
       /\ \A i \in DOMAIN Drafts[d].matrices :
            Contents(Drafts[d], Discovered(Drafts[d], i)) = Contents(Drafts[e], Discovered(Drafts[e], i))
            => Drafts[d].matrices[i].siblings = Drafts[e].matrices[i].siblings
  /\ MaxVersion \in Nat \ {0}

Draft == DOMAIN Drafts
Out == UNION {{Drafts[d].matrices[i].out : i \in DOMAIN Drafts[d].matrices} : d \in Draft}
Conclusion == [d \in Draft |-> ExitCode(Validate(Drafts[d]))]

VARIABLES
  source,    \* the draft on the disk
  version,   \* the version in its poliglot.yml
  bundles,   \* <output directory>/matrix.tar.gz
  parts,     \* <output directory>/dist and generated
  package,   \* .matrix/package.tgz
  cmd,       \* the command at work
  report,    \* how the last one ended
  registry,  \* the published versions
  token,     \* whether the platform takes the session's access token
  edits, runs
disk == <<bundles, parts, package>>
vars == <<source, version, disk, cmd, report, registry, token, edits, runs>>

NoCommand == [step |-> "none"]
Here == Drafts[source]
Seen == Configured(Here, Drafts[cmd.of])
At == Seen.matrices[cmd.at]

Init ==
  /\ source \in First /\ version = 1
  /\ bundles = [o \in Out |-> None] /\ parts = [o \in Out |-> NoParts] /\ package = None
  /\ cmd = NoCommand /\ report = None
  /\ registry = [v \in 1..MaxVersion |-> None]
  /\ token = "taken" /\ edits = 0 /\ runs = 0

-----------------------------------------------------------------------------
(* The author *)

Edited ==
  /\ edits < MaxEdits /\ edits' = edits + 1
  /\ cmd' = IF cmd = NoCommand THEN cmd ELSE [cmd EXCEPT !.edited = TRUE]

Edit ==
  /\ Edited
  /\ \E d \in Draft \ {source} : source' = d
  /\ UNCHANGED <<version, disk, report, registry, token, runs>>

Bump ==
  /\ Edited
  /\ version < MaxVersion /\ version' = version + 1
  /\ UNCHANGED <<source, disk, report, registry, token, runs>>

-----------------------------------------------------------------------------
(* Commands *)

Step(s) == cmd.step = s
Goto(s) == cmd' = [cmd EXCEPT !.step = s]

\* How a command ends: its exit status, and the archive it wrote, if any.
Ended(exit, result, made) ==
  /\ cmd' = NoCommand
  /\ report' = [op |-> cmd.op, gate |-> cmd.gate, dry |-> cmd.dry, edited |-> cmd.edited,
                ui |-> cmd.ui, made |-> made, of |-> cmd.of, exit |-> exit, result |-> result]
Failed(result) == Ended(1, result, cmd.made)

\* create_build_config: the version and the matrices are read once, here; a
\* publish goes straight to the build.
Start ==
  /\ Step("none") /\ runs < MaxRuns /\ runs' = runs + 1
  /\ Here.config = "ok"
  /\ \E op \in {"build", "publish"}, gate \in BOOLEAN, dry \in BOOLEAN :
       /\ op = "build" => ~dry
       /\ op = "publish" => ~gate
       /\ cmd' = [op |-> op, gate |-> gate, dry |-> dry, edited |-> FALSE, ui |-> TRUE,
                  step |-> IF gate THEN "gate" ELSE "ui", at |-> 1, named |-> {},
                  of |-> source, version |-> version, run |-> runs, made |-> None]
  /\ report' = None
  /\ UNCHANGED <<source, version, disk, registry, token, edits>>

\* build without --no-validate: errors end it, warnings do not.
Gate ==
  /\ Step("gate")
  /\ IF Conclusion[source] = 0 THEN Goto("ui") /\ UNCHANGED report ELSE Failed("invalid")
  /\ UNCHANGED <<source, version, disk, registry, token, edits, runs>>

\* build_matrix up to the UI build and with it.
BuildUi ==
  /\ Step("ui")
  /\ \/ ~Starts(Seen, cmd.at) /\ Failed("failed") /\ UNCHANGED parts
     \/ /\ Starts(Seen, cmd.at)
        /\ \E ui \in IF At.ui THEN UiOutcome ELSE {"built"} :
             /\ parts' = [parts EXCEPT ![At.out] = Components(Seen, cmd.at, ui, @)]
             /\ cmd' = [cmd EXCEPT !.step = "bundle", !.ui = @ /\ ui = "built"]
        /\ UNCHANGED report
  /\ UNCHANGED <<source, version, bundles, package, registry, token, edits, runs>>

\* build_matrix from there on.
MakeBundle ==
  /\ Step("bundle")
  /\ \/ ~Finishes(Seen, cmd.at) /\ Failed("failed") /\ UNCHANGED bundles
     \/ /\ Finishes(Seen, cmd.at)
        /\ \E order \in Orders(Seen, cmd.at) :
             bundles' = [bundles EXCEPT ![At.out] = Bundle(Seen, cmd.at, parts[At.out], order)]
        /\ LET last == cmd.at = Len(Seen.matrices) IN
           cmd' = [cmd EXCEPT !.step = IF last THEN "archive" ELSE "ui",
                              !.at = IF last THEN @ ELSE @ + 1,
                              !.named = @ \cup (Named(Seen) \cap {cmd.at})]
        /\ UNCHANGED report
  /\ UNCHANGED <<source, version, parts, package, registry, token, edits, runs>>

\* create_package_archive may fail, before it writes or in the middle: on a
\* torn bundle, a file it cannot read, a full disk.
MakeArchive ==
  LET made == Archive(Seen, cmd.version, bundles, cmd.named, cmd.run) IN
  /\ Step("archive")
  /\ \/ cmd.op = "build" /\ package' = made /\ Ended(0, "built", made)
     \/ /\ cmd.op = "publish" /\ package' = made
        /\ cmd' = [cmd EXCEPT !.step = "identify", !.made = made] /\ UNCHANGED report
     \/ package' \in {package, Torn} /\ Failed("failed")
  /\ UNCHANGED <<source, version, bundles, parts, registry, token, edits, runs>>

\* get_my_publisher, whose every refusal and failure ends the command; the
\* session may have refreshed its token for it.
Identify ==
  /\ Step("identify")
  /\ \/ Goto("upload") /\ token' = "taken" /\ UNCHANGED report
     \/ Failed("refused") /\ UNCHANGED token
  /\ UNCHANGED <<source, version, disk, registry, edits, runs>>

\* The registry: a version is kept as it was first published, and the same
\* bytes are accepted again; what is no archive is a bad request, and one that
\* does not validate is answered with a report.
Verdict(file) ==
  IF file \in {None, Torn} THEN "rejected"
  ELSE IF file.named = {} THEN "invalid"
  ELSE IF registry[file.version] \notin {None, file} THEN "conflict"
  ELSE "accepted"
Stored(file, dry) ==
  IF Verdict(file) = "accepted" /\ ~dry
  THEN [registry EXCEPT ![file.version] = file] ELSE registry

\* A mutation: a conflict is taken for "already published".
StatusOfKnown == [accepted |-> 0, conflict |-> 0, invalid |-> 2, rejected |-> 1]

StatusOf == [accepted |-> 0, conflict |-> 1, invalid |-> 2, rejected |-> 1]
Answered(verdict) == Ended(StatusOf[verdict], verdict, cmd.made)

\* A mutation: an answer that does not come is asked for again.
UploadAgain ==
  /\ Step("upload")
  /\ \/ /\ registry' = Stored(package, cmd.dry)
        /\ Answered(Verdict(package)) \/ (Goto("identify") /\ UNCHANGED report)
     \/ Goto("identify") /\ UNCHANGED <<registry, report>>
  /\ UNCHANGED <<source, version, disk, token, edits, runs>>

\* What is uploaded is the file at the fixed path.  The session's second
\* attempt, after a refresh, reads the same open file from where the first
\* left it: nothing.
Upload ==
  /\ Step("upload")
  /\ \/ /\ token = "taken"
        /\ registry' = Stored(package, cmd.dry)
        /\ Answered(Verdict(package)) \/ Failed("lost")
        /\ UNCHANGED token
     \/ /\ token = "stale"
        /\ \/ Failed("refused") /\ UNCHANGED token
           \/ Answered(Verdict(None)) /\ token' = "taken"
        /\ UNCHANGED registry
     \/ Failed("lost") /\ UNCHANGED <<registry, token>>
  /\ UNCHANGED <<source, version, disk, edits, runs>>

-----------------------------------------------------------------------------
(* The world *)

\* A process killed while it writes an archive leaves it torn.
Kill ==
  /\ ~Step("none")
  /\ cmd' = NoCommand /\ report' = None
  /\ package' = IF Step("archive") THEN Torn ELSE package
  /\ bundles' = IF Step("bundle") THEN [bundles EXCEPT ![At.out] = Torn] ELSE bundles
  /\ UNCHANGED <<source, version, parts, registry, token, edits, runs>>

\* The platform stops taking the token.
Expire ==
  /\ token = "taken" /\ token' = "stale"
  /\ UNCHANGED <<source, version, disk, cmd, report, registry, edits, runs>>

\* Another checkout, of one of the drafts, publishes a version.
Rival ==
  /\ \E v \in 1..MaxVersion, d \in First :
       LET p == Drafts[d]
           made == [o \in Out |-> LET i == CHOOSE j \in DOMAIN p.matrices : p.matrices[j].out = o
                                  IN  Bundle(p, i, Components(p, i, "built", NoParts), 1)]
       IN  /\ registry[v] = None
           /\ registry' = [registry EXCEPT ![v] = Archive(p, v, made, Named(p), 0)]
  /\ UNCHANGED <<source, version, disk, cmd, report, token, edits, runs>>

Advance == Gate \/ BuildUi \/ MakeBundle \/ MakeArchive \/ Identify \/ Upload
Next == Edit \/ Bump \/ Start \/ Advance \/ Kill \/ Expire \/ Rival

\* A command that has begun goes on: the UI tool is given 60 seconds, and the
\* platform is taken to answer or to break the connection.
Spec == Init /\ [][Next]_vars /\ WF_vars(Advance)

-----------------------------------------------------------------------------
(* Properties *)

OwnOutputs(p) ==
  \A i, j \in DOMAIN p.matrices : i # j => p.matrices[i].out # p.matrices[j].out

\* The last command wrote an archive undisturbed by an edit, of a project whose
\* matrices have output directories of their own.
Undisturbed ==
  report # None /\ ~report.edited /\ report.made # None /\ OwnOutputs(Drafts[report.of])

\* The archive a command wrote holds for every matrix that matrix's own files
\* as they are, and, if the UI tool worked, components built from them,
\* whatever earlier, failed or killed runs left on the disk.
ArchiveIsOwn ==
  Undisturbed =>
    LET p == Drafts[report.of] IN
    \A i \in DOMAIN p.matrices :
      LET b == report.made.contents[i]  now == Contents(p, Discovered(p, i)) IN
      /\ b \notin {None, Torn} /\ b.matrix = i /\ b.files = now
      /\ p.matrices[i].ui /\ report.ui =>
           b.parts.dist = now /\ (Declares(p, Discovered(p, i)) => b.parts.ttl = now)

\* A publish that reports success has left in the registry the very archive it
\* built, under the version it read.
PublishedIsBuilt ==
  report # None /\ report.op = "publish" /\ report.exit = 0 /\ ~report.dry =>
    registry[report.made.version] = report.made

\* Two archives with the same sources in them, in whatever order serialized.
SameSources(a, b) ==
  /\ a.named = b.named /\ DOMAIN a.contents = DOMAIN b.contents
  /\ \A i \in DOMAIN a.contents : [a.contents[i] EXCEPT !.order = 0] = [b.contents[i] EXCEPT !.order = 0]

\* A conflict is reported only when the registry holds other sources under the
\* version: repeating a publish whose answer was lost is accepted, when no edit
\* came in between its steps and the serializer orders the matrices alike every
\* time.  (The sources are those whose ${VAR} are substituted, by all builds in
\* one environment.)
ConflictIsReal ==
  report # None /\ report.result = "conflict" /\ ~report.edited
    /\ (\A i \in DOMAIN Drafts[report.of].matrices : ~Drafts[report.of].matrices[i].siblings)
  => ~SameSources(registry[report.made.version], report.made)

\* Every command comes to an end.
CommandsEnd == (cmd # NoCommand) ~> (cmd = NoCommand)

\* The steps a command still has to take: two for each matrix, to the archive,
\* and three with it.
Remaining ==
  LET n == Len(Here.matrices)
  IN  CASE Step("gate")     -> 2 * n + 4
        [] Step("ui")       -> 2 * (n - cmd.at) + 5
        [] Step("bundle")   -> 2 * (n - cmd.at) + 4
        [] Step("archive")  -> 3
        [] Step("identify") -> 2
        [] Step("upload")   -> 1
        [] Step("none")     -> 0

\* A command gets done with every step it takes, an upload that gets no answer
\* included, and edits meanwhile give it no more to do.
CommandsDescend ==
  /\ [](Remaining \in Nat /\ (Remaining = 0 <=> cmd = NoCommand))
  /\ [][/\ Advance \/ Kill => Remaining' < Remaining
        /\ cmd # NoCommand /\ ~(Advance \/ Kill) => Remaining' = Remaining]_vars
=============================================================================
