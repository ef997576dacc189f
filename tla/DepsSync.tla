------------------------------ MODULE DepsSync ------------------------------
(***************************************************************************)
(* `plgt sync`, `plgt add` and `plgt remove` in one project and one mode:  *)
(* services/deps_install_service.py, services/deps_lockfile.py and the     *)
(* three commands of cmd/lifecycle.py.                                     *)
(*                                                                         *)
(* One command runs at a time.  It reads poliglot.yml, the lockfile and,   *)
(* in workspace-sync mode, the workspace's installed list; it resolves the *)
(* engine, then every declared dependency and its transitives depth first; *)
(* each package it picks is unpacked into a directory of the cache, file   *)
(* by file, ending with the marker; last, it writes the lockfile.  It may  *)
(* die between any two of these steps and within a write, and the          *)
(* registry, the workspace and the user's edits move while it works.       *)
(***************************************************************************)
EXTENDS Naturals, Sequences, FiniteSets

CONSTANTS
  Coord,          \* publisher/name coordinates
  Engine,         \* the coordinate poliglot/os
  Version,        \* versions, ordered as numbers
  MajorOf,        \* the major component of a version
  MaxBuild,       \* contents are numbered 1..MaxBuild
  Releases,       \* the <<coordinate, version>> pairs that may be published
  Published,      \* those that are published at the start
  Fitting,        \* those the registry lists for the project's engine range
  Contents,       \* how many contents each release may get, one after the other
  Manifest,       \* declared dependencies of the content <<c, v, b>>
  Carries,        \* releases whose archive has a poliglot.yml member
  EngineRange,    \* package.engineVersion of the project
  Configs,        \* `dependencies:` maps the user may write by hand
  WorkspaceMode,  \* TRUE for workspace-sync, FALSE for registry-resolve
  Kinds,          \* commands the user runs
  CrashPoints,    \* program points at which a run may die
  Losses,         \* what the last entry of a lockfile cut short may lose
  None, Torn      \* "no value"; "truncated file"

Build  == 1 .. MaxBuild
Build0 == 0 .. MaxBuild
Ranges  == SUBSET Version
Decl   == [coord: Coord, range: Ranges]

AllKinds  == {"sync", "update", "add", "add-no-sync", "remove", "remove-no-sync"}
AllPoints == {"load", "pick", "materialize", "clear", "fetch", "extract", "save", "drop"}
AllLosses == {"origin", "via", "root", "checksum"}

ASSUME VersionAssumption == Version \subseteq Nat \ {0}
ASSUME BuildAssumption == MaxBuild \in Nat \ {0}
ASSUME CoordAssumption == Engine \in Coord /\ None \notin Coord
ASSUME ReleaseAssumption == /\ Releases \subseteq Coord \X Version
                            /\ Published \subseteq Releases
                            /\ Carries \subseteq Releases
                            /\ Fitting \subseteq Releases
                            /\ Contents \in [Releases -> Build]
ASSUME ManifestAssumption == Manifest \in [Coord \X Version \X Build -> Seq(Decl)]
ASSUME RangeAssumption == EngineRange \in Ranges /\ MajorOf \in [Version -> Nat]
ASSUME ConfigAssumption == Configs \subseteq Seq(Decl) /\ Torn \notin Seq(Decl)
ASSUME ModeAssumption == /\ WorkspaceMode \in BOOLEAN
                         /\ Kinds \subseteq AllKinds
                         /\ CrashPoints \subseteq AllPoints
                         /\ Losses \subseteq AllLosses

Origin == {"workspace-pinned", "registry-fallback", "unknown"}

\* A resolved package; `build` stands for its checksum.
Entry == [version: Version, build: Build, root: BOOLEAN, via: Coord \cup {None},
          origin: Origin]

\* One read from a lockfile: a checksum cut short, 0, is that of no content.
LockedEntry == [version: Version, build: Build0, root: BOOLEAN, via: Coord \cup {None},
                origin: Origin]

Lockfile == [engine: LockedEntry, deps: [Coord -> LockedEntry \cup {None}]]

\* A dependency to resolve, and the one being materialised.
Edge == [coord: Coord, range: Ranges, role: {"engine", "root", "transitive"},
         via: Coord \cup {None}]

Current == [edge: Edge, version: Version, origin: Origin]

ASSUME SentinelAssumption == /\ None \notin LockedEntry
                             /\ None \notin Lockfile
                             /\ None \notin Current
                             /\ Torn \notin Lockfile
                             /\ None # Torn

\* What a package directory holds: the marker, the package's poliglot.yml and
\* the rest.  0 is an absent file, b a file of the b-th content of the version.
\* An empty marker counts as an absent one.
File == {"marker", "config", "body"}

EmptyDir == [f \in File |-> 0]

VARIABLES
  config,    \* poliglot.yml `dependencies:`, in file order
  lock,      \* the mode's lockfile; Torn: one that does not load
  whole,     \* history: it was written to its end
  cache,     \* the mode's cache subtree: <<coordinate, version>> -> directory
  registry,  \* content served for a release, 0 if unpublished
  installed, \* version the workspace has of a coordinate, 0 if none
  pc,        \* where the running command is
  cmd,       \* the running command
  pins,      \* existing_pins
  seen,      \* workspace_state
  todo,      \* edges still to resolve: the call stack of the resolver
  cur,       \* the edge being materialised, its version and origin
  archive,   \* content of package.tgz, 0 if not downloaded
  engine,    \* the resolved engine
  resolved   \* _resolved

disk  == <<config, lock, whole, cache>>
world == <<registry, installed>>
run   == <<cmd, pins, seen, todo, cur, archive, engine, resolved>>
vars  == <<disk, world, pc, run>>

NoEntries   == [c \in Coord |-> None]
NoInstalled == [c \in Coord |-> 0]
NoCommand   == [kind |-> "none", target |-> None, arg |-> None]

-----------------------------------------------------------------------------
(* Helpers *)

Declared(decls) == {decls[i].coord : i \in DOMAIN decls}

\* _range_from_version_arg: the minor floor of a version, everything for none.
MinorFloor(v) == {w \in Version : w >= v /\ MajorOf[w] = MajorOf[v]}
ArgRange(arg) == IF arg = None THEN Version ELSE MinorFloor(arg)

\* add_dependency_to_config: in place if declared, else appended.
WithDep(decls, c, r) ==
  IF c \in Declared(decls)
  THEN [i \in DOMAIN decls |-> IF decls[i].coord = c THEN [coord |-> c, range |-> r]
                                                     ELSE decls[i]]
  ELSE Append(decls, [coord |-> c, range |-> r])

\* remove_dependency_from_config
WithoutDep(decls, c) ==
  LET i == CHOOSE i \in DOMAIN decls : decls[i].coord = c
  IN  SubSeq(decls, 1, i - 1) \o SubSeq(decls, i + 1, Len(decls))

\* Mutant of PinsOf: the lockfile is ignored.
PinsOfNone(l) == NoEntries

\* The pins a plain run honours.  A dependency on the engine's coordinate is
\* indexed after the engine, and under the same key.
PinsOf(l) == [c \in Coord |-> IF c = Engine /\ l.deps[c] = None THEN l.engine
                                                               ELSE l.deps[c]]

Edges(decls, role, via) ==
  [i \in DOMAIN decls |-> [coord |-> decls[i].coord, range |-> decls[i].range,
                           role |-> role, via |-> via]]

EngineEdge == [coord |-> Engine, range |-> EngineRange, role |-> "engine", via |-> None]

\* Mutant of RootEdges: the target of `add` is resolved in any version.
RootEdgesAny ==
  Edges(config, "root", None) \o
  (IF cmd.kind = "add" /\ cmd.target \notin Declared(config)
   THEN Edges(<<[coord |-> cmd.target, range |-> Version]>>, "root", None)
   ELSE <<>>)

\* Declared dependencies, then the target of an `add` unless it is declared.
RootEdges ==
  Edges(config, "root", None) \o
  (IF cmd.kind = "add" /\ cmd.target \notin Declared(config)
   THEN Edges(<<[coord |-> cmd.target, range |-> ArgRange(cmd.arg)]>>, "root", None)
   ELSE <<>>)

Forced == cmd.kind = "update"

\* Mutant of PinHolds: the pin wins out of range.
PinHoldsAny(e) == pins[e.coord] # None

\* _pick_version: the pin if it is in range, else what the workspace has, in
\* range or not, else the newest published version in range.
PinHolds(e) == pins[e.coord] # None /\ pins[e.coord].version \in e.range

\* The registry leaves out what does not fit the project's engine range, for
\* the engine's own coordinate too, and lists the newest first.
Candidates(e) == {v \in e.range : <<e.coord, v>> \in Fitting /\ registry[e.coord, v] # 0}

\* Mutant of Picks: what the workspace has wins over the pin.
PicksWorkspaceFirst(e, v, origin) ==
  \/ seen[e.coord] # 0 /\ v = seen[e.coord] /\ origin = "workspace-pinned"
  \/ /\ seen[e.coord] = 0 /\ PinHolds(e)
     /\ v = pins[e.coord].version /\ origin = pins[e.coord].origin
  \/ /\ ~PinHolds(e) /\ seen[e.coord] = 0
     /\ v \in Candidates(e) /\ \A w \in Candidates(e) : w <= v
     /\ origin = "registry-fallback"

Picks(e, v, origin) ==
  \/ PinHolds(e) /\ v = pins[e.coord].version /\ origin = pins[e.coord].origin
  \/ ~PinHolds(e) /\ seen[e.coord] # 0 /\ v = seen[e.coord] /\ origin = "workspace-pinned"
  \/ /\ ~PinHolds(e) /\ seen[e.coord] = 0
     /\ v \in Candidates(e) /\ \A w \in Candidates(e) : w <= v
     /\ origin = "registry-fallback"

CurDir == cache[cur.edge.coord, cur.version]

ArchiveFiles(c, v) == IF <<c, v>> \in Carries THEN {"config", "body"} ELSE {"body"}

\* Mutant of DepsOnDisk: transitives are not walked.
DepsOnDiskNone(c, v) == <<>>

\* _read_package_dependencies: what the unpacked poliglot.yml declares, and
\* nothing when the file is not there.
DepsOnDisk(c, v) == LET b == cache[c, v]["config"]
                    IN  IF b = 0 THEN <<>> ELSE Manifest[c, v, b]
-----------------------------------------------------------------------------
(* The commands *)

Init ==
  /\ config \in Configs
  /\ lock = None /\ whole = TRUE
  /\ cache = [cv \in Releases |-> EmptyDir]
  /\ registry = [cv \in Releases |-> IF cv \in Published THEN 1 ELSE 0]
  /\ installed = NoInstalled
  /\ pc = "idle"
  /\ cmd = NoCommand
  /\ pins = NoEntries
  /\ seen = NoInstalled
  /\ todo = <<>>
  /\ cur = None
  /\ archive = 0
  /\ engine = None
  /\ resolved = NoEntries

\* The process exits and takes its memory with it.
Exit ==
  /\ pc' = "idle"
  /\ cmd' = NoCommand
  /\ pins' = NoEntries
  /\ seen' = NoInstalled
  /\ todo' = <<>>
  /\ cur' = None
  /\ archive' = 0
  /\ engine' = None
  /\ resolved' = NoEntries

Begin(kind, target, arg, point) ==
  /\ pc = "idle"
  /\ kind \in Kinds
  /\ pc' = point
  /\ cmd' = [kind |-> kind, target |-> target, arg |-> arg]
  /\ UNCHANGED <<disk, world, pins, seen, todo, cur, archive, engine, resolved>>

Sync == \E kind \in {"sync", "update"} : Begin(kind, None, None, "load")

Add == \E c \in Coord, arg \in Version \cup {None} : Begin("add", c, arg, "load")

\* --no-sync needs an explicit version and only edits poliglot.yml, a file that
\* a killed command left empty included.
AddNoSync == \E c \in Coord, arg \in Version : Begin("add-no-sync", c, arg, "save")

\* The target must be declared.  (What --no-sync put in an empty file may be
\* removed from it again; the file does not load before or after.)
Remove ==
  /\ config # Torn
  /\ \E kind \in {"remove", "remove-no-sync"}, c \in Declared(config) :
       Begin(kind, c, None, "drop")

\* `remove` edits poliglot.yml first and syncs afterwards.
DropDep ==
  /\ pc = "drop"
  /\ config' = WithoutDep(config, cmd.target)
  /\ IF cmd.kind = "remove" THEN pc' = "load" /\ UNCHANGED run ELSE Exit
  /\ UNCHANGED <<lock, whole, cache, world>>

Readable == config # Torn /\ (Forced \/ lock # Torn)

\* install_local_deps up to the resolver.  --update does not read the lockfile.
Load ==
  /\ pc = "load"
  /\ Readable
  /\ pins' = IF Forced \/ lock = None THEN NoEntries ELSE PinsOf(lock)
  /\ seen' = installed
  /\ todo' = <<EngineEdge>> \o RootEdges
  /\ pc' = "pick"
  /\ UNCHANGED <<disk, world, cmd, cur, archive, engine, resolved>>

LoadFails ==
  /\ pc = "load"
  /\ ~Readable
  /\ Exit
  /\ UNCHANGED <<disk, world>>

Picking == pc = "pick" /\ todo # <<>>

\* Mutant of PickNew: a coordinate is materialised each time it is met.
PickNewAgain ==
  /\ Picking
  /\ LET e == Head(todo) IN
       \E v \in Version, origin \in Origin :
         /\ Picks(e, v, origin)
         /\ cur' = [edge |-> e, version |-> v, origin |-> origin]
  /\ pc' = "materialize"
  /\ UNCHANGED <<disk, world, cmd, pins, seen, todo, archive, engine, resolved>>

\* A coordinate this run has not materialised yet, or the engine.
PickNew ==
  /\ Picking
  /\ LET e == Head(todo) IN
       /\ e.role = "engine" \/ resolved[e.coord] = None
       /\ \E v \in Version, origin \in Origin :
            /\ Picks(e, v, origin)
            /\ cur' = [edge |-> e, version |-> v, origin |-> origin]
  /\ pc' = "materialize"
  /\ UNCHANGED <<disk, world, cmd, pins, seen, todo, archive, engine, resolved>>

\* Mutant of PickAgain: a declared package first met as a transitive stays one.
PickAgainKeeps ==
  /\ Picking
  /\ LET e == Head(todo) IN
       /\ e.role # "engine" /\ resolved[e.coord] # None
       /\ \E origin \in Origin : Picks(e, resolved[e.coord].version, origin)
  /\ todo' = Tail(todo)
  /\ UNCHANGED <<disk, world, pc, cmd, pins, seen, cur, archive, engine, resolved>>

\* The version is the one already locked in.  A transitive package that turns
\* out to be declared becomes a root, rebuilt without its origin.
PickAgain ==
  /\ Picking
  /\ LET e == Head(todo)
         old == resolved[e.coord] IN
       /\ e.role # "engine" /\ old # None
       /\ \E origin \in Origin : Picks(e, old.version, origin)
       /\ resolved' = IF e.role = "root" /\ ~old.root
                      THEN [resolved EXCEPT ![e.coord] =
                              [old EXCEPT !.root = TRUE, !.via = None, !.origin = "unknown"]]
                      ELSE resolved
  /\ todo' = Tail(todo)
  /\ UNCHANGED <<disk, world, pc, cmd, pins, seen, cur, archive, engine>>

\* No version in range, or another one than the one already locked in.
PickFails ==
  /\ Picking
  /\ LET e == Head(todo) IN
       \A v \in Version, origin \in Origin :
         Picks(e, v, origin) => /\ e.role # "engine"
                                /\ resolved[e.coord] # None
                                /\ resolved[e.coord].version # v
  /\ Exit
  /\ UNCHANGED <<disk, world>>
-----------------------------------------------------------------------------
(* _materialize *)

\* Record the package whose directory carries marker b, then walk its
\* dependencies.  The engine is kept apart and not walked.
Record(b) ==
  LET e == cur.edge
      entry == [version |-> cur.version, build |-> b, root |-> e.role # "transitive",
                via |-> e.via, origin |-> cur.origin]
  IN  /\ IF e.role = "engine"
         THEN /\ engine' = entry
              /\ todo' = Tail(todo)
              /\ UNCHANGED resolved
         ELSE /\ resolved' = [resolved EXCEPT ![e.coord] = entry]
              /\ todo' = Edges(DepsOnDisk(e.coord, cur.version), "transitive", e.coord)
                           \o Tail(todo)
              /\ UNCHANGED engine
      /\ cur' = None
      /\ archive' = 0
      /\ pc' = "pick"

\* Mutant of UseCached: any unpacked file counts as an installed package.
UseCachedAny ==
  /\ pc = "materialize"
  /\ ~Forced /\ CurDir["body"] # 0
  /\ Record(CurDir["body"])
  /\ UNCHANGED <<disk, world, cmd, pins, seen>>

UseCached ==
  /\ pc = "materialize"
  /\ ~Forced /\ CurDir["marker"] # 0
  /\ Record(CurDir["marker"])
  /\ UNCHANGED <<disk, world, cmd, pins, seen>>

Refetch ==
  /\ pc = "materialize"
  /\ Forced \/ CurDir["marker"] = 0
  /\ pc' = "clear"
  /\ UNCHANGED <<disk, world, run>>

PutFile(f, b) ==
  cache' = [cache EXCEPT ![<<cur.edge.coord, cur.version>>] = [CurDir EXCEPT ![f] = b]]

\* shutil.rmtree deletes the files one by one, in directory order.
ClearFile ==
  /\ pc = "clear"
  /\ \E f \in File : CurDir[f] # 0 /\ PutFile(f, 0)
  /\ UNCHANGED <<config, lock, whole, world, pc, run>>

\* Mutant of Cleared: what rmtree could not delete stays.
ClearedPartly ==
  /\ pc = "clear"
  /\ pc' = "fetch"
  /\ UNCHANGED <<disk, world, run>>

Cleared ==
  /\ pc = "clear"
  /\ CurDir = EmptyDir
  /\ pc' = "fetch"
  /\ UNCHANGED <<disk, world, run>>

Served == registry[cur.edge.coord, cur.version]

\* Mutant of Mismatch: the checksum is not compared.
MismatchNever == FALSE

\* The prior lockfile has this very version with another checksum.
Mismatch ==
  LET pin == pins[cur.edge.coord]
  IN  pin # None /\ pin.version = cur.version /\ pin.build # Served

Fetch ==
  /\ pc = "fetch"
  /\ ~Mismatch
  /\ archive' = Served
  /\ pc' = "extract"
  /\ UNCHANGED <<disk, world, cmd, pins, seen, todo, cur, engine, resolved>>

FetchRefused ==
  /\ pc = "fetch"
  /\ Mismatch
  /\ Exit
  /\ UNCHANGED <<disk, world>>

Members == ArchiveFiles(cur.edge.coord, cur.version)

ExtractFile ==
  /\ pc = "extract"
  /\ \E f \in Members : CurDir[f] = 0 /\ PutFile(f, archive)
  /\ UNCHANGED <<config, lock, whole, world, pc, run>>

\* Mutant of WriteMarker: the marker may come before the rest.
WriteMarkerEarly ==
  /\ pc = "extract"
  /\ PutFile("marker", archive)
  /\ Record(archive)
  /\ UNCHANGED <<config, lock, whole, world, cmd, pins, seen>>

\* The marker comes last.
WriteMarker ==
  /\ pc = "extract"
  /\ \A f \in Members : CurDir[f] # 0
  /\ PutFile("marker", archive)
  /\ Record(archive)
  /\ UNCHANGED <<config, lock, whole, world, cmd, pins, seen>>

-----------------------------------------------------------------------------
(* The end of a run *)

\* Mutant of WriteLock: the lockfile is written while resolving.
WriteLockEarly ==
  /\ pc = "pick"
  /\ lock' = [engine |-> engine, deps |-> resolved] /\ whole' = TRUE
  /\ IF cmd.kind = "add" THEN pc' = "save" /\ UNCHANGED run ELSE Exit
  /\ UNCHANGED <<config, cache, world>>

\* The lockfile is written only when everything is resolved.
WriteLock ==
  /\ pc = "pick" /\ todo = <<>>
  /\ lock' = [engine |-> engine, deps |-> resolved] /\ whole' = TRUE
  /\ IF cmd.kind = "add" THEN pc' = "save" /\ UNCHANGED run ELSE Exit
  /\ UNCHANGED <<config, cache, world>>

\* Without @version the recorded range is the minor floor of what was resolved.
SavedRange ==
  IF cmd.arg = None THEN MinorFloor(resolved[cmd.target].version) ELSE MinorFloor(cmd.arg)

\* An empty poliglot.yml gets a dependency and still no package section, so it
\* does not load.
SaveDep ==
  /\ pc = "save"
  /\ config' = IF config = Torn THEN Torn ELSE WithDep(config, cmd.target, SavedRange)
  /\ Exit
  /\ UNCHANGED <<lock, whole, cache, world>>

\* An entry cut short: what its last lines say takes its default when it is
\* read.  A `via` that is cut is taken for none: nothing looks at it.
Fray(e, loss) ==
  [e EXCEPT !.origin = "unknown",
            !.via = IF loss = "origin" THEN @ ELSE None,
            !.root = IF loss \in {"root", "checksum"} THEN TRUE ELSE @,
            !.build = IF loss = "checksum" THEN 0 ELSE @]
Frayed(e) == {e} \cup {Fray(e, loss) : loss \in Losses}

\* The dump goes to the file piece by piece, so that dying in it leaves a part:
\* one that does not load, or the entries so far, the last of them cut short.
\* (They are sorted by coordinate; here they may be any of them.)
CutLock ==
  \/ lock' = Torn
  \/ \E x \in Frayed(engine) : lock' = [engine |-> x, deps |-> NoEntries]
  \/ \E some \in SUBSET {c \in Coord : resolved[c] # None} : \E end \in some :
       \E x \in Frayed(resolved[end]) :
         lock' = [engine |-> engine,
                  deps |-> [c \in Coord |-> IF c = end THEN x
                                           ELSE IF c \in some THEN resolved[c] ELSE None]]

\* Killed, or ended by a network error or a bad archive.  Both files are opened
\* for writing in place; poliglot.yml is written at once, and left empty by a
\* death before that.
Crash ==
  /\ pc \in CrashPoints
  /\ Exit
  /\ \/ UNCHANGED <<lock, whole>>
     \/ pc = "pick" /\ todo = <<>> /\ CutLock /\ whole' = FALSE
  /\ config' \in IF pc \in {"save", "drop"} THEN {config, Torn} ELSE {config}
  /\ UNCHANGED <<cache, world>>

-----------------------------------------------------------------------------
(* The world *)

\* A release appears, or is replaced by other content under the same version.
Publish(cv) ==
  /\ registry[cv] < Contents[cv]
  /\ registry' = [registry EXCEPT ![cv] = @ + 1]
  /\ UNCHANGED <<disk, installed, pc, run>>

\* The workspace installs, upgrades or uninstalls a package.
ChangeWorkspace(c) ==
  /\ WorkspaceMode
  /\ \E v \in {0} \cup {w \in Version : <<c, w>> \in Releases /\ registry[c, w] # 0} :
       /\ v # installed[c]
       /\ installed' = [installed EXCEPT ![c] = v]
  /\ UNCHANGED <<disk, registry, pc, run>>

\* The user edits poliglot.yml, or restores it, between two commands.
EditConfig ==
  /\ pc = "idle"
  /\ config' \in Configs
  /\ config' # config
  /\ UNCHANGED <<lock, whole, cache, world, pc, run>>

\* What the "unsupported format version" error tells the user to do.
DeleteLock ==
  /\ pc = "idle"
  /\ lock # None
  /\ lock' = None /\ whole' = TRUE
  /\ UNCHANGED <<config, cache, world, pc, run>>

\* The cache is not committed with the lockfile: a fresh clone or CI job has the
\* one without the other.
CleanCache ==
  /\ pc = "idle"
  /\ cache' = [cv \in Releases |-> EmptyDir]
  /\ UNCHANGED <<config, lock, whole, world, pc, run>>

-----------------------------------------------------------------------------
Command == Sync \/ Add \/ AddNoSync \/ Remove

Step ==
  \/ DropDep \/ Load \/ LoadFails
  \/ PickNew \/ PickAgain \/ PickFails
  \/ UseCached \/ Refetch \/ ClearFile \/ Cleared
  \/ Fetch \/ FetchRefused \/ ExtractFile \/ WriteMarker
  \/ WriteLock \/ SaveDep

World ==
  \/ \E cv \in Releases : Publish(cv)
  \/ \E c \in Coord : ChangeWorkspace(c)
  \/ EditConfig
  \/ DeleteLock
  \/ CleanCache

Next == Command \/ Step \/ Crash \/ World

Spec == Init /\ [][Next]_vars

\* The process is scheduled: a step it can take is taken.
FairSpec == Spec /\ WF_vars(Step)
-----------------------------------------------------------------------------
(* Correctness *)

Point == {"idle"} \cup AllPoints

Command0 == [kind: AllKinds \cup {"none"}, target: Coord \cup {None},
             arg: Version \cup {None}]

TypeOK ==
  /\ config \in Seq(Decl) \cup {Torn}
  /\ lock \in Lockfile \cup {None, Torn} /\ whole \in BOOLEAN
  /\ cache \in [Releases -> [File -> Build0]]
  /\ registry \in [Releases -> Build0]
  /\ installed \in [Coord -> Version \cup {0}]
  /\ pc \in Point
  /\ cmd \in Command0
  /\ pins \in [Coord -> LockedEntry \cup {None}]
  /\ seen \in [Coord -> Version \cup {0}]
  /\ todo \in Seq(Edge)
  /\ cur \in Current \cup {None}
  /\ archive \in Build0
  /\ engine \in Entry \cup {None}
  /\ resolved \in [Coord -> Entry \cup {None}]

\* The directory of <<c, v>> holds the whole of content b, marker included.
Complete(c, v, b) ==
  \A f \in ArchiveFiles(c, v) \cup {"marker"} : cache[c, v][f] = b

\* A forced run deletes directories that carry a marker.  Whether it can die
\* between two of those deletions decides what a marker is worth.
MarkersTrusted == "update" \notin Kinds \/ "clear" \notin CrashPoints

Clearing(c, v) == pc = "clear" /\ cur.edge.coord = c /\ cur.version = v

(* A marker stands for a completely unpacked package: whatever was killed      *)
(* before, no run takes half a directory for an installed package             *)
(* (_materialize's fast path on .matrix-installed).                           *)
MarkerMeansComplete ==
  MarkersTrusted =>
    \A c \in Coord, v \in Version :
      <<c, v>> \in Releases /\ cache[c, v]["marker"] # 0 /\ ~Clearing(c, v)
        => Complete(c, v, cache[c, v]["marker"])

(* What a run has resolved is in the cache, whole and with the checksum it     *)
(* will write to the lockfile, and stays there while the rest is resolved:     *)
(* no later step of the run deletes or replaces it.  A forced run achieves it  *)
(* even over directories that a killed run left half deleted.                  *)
ResolvedIsInstalled ==
  MarkersTrusted \/ Forced =>
    \A c \in Coord :
      resolved[c] # None => Complete(c, resolved[c].version, resolved[c].build)

\* A lockfile has been written, to its end.
Written == lock' # lock /\ lock' \notin {None, Torn} /\ whole'

(* A lockfile, when it is written, names packages that are in the cache with   *)
(* the checksum it records: `plgt validate` right after `plgt sync` reads what *)
(* the lockfile says.                                                          *)
LockNamesInstalled ==
  [][Written /\ (MarkersTrusted \/ Forced) =>
       \A c \in Coord : lock'.deps[c] # None =>
         \A f \in ArchiveFiles(c, lock'.deps[c].version) \cup {"marker"} :
           cache'[c, lock'.deps[c].version][f] = lock'.deps[c].build]_vars

\* What readers are promised: what is cut short counts as torn, also where it
\* loads.
Promised == IF whole THEN lock ELSE Torn

Contract == INSTANCE LockContract WITH
  Coord <- Coord, Manifest <- Manifest, Carries <- Carries, Lockfile <- Lockfile,
  None <- None, Torn <- Torn, lock <- Promised

(* The lockfile goes from snapshot to snapshot: closed under the dependencies  *)
(* of what it locks, transitives labelled with a locked parent that declares   *)
(* them, whatever the order of declarations, cycles, promotions of a           *)
(* transitive to a root, runs that fail or die, and what the next run finds    *)
(* of a lockfile they cut short.  (Runs whose Kinds and CrashPoints satisfy    *)
(* MarkersTrusted.)                                                            *)
KeepsContract == Contract!Spec

\* The ranges a lockfile's packages and the project ask of coordinate c.
Asked(l, c) ==
  {config[i].range : i \in {j \in DOMAIN config : config[j].coord = c}}
  \cup (IF cmd.kind = "add" /\ cmd.target = c /\ c \notin Declared(config)
        THEN {ArgRange(cmd.arg)} ELSE {})
  \cup UNION {LET deps == Manifest[d, l.deps[d].version, l.deps[d].build]
              IN  {deps[i].range : i \in {j \in DOMAIN deps : deps[j].coord = c}}
              : d \in {d \in Coord : l.deps[d] # None /\ <<d, l.deps[d].version>> \in Carries}}

(* One version is locked per package and it is in every range that a           *)
(* declaration or a locked package asks of it, unless it is the version the    *)
(* workspace had when the run began, which wins out of range.                  *)
RangesAreMet ==
  [][Written /\ MarkersTrusted =>
       \A c \in Coord : lock'.deps[c] # None =>
         \A r \in Asked(lock', c) :
           lock'.deps[c].version \in r \/ lock'.deps[c].version = seen[c]]_vars

(* The root entries of a lockfile are the project's declarations plus the      *)
(* target of `add`, also when one was first met as a transitive: nothing       *)
(* undeclared is a root and nothing declared is left out.                      *)
RootsAreDeclared ==
  [][Written =>
       \A c \in Coord :
         (lock'.deps[c] # None /\ lock'.deps[c].root)
           <=> c \in Declared(config) \cup (IF cmd.kind = "add" THEN {cmd.target} ELSE {})]_vars

(* A plain run never moves a pin that is in all the ranges asked of it, nor    *)
(* the engine's, however the registry and the workspace have moved on; those   *)
(* that a lockfile cut short still holds are pins too.                         *)
PinsAreKept ==
  [][Written /\ MarkersTrusted /\ ~Forced /\ lock # None =>
       /\ \A c \in Coord :
            /\ lock.deps[c] # None /\ lock'.deps[c] # None
            /\ \A r \in Asked(lock', c) : lock.deps[c].version \in r
            => lock'.deps[c].version = lock.deps[c].version
       /\ lock.deps[Engine] = None /\ lock.engine.version \in EngineRange
            => lock'.engine.version = lock.engine.version]_vars

(* workspace-sync too locks what its ranges ask for, and moves a pin only for  *)
(* what the workspace runs or for a range it is no longer in.                  *)
WorkspaceLocks == RangesAreMet /\ PinsAreKept

SameContent(old, new) ==
  old # None /\ new # None /\ old.version = new.version /\ old.build # 0 => old.build = new.build

(* While nobody runs --update, a locked version keeps its checksum: content    *)
(* republished under the same version is refused, not adopted.  (A checksum    *)
(* cut short is replaced: it matches no download, but the cache is taken as it *)
(* is.)                                                                        *)
ChecksumsAreKept ==
  [][Written /\ lock \notin {None, Torn} /\ "update" \notin Kinds =>
       \A c \in Coord : SameContent(lock.deps[c], lock'.deps[c])]_vars

(* `plgt add` of an undeclared package leaves poliglot.yml with a range that   *)
(* contains the version just locked, unless the workspace imposed another.     *)
AddedRangeHolds ==
  [][pc = "save" /\ cmd.kind = "add" /\ pc' = "idle" /\ config' # config /\ config' # Torn
       /\ cmd.target \notin Declared(config)
     => \A i \in DOMAIN config' : config'[i].coord = cmd.target =>
          \/ lock.deps[cmd.target].version \in config'[i].range
          \/ lock.deps[cmd.target].version = seen[cmd.target]]_vars

(* Every command ends: dependency cycles are walked once, and no state of the  *)
(* disk, the registry or the workspace leaves the resolver waiting.            *)
CommandsEnd == pc # "idle" ~> pc = "idle"
-----------------------------------------------------------------------------
(* What the documentation says and the code does not do.  The runs named       *)
(* DepsSync_doc_* show each of these violated.                                 *)

(* "This catches a registry that quietly republishes the same version with     *)
(* different content (would otherwise be a silent supply-chain change between  *)
(* syncs)": a sync without --update never changes a locked checksum.           *)
RepublishIsCaught ==
  [][Written /\ lock \notin {None, Torn} /\ ~Forced =>
       \A c \in Coord : SameContent(lock.deps[c], lock'.deps[c])]_vars

(* "Ensure the package's contents are extracted into the cache": a plain run   *)
(* that resolved a package has its files in the cache.                         *)
ContentsAreEnsured ==
  \A c \in Coord :
    resolved[c] # None => Complete(c, resolved[c].version, resolved[c].build)

(* "Walks each package's own dependencies: transitively": every dependency     *)
(* that a locked package declared when it was published is locked.             *)
TransitivesAreLocked ==
  lock \notin {None, Torn} /\ whole =>
    \A c, d \in Coord :
      lock.deps[c] # None /\ Contract!Needs(lock, c, d) => lock.deps[d] # None
=============================================================================
