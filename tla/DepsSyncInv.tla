---------------------------- MODULE DepsSyncInv ----------------------------
(***************************************************************************)
(* The inductive invariant of DepsSync: what each point of the command     *)
(* knows about the disk and about the resolver's own state.                *)
(***************************************************************************)
EXTENDS DepsSync

Alive(c, v) == <<c, v>> \in Releases /\ registry[c, v] # 0

\* Whatever is chosen, pinned, installed or locked is a published release.
Located ==
  /\ \A c \in Coord : pins[c] # None => Alive(c, pins[c].version)
  /\ \A c \in Coord : resolved[c] # None => Alive(c, resolved[c].version)
  /\ \A c \in Coord : installed[c] # 0 => Alive(c, installed[c])
  /\ \A c \in Coord : seen[c] # 0 => Alive(c, seen[c])
  /\ lock \notin {None, Torn} =>
       /\ Alive(Engine, lock.engine.version)
       /\ \A c \in Coord : lock.deps[c] # None => Alive(c, lock.deps[c].version)
  /\ engine # None => Alive(Engine, engine.version)
  /\ cur # None => Alive(cur.edge.coord, cur.version)

Unpacking == pc \in {"materialize", "clear", "fetch", "extract"}
Resolving == pc = "pick" \/ Unpacking

\* The command knows its target, and reads poliglot.yml before it works.
CommandOK ==
  /\ pc # "idle" => cmd.kind \in Kinds
  /\ cmd.kind \in {"add", "add-no-sync", "remove", "remove-no-sync"} => cmd.target \in Coord
  /\ pc = "save" => cmd.kind \in {"add", "add-no-sync"}
  /\ pc = "drop" => cmd.kind \in {"remove", "remove-no-sync"}
                    /\ config # Torn /\ cmd.target \in Declared(config)
  /\ Resolving \/ (pc = "save" /\ cmd.kind = "add") => config # Torn

DepEdge == {e \in Edge : e.role # "engine"}

\* The engine comes first, and only it has the role of the engine.
EngineFirst ==
  /\ Resolving =>
       IF engine = None
       THEN todo # <<>> /\ Head(todo) = EngineEdge /\ Tail(todo) \in Seq(DepEdge)
            /\ resolved = NoEntries
       ELSE todo \in Seq(DepEdge)
  /\ pc \in {"idle", "load", "drop"} => engine = None /\ resolved = NoEntries

\* The package being unpacked is the one the resolver asked for, and this run
\* has not recorded it before.
CurrentIsNew ==
  Unpacking => /\ cur # None /\ todo # <<>> /\ cur.edge = Head(todo)
               /\ cur.edge.role = "engine" \/ resolved[cur.edge.coord] = None

\* The directory on the way from its old content to the archive's.
DirectoryOK ==
  /\ pc = "clear" => Forced \/ CurDir["marker"] = 0
  /\ pc = "fetch" => CurDir = EmptyDir
  /\ pc = "extract" => /\ archive \in Build
                       /\ CurDir["marker"] = 0
                       /\ \A f \in File : CurDir[f] \in {0, archive}

BaseInv == TypeOK /\ Located /\ CommandOK /\ EngineFirst /\ CurrentIsNew

(* A run only ever works on published releases, in the directory of a package  *)
(* it has not recorded, and knows how far that directory is from empty and     *)
(* from complete.                                                              *)
DiskInv == BaseInv /\ DirectoryOK /\ MarkerMeansComplete /\ ResolvedIsInstalled

-----------------------------------------------------------------------------
(* What the resolver has recorded and what it still has to do *)

Elems(s) == {s[i] : i \in DOMAIN s}

\* An archive without a poliglot.yml leaves none in the cache.
NoConfig ==
  \A c \in Coord, v \in Version :
    <<c, v>> \in Releases \ Carries => cache[c, v]["config"] = 0

\* The content b of <<c, v>> declares a dependency on d.
Needs(c, v, b, d) == d \in Declared(Manifest[c, v, b])

\* c is recorded, and its content declares a dependency on d.
Asks(c, d) == resolved[c] # None /\ Needs(c, resolved[c].version, resolved[c].build, d)

Walked ==
  \A c, d \in Coord :
    Asks(c, d) /\ <<c, resolved[c].version>> \in Carries =>
      resolved[d] # None \/ d \in Declared(todo)

\* A transitive comes from a recorded package, anything else from nowhere.
From(e) == IF e.role = "transitive" THEN e.via \in Coord /\ Asks(e.via, e.coord) ELSE e.via = None

Planned == \A e \in Elems(todo) : From(e)

Labels ==
  \A c \in Coord : resolved[c] # None =>
    IF resolved[c].root THEN resolved[c].via = None
    ELSE resolved[c].via \in Coord /\ Asks(resolved[c].via, c)

Walk == Walked /\ Planned /\ Labels

\* `add` saves poliglot.yml after its run, and still knows what it resolved.
Working == Resolving \/ (pc = "save" /\ cmd.kind = "add")

\* The project's packages, which the run records as roots.
Roots == Declared(config) \cup (IF cmd.kind = "add" THEN {cmd.target} ELSE {})
IsRoot(c) == resolved[c] # None /\ resolved[c].root

RootsOK ==
  Working =>
    /\ \A c \in Coord : IsRoot(c) => c \in Roots
    /\ \A c \in Roots : IsRoot(c) \/ \E e \in Elems(todo) : e.role = "root" /\ e.coord = c
    /\ \A e \in Elems(todo) : e.role = "root" => e.coord \in Roots

\* The ranges asked of c: by the project, and by the packages recorded so far.
ByProject(c) == Asked([deps |-> NoEntries], c)
SoFar(c) == Asked([deps |-> resolved], c)

\* A range is met by what is recorded, or still on the list.
Settled(c, r) == resolved[c] # None /\ (resolved[c].version \in r \/ resolved[c].version = seen[c])
Pending(c, r) == \E e \in Elems(todo) : e.role # "engine" /\ e.coord = c /\ e.range = r

ProjectMet == Working => \A c \in Coord : \A r \in ByProject(c) : Settled(c, r) \/ Pending(c, r)
AllMet == Working => \A c \in Coord : \A r \in SoFar(c) : Settled(c, r) \/ Pending(c, r)

\* Nothing is on the list but what somebody asks for.
PendingIsAsked ==
  Resolving => \A e \in Elems(todo) : e.role # "engine" => e.range \in SoFar(e.coord)

-----------------------------------------------------------------------------
(* What the run knows of the lockfile it started from *)

PinsOK ==
  Resolving => /\ Forced \/ lock # Torn
               /\ pins = IF Forced \/ lock = None THEN NoEntries ELSE PinsOf(lock)

\* The pin was picked if it was in range.
CurrentPicked ==
  Unpacking => /\ cur.version \in cur.edge.range \/ cur.version = seen[cur.edge.coord]
               /\ PinHolds(cur.edge) => cur.version = pins[cur.edge.coord].version

EngineKept ==
  Resolving /\ engine # None /\ PinHolds(EngineEdge) => engine.version = pins[Engine].version

PinsStay ==
  Resolving =>
    \A c \in Coord :
      /\ resolved[c] # None /\ pins[c] # None
      /\ \A r \in SoFar(c) : pins[c].version \in r
      => resolved[c].version = pins[c].version

\* What is being unpacked has the checksum that is locked for it.
ArchiveMatches ==
  pc = "extract" => LET pin == pins[cur.edge.coord]
                    IN  pin # None /\ pin.version = cur.version => pin.build = archive

\* So does what is in the cache, as long as no forced run replaces it, and the
\* lockfile's checksum was not cut short.
CacheMatches ==
  "update" \notin Kinds /\ lock \notin {None, Torn} =>
    \A c \in Coord : lock.deps[c] # None /\ lock.deps[c].build # 0 =>
      cache[c, lock.deps[c].version]["marker"] \in {0, lock.deps[c].build}

\* The lockfile that `add` has just written.
JustLocked ==
  pc = "save" /\ cmd.kind = "add" =>
    todo = <<>> /\ lock \notin {None, Torn} /\ lock.deps = resolved /\ whole

RunInv == /\ RootsOK /\ ProjectMet /\ PinsOK /\ CurrentPicked /\ EngineKept
          /\ ArchiveMatches /\ CacheMatches /\ JustLocked

AskInv == Walk /\ AllMet /\ PendingIsAsked /\ PinsStay

(* The inductive invariant: the disk, the resolver's list and what it has      *)
(* recorded, and the lockfile the run started from.  What a package asks is    *)
(* read in the cache, so it counts only where a marker can be trusted.         *)
IInv == DiskInv /\ NoConfig /\ RunInv /\ (MarkersTrusted => AskInv)
-----------------------------------------------------------------------------
(* How far a running command is from its end *)

\* What the run has not recorded: the engine, and any other package.
Missing == {c \in Coord : resolved[c] = None}
Unrecorded == Cardinality(Missing) + (IF engine = None THEN 1 ELSE 0)

\* The part of the command it is in, and the point it is at with a package.
Part == CASE pc = "drop" -> 4
          [] pc = "load" -> 3
          [] Resolving   -> 2
          [] pc = "save" -> 1
          [] OTHER       -> 0

Stage == CASE pc = "pick"        -> 5
           [] pc = "materialize" -> 4
           [] pc = "clear"       -> 3
           [] pc = "fetch"       -> 2
           [] OTHER              -> 1

\* The files it still has to delete, or to unpack.
Present == {f \in File : CurDir[f] # 0}
Absent  == {f \in Members : CurDir[f] = 0}
FilesLeft == CASE pc = "clear"   -> Cardinality(Present)
               [] pc = "extract" -> Cardinality(Absent)
               [] OTHER          -> 0

Distance == <<Part, Unrecorded, Len(todo), Stage, FilesLeft>>

\* The lexicographic order of distances.
Nearer(m, n) == \E i \in 1 .. 5 : m[i] < n[i] /\ \A j \in 1 .. i - 1 : m[j] = n[j]

(* A running command comes nearer its end with every step it takes, its death  *)
(* included, and nothing that others do meanwhile takes it back: dependency    *)
(* cycles, packages met again and half-unpacked directories included.          *)
RunsDescend ==
  /\ [](\A i \in 1 .. 5 : Distance[i] \in Nat)
  /\ [][/\ Step \/ Crash => Nearer(Distance', Distance)
        /\ pc # "idle" /\ ~(Step \/ Crash) => Distance' = Distance]_vars
=============================================================================
