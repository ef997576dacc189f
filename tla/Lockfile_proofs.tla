-------------------------- MODULE Lockfile_proofs --------------------------
(***************************************************************************)
(* What a run records and what the lockfile it writes holds, for every     *)
(* registry, project, mode and crash points.                               *)
(*                                                                         *)
(* First, DepsSync implements LockContract: the first lockfile is absent,  *)
(* and every step replaces it by a snapshot, tears it, deletes it or       *)
(* leaves it alone.  The disk invariant says what is in the cache; Walk    *)
(* says of the resolver that what its packages need is recorded or still   *)
(* to do, and that what is recorded or to do as a transitive is needed by  *)
(* the package it names.                                                   *)
(*                                                                         *)
(* Then the lockfile against the project, the ranges asked, the lockfile   *)
(* before it and the cache: roots, ranges, pins and checksums.             *)
(***************************************************************************)
EXTENDS DepsSync_proofs

\* What is in the cache, and what the walk needs to know.
CacheInv == DiskInv /\ NoConfig
WInv == CacheInv /\ Walk

-----------------------------------------------------------------------------
(* Elements of sequences *)

LEMMA HeadAndTail ==
  ASSUME NEW S, NEW s \in Seq(S), s # <<>>
  PROVE  Elems(s) = {Head(s)} \cup Elems(Tail(s))
<1>1. Len(s) \in Nat /\ Len(s) > 0 /\ DOMAIN s = 1..Len(s)
  OBVIOUS
<1>2. /\ Head(s) = s[1] /\ DOMAIN Tail(s) = 1..(Len(s) - 1)
      /\ \A i \in 1..(Len(s) - 1) : Tail(s)[i] = s[i + 1]
  BY <1>1
<1>3. ASSUME NEW x \in Elems(s)
      PROVE  x \in {Head(s)} \cup Elems(Tail(s))
  <2>1. PICK i \in 1..Len(s) : x = s[i]
    BY <1>1 DEF Elems
  <2>2. CASE i = 1
    BY <1>2, <2>1, <2>2
  <2>3. CASE i # 1
    <3>1. i - 1 \in 1..(Len(s) - 1) /\ x = Tail(s)[i - 1]
      BY <1>1, <1>2, <2>1, <2>3
    <3> QED
      BY <1>2, <3>1 DEF Elems
  <2> QED
    BY <2>2, <2>3
<1>4. Head(s) \in Elems(s)
  BY <1>1, <1>2 DEF Elems
<1>5. ASSUME NEW x \in Elems(Tail(s))
      PROVE  x \in Elems(s)
  <2>1. PICK i \in 1..(Len(s) - 1) : x = Tail(s)[i]
    BY <1>2 DEF Elems
  <2>2. i + 1 \in 1..Len(s) /\ x = s[i + 1]
    BY <1>1, <1>2, <2>1
  <2> QED
    BY <1>1, <2>2 DEF Elems
<1> QED
  BY <1>3, <1>4, <1>5

LEMMA Joined ==
  ASSUME NEW S, NEW s \in Seq(S), NEW t \in Seq(S)
  PROVE  Elems(s \o t) = Elems(s) \cup Elems(t)
<1>1. /\ Len(s) \in Nat /\ Len(t) \in Nat /\ DOMAIN s = 1..Len(s) /\ DOMAIN t = 1..Len(t)
      /\ DOMAIN (s \o t) = 1..(Len(s) + Len(t))
      /\ \A i \in 1..(Len(s) + Len(t)) : (s \o t)[i] = IF i <= Len(s) THEN s[i] ELSE t[i - Len(s)]
  OBVIOUS
<1>2. ASSUME NEW x \in Elems(s \o t)
      PROVE  x \in Elems(s) \cup Elems(t)
  <2>1. PICK i \in 1..(Len(s) + Len(t)) : x = IF i <= Len(s) THEN s[i] ELSE t[i - Len(s)]
    BY <1>1 DEF Elems
  <2>2. CASE i <= Len(s)
    <3>1. i \in 1..Len(s) /\ x = s[i]
      BY <1>1, <2>1, <2>2
    <3> QED
      BY <1>1, <3>1 DEF Elems
  <2>3. CASE ~(i <= Len(s))
    <3>1. i - Len(s) \in 1..Len(t) /\ x = t[i - Len(s)]
      BY <1>1, <2>1, <2>3
    <3> QED
      BY <1>1, <3>1 DEF Elems
  <2> QED
    BY <2>2, <2>3
<1>3. ASSUME NEW x \in Elems(s)
      PROVE  x \in Elems(s \o t)
  <2>1. PICK i \in 1..Len(s) : x = s[i]
    BY <1>1 DEF Elems
  <2>2. i \in 1..(Len(s) + Len(t)) /\ (s \o t)[i] = x
    BY <1>1, <2>1
  <2> QED
    BY <1>1, <2>2 DEF Elems
<1>4. ASSUME NEW x \in Elems(t)
      PROVE  x \in Elems(s \o t)
  <2>1. PICK i \in 1..Len(t) : x = t[i]
    BY <1>1 DEF Elems
  <2>2. i + Len(s) \in 1..(Len(s) + Len(t)) /\ (s \o t)[i + Len(s)] = x
    BY <1>1, <2>1
  <2> QED
    BY <1>1, <2>2 DEF Elems
<1> QED
  BY <1>2, <1>3, <1>4

LEMMA DeclaredElems ==
  ASSUME NEW s
  PROVE  Declared(s) = {x.coord : x \in Elems(s)}
BY DEF Declared, Elems

\* The edges of declarations go where the declarations go.
LEMMA EdgeElems ==
  ASSUME NEW decls \in Seq(Decl), NEW role, NEW via
  PROVE  /\ \A e \in Elems(Edges(decls, role, via)) : e.role = role /\ e.via = via
         /\ Declared(Edges(decls, role, via)) = Declared(decls)
<1> DEFINE edge(i) == [coord |-> decls[i].coord, range |-> decls[i].range, role |-> role, via |-> via]
           es == Edges(decls, role, via)
<1>1. DOMAIN es = DOMAIN decls /\ \A i \in DOMAIN decls : es[i] = edge(i)
  BY DEF Edges
<1>2. \A i \in DOMAIN decls : es[i].coord = decls[i].coord /\ es[i].role = role /\ es[i].via = via
  BY <1>1
<1> HIDE DEF edge, es
<1> QED
  BY <1>1, <1>2 DEF Elems, Declared, es

LEMMA EmptyElems == Elems(<<>>) = {}
BY DEF Elems

-----------------------------------------------------------------------------
(* The resolver *)

\* Nothing recorded, nothing to do.
LEMMA EmptyWalk ==
  ASSUME resolved' = NoEntries, Planned'
  PROVE  Walk'
BY DEF Walk, Walked, Labels, Asks, NoEntries

LEMMA ExitWalk ==
  ASSUME Exit
  PROVE  Walk'
BY EmptyWalk, EmptyElems DEF Exit, Planned

LEMMA SameWalk ==
  ASSUME Walk, resolved' = resolved, todo' = todo
  PROVE  Walk'
BY DEF Walk, Walked, Planned, From, Labels, Asks

\* The engine, the declared dependencies and the target of `add` come from
\* nowhere.
LEMMA LoadWalk ==
  ASSUME DiskInv, Load
  PROVE  Walk'
<1>1. config \in Seq(Decl) /\ cmd \in Command0 /\ (cmd.kind = "add" => cmd.target \in Coord)
  BY DEF DiskInv, BaseInv, TypeOK, CommandOK, Load, Readable
<1>2. RootEdges \in Seq(DepEdge)
  BY <1>1, RootEdgesType
<1>3. \A e \in Elems(RootEdges) : e.role = "root" /\ e.via = None
  <2> DEFINE target == <<[coord |-> cmd.target, range |-> ArgRange(cmd.arg)]>>
             added == IF cmd.kind = "add" /\ cmd.target \notin Declared(config)
                      THEN Edges(target, "root", None) ELSE <<>>
  <2>1. Edges(config, "root", None) \in Seq(DepEdge)
    BY <1>1, EdgesType
  <2>2. cmd.kind = "add" => target \in Seq(Decl)
    BY <1>1, RangeTypes DEF Decl
  <2>3. added \in Seq(DepEdge) /\ \A e \in Elems(added) : e.role = "root" /\ e.via = None
    <3>1. CASE cmd.kind = "add" /\ cmd.target \notin Declared(config)
      <4>1. added = Edges(target, "root", None)
        BY <3>1
      <4> HIDE DEF target, added
      <4> QED
        BY <2>2, <3>1, <4>1, EdgesType, EdgeElems
    <3>2. CASE ~(cmd.kind = "add" /\ cmd.target \notin Declared(config))
      <4>1. added = <<>>
        BY <3>2
      <4> HIDE DEF added
      <4> QED
        BY <4>1, EmptyElems
    <3> QED
      BY <3>1, <3>2
  <2>5. \A e \in Elems(Edges(config, "root", None)) : e.role = "root" /\ e.via = None
    BY <1>1, EdgeElems
  <2>6. RootEdges = Edges(config, "root", None) \o added
    BY DEF RootEdges
  <2> HIDE DEF added
  <2> QED
    BY <2>1, <2>3, <2>5, <2>6, Joined
<1>4. todo' = <<EngineEdge>> \o RootEdges /\ resolved' = resolved
  BY DEF Load
<1>5. Elems(todo') = {EngineEdge} \cup Elems(RootEdges)
  <2>1. todo' \in Seq(Edge) /\ todo' # <<>> /\ Head(todo') = EngineEdge /\ Tail(todo') = RootEdges
    BY <1>2, <1>4, EngineInFront
  <2> QED
    BY <2>1, HeadAndTail
<1>6. \A e \in Elems(todo') : e.role # "transitive" /\ e.via = None
  BY <1>3, <1>5 DEF EngineEdge
<1>7. resolved' = NoEntries
  BY <1>4 DEF Load, DiskInv, BaseInv, EngineFirst
<1> QED
  BY <1>6, <1>7, EmptyWalk DEF Planned, From

\* A package met again was recorded; promoted to a root it comes from nowhere.
LEMMA PickAgainWalk ==
  ASSUME DiskInv, Walk, PickAgain
  PROVE  Walk'
<1> DEFINE e == Head(todo)
           old == resolved[e.coord]
<1>1. todo # <<>> /\ e.role # "engine" /\ old # None /\ todo' = Tail(todo) /\ Resolving
  BY DEF PickAgain, Picking, Resolving
<1>2. todo \in Seq(Edge) /\ e \in Edge /\ e.coord \in Coord /\ old \in Entry
  <2>1. todo \in Seq(Edge) /\ e \in Edge
    BY <1>1, NextEdge DEF DiskInv, BaseInv, TypeOK
  <2>2. e.coord \in Coord
    BY <2>1 DEF Edge
  <2> QED
    BY <1>1, <2>1, <2>2 DEF DiskInv, BaseInv, TypeOK
<1>3. Elems(todo) = {e} \cup Elems(todo')
  BY <1>1, <1>2, HeadAndTail
<1>4. \A c \in Coord :
        /\ resolved'[c] # None <=> resolved[c] # None
        /\ resolved[c] # None => resolved'[c].version = resolved[c].version
                                 /\ resolved'[c].build = resolved[c].build
        /\ \/ resolved'[c] = resolved[c]
           \/ resolved'[c].root /\ resolved'[c].via = None
  <2> DEFINE new == [old EXCEPT !.root = TRUE, !.via = None, !.origin = "unknown"]
  <2>1. new.version = old.version /\ new.build = old.build /\ new.root = TRUE /\ new.via = None
    BY <1>2 DEF Entry
  <2>2. new # None
    <3>1. new \in Entry
      BY <1>2 DEF Entry, Origin
    <3> QED
      BY <3>1, EntryLocked
  <2>3. resolved' = resolved \/ resolved' = [resolved EXCEPT ![e.coord] = new]
    BY DEF PickAgain
  <2> HIDE DEF new
  <2> QED
    BY <1>1, <1>2, <2>1, <2>2, <2>3 DEF DiskInv, BaseInv, TypeOK
<1> HIDE DEF e, old
<1>5. \A c, d : c \in Coord => (Asks(c, d)' <=> Asks(c, d))
  BY <1>4 DEF Asks
<1>6. Walked'
  <2> SUFFICES ASSUME NEW c \in Coord, NEW d \in Coord, Asks(c, d)', <<c, resolved'[c].version>> \in Carries
               PROVE  resolved'[d] # None \/ d \in Declared(todo')
    BY DEF Walked
  <2>1. resolved[d] # None \/ d \in Declared(todo)
    BY <1>4, <1>5 DEF Walk, Walked, Asks
  <2> QED
    BY <1>1, <1>3, <1>4, <2>1, DeclaredElems DEF old
<1>7. Planned'
  BY <1>3, <1>5 DEF Walk, Planned, From
<1>8. Labels'
  BY <1>4, <1>5 DEF Walk, Labels
<1> QED
  BY <1>6, <1>7, <1>8 DEF Walk

\* What the resolver reads in the directory of the package it records are the
\* dependencies of content b, if that content has any to read.
ReadsOf(b) ==
  LET c == cur.edge.coord
      v == cur.version
  IN  DepsOnDisk(c, v) = IF <<c, v>> \in Carries THEN Manifest[c, v, b] ELSE <<>>

LEMMA RecordWalk ==
  ASSUME DiskInv, Walk, Unpacking, NEW b \in Build, Record(b),
         ReadsOf(b)
  PROVE  Walk'
<1>0. PICK e, v, o, decls :
        e = cur.edge /\ v = cur.version /\ o = cur.origin /\ decls = DepsOnDisk(cur.edge.coord, cur.version)
  OBVIOUS
<1> DEFINE entry == [version |-> v, build |-> b, root |-> e.role # "transitive", via |-> e.via, origin |-> o]
           deps == Edges(decls, "transitive", e.coord)
<1>1. /\ e \in Edge /\ e = Head(todo) /\ e.coord \in Coord
      /\ v \in Version /\ o \in Origin /\ <<e.coord, v>> \in Releases
      /\ todo # <<>> /\ todo \in Seq(Edge)
  BY <1>0, CurType DEF DiskInv, BaseInv, TypeOK, CurrentIsNew
<1>2. Elems(todo) = {e} \cup Elems(Tail(todo))
  BY <1>1, HeadAndTail
<1>3. resolved[e.coord] = None
  BY <1>0, CurFresh DEF DiskInv
<1>4. entry # None
  <2>1. entry \in Entry
    BY <1>1 DEF Entry, Edge
  <2> QED
    BY <2>1, EntryLocked
<1>5. CASE e.role = "engine"
  <2>1. resolved' = resolved /\ todo' = Tail(todo)
    BY <1>0, <1>5 DEF Record
  <2>2. engine = None
    BY <1>1, <1>5, NextEdge DEF DiskInv, BaseInv, Resolving, DepEdge
  <2>3. resolved' = NoEntries
    BY <2>1, <2>2 DEF DiskInv, BaseInv, EngineFirst, Resolving
  <2>4. \A x \in Elems(todo') : From(x)
    BY <1>2, <2>1 DEF Walk, Planned
  <2>5. Planned'
    BY <2>1, <2>4 DEF Planned, From, Asks
  <2> QED
    BY <2>3, <2>5, EmptyWalk
<1>6. CASE e.role # "engine"
  <2>1. todo' = deps \o Tail(todo) /\ resolved' = [resolved EXCEPT ![e.coord] = entry]
    BY <1>0, <1>6 DEF Record
  <2>2. decls \in Seq(Decl)
    BY <1>0, <1>1, DepsOnDiskType DEF DiskInv
  <2>3. deps \in Seq(DepEdge) /\ Tail(todo) \in Seq(DepEdge)
    BY <1>1, <2>2, EdgesType, NextEdge DEF DiskInv, Resolving
  <2>4. Elems(todo') = Elems(deps) \cup Elems(Tail(todo))
    BY <2>1, <2>3, Joined
  <2>5. /\ resolved'[e.coord] = entry
        /\ \A c \in Coord : c # e.coord => resolved'[c] = resolved[c]
    BY <1>1, <2>1 DEF DiskInv, BaseInv, TypeOK
  <2>6. entry.version = v /\ entry.build = b /\ entry.via = e.via
        /\ (entry.root <=> e.role # "transitive")
    OBVIOUS
  <2>7. Declared(deps) = Declared(decls) /\ \A x \in Elems(deps) : x.role = "transitive" /\ x.via = e.coord
    BY <2>2, EdgeElems
  <2>8. /\ \A d \in Declared(decls) : Needs(e.coord, v, b, d)
        /\ <<e.coord, v>> \in Carries => \A d : Needs(e.coord, v, b, d) => d \in Declared(decls)
    <3>1. /\ decls = <<>> \/ decls = Manifest[e.coord, v, b]
          /\ <<e.coord, v>> \in Carries => decls = Manifest[e.coord, v, b]
      BY <1>0, Zenon DEF ReadsOf
    <3>2. Declared(<<>>) = {}
      BY EmptyElems, DeclaredElems, Zenon
    <3> QED
      BY <3>1, <3>2, Zenon DEF Needs
  <2> HIDE DEF entry, deps
  <2>9. \A d : Asks(e.coord, d)' <=> Needs(e.coord, v, b, d)
    BY <1>4, <2>5, <2>6 DEF Asks
  <2>10. \A c \in Coord : \A d : Asks(c, d) => c # e.coord /\ Asks(c, d)'
    BY <1>3, <2>5 DEF Asks
  <2>11. \A c \in Coord : \A d : c # e.coord /\ Asks(c, d)' => Asks(c, d)
    BY <2>5 DEF Asks
  <2>12. Walked'
    <3> SUFFICES ASSUME NEW c \in Coord, NEW d \in Coord, Asks(c, d)', <<c, resolved'[c].version>> \in Carries
                 PROVE  resolved'[d] # None \/ d \in Declared(todo')
      BY DEF Walked
    <3>1. CASE c = e.coord
      <4>1. <<e.coord, v>> \in Carries
        BY <2>5, <2>6, <3>1
      <4>2. d \in Declared(deps)
        BY <2>7, <2>8, <2>9, <3>1, <4>1
      <4> QED
        BY <2>4, <4>2, DeclaredElems
    <3>2. CASE c # e.coord
      <4>1. resolved[d] # None \/ d \in Declared(todo)
        BY <2>5, <2>11, <3>2 DEF Walk, Walked
      <4> QED
        BY <1>2, <1>4, <2>4, <2>5, <4>1, DeclaredElems
    <3> QED
      BY <3>1, <3>2
  <2>13. \A x \in Elems(todo) : From(x) => From(x)'
    BY <2>10 DEF From
  <2>14. Planned'
    <3>1. \A x \in Elems(deps) : From(x)'
      BY <1>1, <2>7, <2>8, <2>9, DeclaredElems DEF From
    <3>2. \A x \in Elems(Tail(todo)) : From(x)'
      BY <1>2, <2>13 DEF Walk, Planned
    <3> QED
      BY <2>4, <3>1, <3>2 DEF Planned
  <2>15. Labels'
    <3>1. From(e)'
      BY <1>2, <2>13 DEF Walk, Planned
    <3> QED
      BY <2>5, <2>6, <2>10, <3>1 DEF Walk, Labels, From
  <2> QED
    BY <2>12, <2>14, <2>15 DEF Walk
<1> QED
  BY <1>5, <1>6

\* A directory that is taken as installed is whole; one that was just unpacked
\* holds the archive's files.
LEMMA CachedReads ==
  ASSUME CacheInv, MarkersTrusted, UseCached
  PROVE  Unpacking /\ CurDir["marker"] \in Build /\ ReadsOf(CurDir["marker"])
<1> DEFINE b == CurDir["marker"]
<1>1. Unpacking /\ b # 0 /\ ~Clearing(cur.edge.coord, cur.version)
  BY DEF UseCached, Unpacking, Clearing
<1>2. /\ cur.edge.coord \in Coord /\ cur.version \in Version
      /\ <<cur.edge.coord, cur.version>> \in Releases /\ CurDir \in [File -> Build0]
  BY <1>1, CurType DEF CacheInv, DiskInv
<1>3. b \in Build
  BY <1>1, <1>2, BuildAssumption DEF File, Build, Build0
<1>4. Complete(cur.edge.coord, cur.version, b)
  BY <1>1, <1>2 DEF CacheInv, DiskInv, MarkerMeansComplete, CurDir
<1>5. <<cur.edge.coord, cur.version>> \in Carries => cache[cur.edge.coord, cur.version]["config"] = b
  BY <1>4 DEF Complete, ArchiveFiles
<1>6. <<cur.edge.coord, cur.version>> \notin Carries => cache[cur.edge.coord, cur.version]["config"] = 0
  BY <1>2 DEF CacheInv, NoConfig
<1>7. b # 0
  BY <1>1
<1> HIDE DEF b
<1>8. ReadsOf(b)
  BY <1>5, <1>6, <1>7, Zenon DEF ReadsOf, DepsOnDisk
<1> QED
  BY <1>1, <1>3, <1>8 DEF b

LEMMA UnpackedReads ==
  ASSUME CacheInv, WriteMarker
  PROVE  Unpacking /\ archive \in Build /\ ReadsOf(archive)
<1>1. Unpacking /\ archive \in Build /\ \A f \in Members : CurDir[f] # 0
  BY DEF WriteMarker, Unpacking, CacheInv, DiskInv, DirectoryOK
<1>2. \A f \in File : CurDir[f] \in {0, archive}
  BY DEF WriteMarker, CacheInv, DiskInv, DirectoryOK
<1>3. cache[cur.edge.coord, cur.version]["config"] \in {0, archive}
  BY <1>2 DEF CurDir, File
<1>4. <<cur.edge.coord, cur.version>> \in Carries => cache[cur.edge.coord, cur.version]["config"] # 0
  BY <1>1 DEF Members, ArchiveFiles, CurDir
<1>5. archive # 0
  BY <1>1, BuildAssumption DEF Build
<1>6. <<cur.edge.coord, cur.version>> \notin Carries => cache[cur.edge.coord, cur.version]["config"] = 0
  BY <1>1, CurType DEF CacheInv, DiskInv, NoConfig
<1>7. ReadsOf(archive)
  <2>1. CASE <<cur.edge.coord, cur.version>> \notin Carries
    BY <1>6, <2>1, Zenon DEF ReadsOf, DepsOnDisk
  <2>2. CASE <<cur.edge.coord, cur.version>> \in Carries
    <3>1. cache[cur.edge.coord, cur.version]["config"] = archive
      BY <1>3, <1>4, <2>2
    <3> QED
      BY <1>5, <2>2, <3>1, Zenon DEF ReadsOf, DepsOnDisk
  <2> QED
    BY <2>1, <2>2
<1> QED
  BY <1>1, <1>7

\* Every step keeps Walk.
LEMMA WalkStep ==
  ASSUME WInv, [Next]_vars, MarkersTrusted
  PROVE  Walk'
<1> USE DEF WInv, CacheInv, disk, world, run
<1>1. CASE Command
  BY <1>1, SameWalk DEF Command, Sync, Add, AddNoSync, Remove, Begin
<1>2. CASE DropDep \/ LoadFails \/ PickFails \/ FetchRefused \/ WriteLock \/ SaveDep \/ Crash
  <2>1. Exit \/ UNCHANGED run
    BY <1>2 DEF DropDep, LoadFails, PickFails, FetchRefused, WriteLock, SaveDep, Crash
  <2> QED
    BY <2>1, ExitWalk, SameWalk
<1>3. CASE Load
  BY <1>3, LoadWalk
<1>4. CASE PickAgain
  BY <1>4, PickAgainWalk
<1>5. CASE PickNew \/ Refetch \/ ClearFile \/ Cleared \/ Fetch \/ ExtractFile
  BY <1>5, SameWalk DEF PickNew, Refetch, ClearFile, Cleared, Fetch, ExtractFile
<1>6. CASE UseCached
  BY <1>6, CachedReads, RecordWalk DEF UseCached
<1>7. CASE WriteMarker
  BY <1>7, UnpackedReads, RecordWalk DEF WriteMarker
<1>8. CASE World \/ UNCHANGED vars
  BY <1>8, WorldFacts, SameWalk
<1> QED
  BY <1>1, <1>2, <1>3, <1>4, <1>5, <1>6, <1>7, <1>8 DEF Next, Step

\* Only members of the archive are unpacked.
LEMMA NoConfigStep ==
  ASSUME CacheInv, [Next]_vars
  PROVE  NoConfig'
<1> USE DEF CacheInv, DiskInv
<1>1. ASSUME cache' = cache
      PROVE  NoConfig'
  BY <1>1 DEF NoConfig
<1>2. ASSUME NEW f \in File, NEW b \in Build0, PutFile(f, b), Unpacking,
             f = "config" /\ b # 0 => <<cur.edge.coord, cur.version>> \in Carries
      PROVE  NoConfig'
  <2> SUFFICES ASSUME NEW c \in Coord, NEW v \in Version, <<c, v>> \in Releases \ Carries
               PROVE  cache'[c, v]["config"] = 0
    BY DEF NoConfig
  <2>1. CASE <<c, v>> # <<cur.edge.coord, cur.version>>
    <3>1. cache'[c, v] = cache[c, v]
      BY <1>2, <2>1, PutFileFacts
    <3> QED
      BY <3>1 DEF NoConfig
  <2>2. CASE <<c, v>> = <<cur.edge.coord, cur.version>>
    <3>1. cache'[c, v] = [CurDir EXCEPT ![f] = b]
      BY <1>2, <2>2, PutFileFacts
    <3>2. CurDir \in [File -> Build0] /\ "config" \in File /\ CurDir["config"] = 0
      BY <1>2, <2>2, CurType DEF NoConfig, File, CurDir
    <3>3. f = "config" => b = 0
      BY <1>2, <2>2
    <3> QED
      BY <3>1, <3>2, <3>3
  <2> QED
    BY <2>1, <2>2
<1>3. CASE Outside
  BY <1>1, <1>3, OutsideFacts
<1>4. CASE UseCached \/ Refetch \/ Cleared \/ Fetch \/ Crash
  BY <1>1, <1>4 DEF UseCached, Refetch, Cleared, Fetch, Crash, disk
<1>5. CASE ClearFile
  <2>1. PICK f \in File : PutFile(f, 0)
    BY <1>5 DEF ClearFile
  <2> QED
    BY <1>2, <1>5, <2>1, BuildAssumption DEF ClearFile, Unpacking, Build0
<1>6. CASE ExtractFile
  <2>1. PICK f \in Members : PutFile(f, archive)
    BY <1>6 DEF ExtractFile
  <2>2. f \in File /\ (f = "config" => <<cur.edge.coord, cur.version>> \in Carries)
    BY DEF Members, ArchiveFiles, File
  <2> QED
    BY <1>2, <1>6, <2>1, <2>2 DEF ExtractFile, Unpacking, BaseInv, TypeOK
<1>7. CASE WriteMarker
  BY <1>2, <1>7 DEF WriteMarker, Unpacking, BaseInv, TypeOK, File
<1>8. CASE World \/ UNCHANGED vars
  <2>1. cache' = cache \/ cache' = [cv \in Releases |-> EmptyDir]
    BY <1>8, WorldFacts
  <2> QED
    BY <1>1, <2>1 DEF NoConfig, EmptyDir, File
<1> QED
  BY <1>3, <1>4, <1>5, <1>6, <1>7, <1>8 DEF Next, Step, Outside

-----------------------------------------------------------------------------
(* The refinement *)

\* A lockfile is written when nothing is left to do: what its packages need is
\* recorded.
LEMMA WrittenIsSnapshot ==
  ASSUME WInv, WriteLock
  PROVE  Contract!Replace
<1>1. todo = <<>> /\ lock' = [engine |-> engine, deps |-> resolved]
  BY DEF WriteLock
<1>2. engine # None
  BY <1>1 DEF WriteLock, WInv, CacheInv, DiskInv, BaseInv, EngineFirst, Resolving
<1>3. engine \in Entry /\ resolved \in [Coord -> Entry \cup {None}]
  BY <1>2 DEF WInv, CacheInv, DiskInv, BaseInv, TypeOK
<1>4. lock' \in Lockfile /\ lock'.deps = resolved
  BY <1>1, <1>3, EntryLocked DEF Lockfile
<1>5. lock' \notin {None, Torn} /\ Promised' = lock'
  BY <1>4, SentinelAssumption DEF WriteLock, Promised
<1>6. \A c, d \in Coord : Contract!Needs(lock', c, d) <=> Needs(c, resolved[c].version, resolved[c].build, d)
  BY <1>4 DEF Contract!Needs, Needs, Declared
<1>7. Declared(todo) = {}
  BY <1>1, EmptyElems, DeclaredElems
<1>8. Contract!Closed(lock')
  BY <1>4, <1>6, <1>7 DEF Contract!Closed, Contract!Locked, WInv, Walk, Walked, Asks
<1>9. Contract!Labelled(lock')
  BY <1>4, <1>6 DEF Contract!Labelled, Contract!Locked, WInv, Walk, Labels, Asks
<1> QED
  BY <1>4, <1>5, <1>8, <1>9 DEF Contract!Replace, Contract!Snapshot

\* Every step is a step of the contract or leaves what it promises alone.
LEMMA StepKeepsContract ==
  ASSUME WInv, [Next]_vars
  PROVE  [Contract!Next]_Promised
<1> USE DEF disk, world, run, Contract!Next, Promised
<1>1. CASE WriteLock
  BY <1>1, WrittenIsSnapshot
<1>2. CASE Crash
  BY <1>2 DEF Crash, Contract!Tear
<1>3. CASE DeleteLock
  BY <1>3, SentinelAssumption DEF DeleteLock, Contract!Delete
<1>4. CASE Command
  BY <1>4 DEF Command, Sync, Add, AddNoSync, Remove, Begin
<1>5. CASE DropDep \/ LoadFails \/ PickFails \/ FetchRefused \/ SaveDep
  BY <1>5 DEF DropDep, LoadFails, PickFails, FetchRefused, SaveDep
<1>6. CASE Load \/ PickNew \/ PickAgain
  BY <1>6 DEF Load, PickNew, PickAgain
<1>7. CASE UseCached \/ Refetch \/ ClearFile \/ Cleared \/ Fetch \/ ExtractFile \/ WriteMarker
  BY <1>7 DEF UseCached, Refetch, ClearFile, Cleared, Fetch, ExtractFile, WriteMarker
<1>8. CASE World /\ ~DeleteLock
  <2>1. UNCHANGED <<lock, whole>>
    BY <1>8 DEF World, Publish, ChangeWorkspace, EditConfig, CleanCache
  <2> QED
    BY <2>1
<1>9. CASE UNCHANGED vars
  <2>1. UNCHANGED <<lock, whole>>
    BY <1>9 DEF vars
  <2> QED
    BY <2>1
<1> QED
  BY <1>1, <1>2, <1>3, <1>4, <1>5, <1>6, <1>7, <1>8, <1>9 DEF Next, Step

LEMMA WInit ==
  ASSUME Init
  PROVE  WInv /\ Contract!Init
<1>1. DiskInv
  BY InitInv
<1>2. Walk
  BY EmptyElems DEF Init, Walk, Walked, Planned, Labels, Asks, NoEntries
<1>3. NoConfig
  BY DEF Init, NoConfig, EmptyDir, File
<1> QED
  BY <1>1, <1>2, <1>3 DEF WInv, CacheInv, Init, Contract!Init, Promised

\* Where no forced run can die while deleting, the lockfile of `plgt sync`,
\* `add` and `remove` keeps its contract: it goes from snapshot to snapshot,
\* each closed and labelled, or is torn or deleted (deps_install_service.py,
\* deps_lockfile.py).
THEOREM ContractIsKept ==
  ASSUME MarkersTrusted
  PROVE  Spec => KeepsContract
<1>1. Init => WInv /\ Contract!Init
  BY WInit
<1>2. WInv /\ [Next]_vars => WInv'
  <2> SUFFICES ASSUME WInv, [Next]_vars
               PROVE  WInv'
    OBVIOUS
  <2>1. DiskInv'
    BY StepInv DEF WInv, CacheInv
  <2>2. Walk' /\ NoConfig'
    BY WalkStep, NoConfigStep DEF WInv
  <2> QED
    BY <2>1, <2>2 DEF WInv, CacheInv
<1>3. WInv /\ [Next]_vars => [Contract!Next]_Promised
  BY StepKeepsContract
<1> QED
  BY <1>1, <1>2, <1>3, PTL DEF Spec, KeepsContract, Contract!Spec

-----------------------------------------------------------------------------
(* What is asked for                                                           *)

\* The ranges that declarations ask of c.
Ranged(decls, c) == {decls[i].range : i \in {j \in DOMAIN decls : decls[j].coord = c}}

\* The ranges of the project alone.
LEMMA ByProjectIs ==
  ASSUME NEW c
  PROVE  ByProject(c) = Ranged(config, c)
                        \cup (IF cmd.kind = "add" /\ cmd.target = c /\ c \notin Declared(config)
                              THEN {ArgRange(cmd.arg)} ELSE {})
BY DEF ByProject, Asked, Ranged, NoEntries

\* Those that the packages of a lockfile add to them.
LEMMA AskedBy ==
  ASSUME NEW deps, NEW c, NEW r
  PROVE  r \in Asked([deps |-> deps], c) <=>
           \/ r \in ByProject(c)
           \/ \E d \in Coord :
                /\ deps[d] # None /\ <<d, deps[d].version>> \in Carries
                /\ r \in Ranged(Manifest[d, deps[d].version, deps[d].build], c)
<1> DEFINE l == [deps |-> deps]
           carried == {d \in Coord : l.deps[d] # None /\ <<d, l.deps[d].version>> \in Carries}
           asks(d) == Ranged(Manifest[d, l.deps[d].version, l.deps[d].build], c)
<1>1. Asked(l, c) = ByProject(c) \cup UNION {asks(d) : d \in carried}
  BY ByProjectIs DEF Asked, Ranged
<1>2. l.deps = deps
  OBVIOUS
<1> QED
  BY <1>1, <1>2, Zenon

\* The project does not move while a command works.
LEMMA AskedNext ==
  ASSUME UNCHANGED <<config, cmd>>, NEW c
  PROVE  /\ ByProject(c)' = ByProject(c)
         /\ SoFar(c)' = Asked([deps |-> resolved'], c)
         /\ Roots' = Roots
BY DEF ByProject, SoFar, Asked, Roots, Declared, ArgRange, NoEntries

\* A lockfile's packages are asked as those of the run that wrote it.
LEMMA AskedOfLock ==
  ASSUME NEW l, NEW c, l.deps = resolved
  PROVE  Asked(l, c) = SoFar(c)
BY DEF Asked, SoFar

LEMMA NobodyAsks ==
  ASSUME NEW c
  PROVE  Asked([deps |-> NoEntries], c) = ByProject(c)
BY DEF ByProject

\* What is recorded is asked by until the run ends.
LEMMA SoFarGrows ==
  ASSUME UNCHANGED <<config, cmd>>,
         \A d \in Coord : resolved[d] # None =>
           /\ resolved'[d] # None
           /\ resolved'[d].version = resolved[d].version
           /\ resolved'[d].build = resolved[d].build,
         NEW c, NEW r \in SoFar(c)
  PROVE  r \in SoFar(c)'
<1>1. SoFar(c) = Asked([deps |-> resolved], c)
  BY DEF SoFar
<1>2. CASE r \in ByProject(c)
  BY <1>2, AskedNext, AskedBy
<1>3. CASE r \notin ByProject(c)
  <2>1. PICK d \in Coord :
          /\ resolved[d] # None /\ <<d, resolved[d].version>> \in Carries
          /\ r \in Ranged(Manifest[d, resolved[d].version, resolved[d].build], c)
    BY <1>1, <1>3, AskedBy
  <2> QED
    BY <2>1, AskedNext, AskedBy
<1> QED
  BY <1>2, <1>3

\* The edges of declarations ask for their ranges.
LEMMA EdgeRanges ==
  ASSUME NEW decls \in Seq(Decl), NEW role, NEW via
  PROVE  /\ \A e \in Elems(Edges(decls, role, via)) : e.role = role /\ e.range \in Ranged(decls, e.coord)
         /\ \A c : \A r \in Ranged(decls, c) :
              \E e \in Elems(Edges(decls, role, via)) : e.role = role /\ e.coord = c /\ e.range = r
<1> DEFINE edge(i) == [coord |-> decls[i].coord, range |-> decls[i].range, role |-> role, via |-> via]
           es == Edges(decls, role, via)
<1>1. DOMAIN es = DOMAIN decls /\ \A i \in DOMAIN decls : es[i] = edge(i)
  BY DEF Edges
<1>2. \A i \in DOMAIN decls : es[i].coord = decls[i].coord /\ es[i].range = decls[i].range /\ es[i].role = role
  BY <1>1
<1> HIDE DEF edge, es
<1> QED
  BY <1>1, <1>2 DEF Elems, Ranged, es

LEMMA RootsType ==
  ASSUME config \in Seq(Decl), cmd.kind = "add" => cmd.target \in Coord
  PROVE  Roots \subseteq Coord
BY DeclaredType DEF Roots

\* A run starts with an edge for everything the project asks, and no other.
LEMMA RootEdgesFacts ==
  ASSUME config \in Seq(Decl), cmd.kind = "add" => cmd.target \in Coord
  PROVE  /\ \A e \in Elems(RootEdges) : /\ e.role = "root" /\ e.coord \in Roots
                                        /\ e.range \in ByProject(e.coord)
         /\ \A c \in Roots : \E e \in Elems(RootEdges) : e.coord = c
         /\ \A c : \A r \in ByProject(c) : \E e \in Elems(RootEdges) : e.coord = c /\ e.range = r
<1> DEFINE adds == cmd.kind = "add" /\ cmd.target \notin Declared(config)
           target == <<[coord |-> cmd.target, range |-> ArgRange(cmd.arg)]>>
           mine == Edges(config, "root", None)
           new == IF adds THEN Edges(target, "root", None) ELSE <<>>
<1>1. adds => target \in Seq(Decl)
  BY RangeTypes DEF Decl
<1>2. mine \in Seq(DepEdge) /\ new \in Seq(DepEdge)
  <2>1. mine \in Seq(DepEdge)
    BY EdgesType
  <2>2. adds => Edges(target, "root", None) \in Seq(DepEdge)
    BY <1>1, EdgesType
  <2> HIDE DEF adds, target
  <2> QED
    BY <2>1, <2>2
<1>3. Elems(RootEdges) = Elems(mine) \cup Elems(new)
  <2>1. RootEdges = mine \o new
    BY DEF RootEdges
  <2> HIDE DEF mine, new
  <2> QED
    BY <1>2, <2>1, Joined
<1>4. /\ \A e \in Elems(mine) : e.role = "root" /\ e.range \in Ranged(config, e.coord)
      /\ Declared(mine) = Declared(config)
      /\ \A c : \A r \in Ranged(config, c) : \E e \in Elems(mine) : e.coord = c /\ e.range = r
  BY EdgeRanges, EdgeElems
<1>5. ~adds => Elems(new) = {}
  BY EmptyElems
<1>6. adds => /\ \A e \in Elems(new) : e.role = "root" /\ e.coord = cmd.target /\ e.range = ArgRange(cmd.arg)
              /\ \E e \in Elems(new) : e.coord = cmd.target /\ e.range = ArgRange(cmd.arg)
  <2> SUFFICES ASSUME adds
               PROVE  /\ \A e \in Elems(new) : e.role = "root" /\ e.coord = cmd.target /\ e.range = ArgRange(cmd.arg)
                      /\ \E e \in Elems(new) : e.coord = cmd.target /\ e.range = ArgRange(cmd.arg)
    OBVIOUS
  <2> DEFINE edge == [coord |-> cmd.target, range |-> ArgRange(cmd.arg), role |-> "root", via |-> None]
  <2>1. DOMAIN new = {1} /\ new[1] = edge
    BY DEF Edges
  <2>2. edge.role = "root" /\ edge.coord = cmd.target /\ edge.range = ArgRange(cmd.arg)
    OBVIOUS
  <2> HIDE DEF edge, new, adds
  <2> QED
    BY <2>1, <2>2 DEF Elems
<1>7. \A c : ByProject(c) = Ranged(config, c) \cup (IF adds /\ cmd.target = c THEN {ArgRange(cmd.arg)} ELSE {})
  BY ByProjectIs
<1>8. Roots = Declared(config) \cup (IF adds THEN {cmd.target} ELSE {})
  BY DEF Roots
<1> HIDE DEF adds, mine, new, target
<1> QED
  BY <1>3, <1>4, <1>5, <1>6, <1>7, <1>8, DeclaredElems
-----------------------------------------------------------------------------
(* The resolver's list                                                         *)

ResolverInv == RootsOK /\ ProjectMet /\ PinsOK /\ EngineKept /\ JustLocked
TrustInv == AllMet /\ PendingIsAsked /\ PinsStay

\* Between two commands and in those that do not resolve.
LEMMA ResolverAway ==
  ASSUME ~Working'
  PROVE  ResolverInv' /\ TrustInv'
BY DEF ResolverInv, TrustInv, RootsOK, ProjectMet, PinsOK, EngineKept, JustLocked, AllMet,
       PendingIsAsked, PinsStay, Working

\* Steps that only unpack.
LEMMA ResolverSame ==
  ASSUME ResolverInv, Resolving' <=> Resolving, pc' = "save" <=> pc = "save",
         UNCHANGED <<config, lock, whole, cmd, pins, seen, todo, engine, resolved>>
  PROVE  ResolverInv' /\ (TrustInv => TrustInv')
<1>1. Working' <=> Working
  BY DEF Working
<1>2. \A c, r : (Settled(c, r)' <=> Settled(c, r)) /\ (Pending(c, r)' <=> Pending(c, r))
  BY DEF Settled, Pending
<1>3. \A c : (IsRoot(c)' <=> IsRoot(c)) /\ SoFar(c)' = SoFar(c) /\ ByProject(c)' = ByProject(c)
  BY AskedNext DEF IsRoot, SoFar
<1>4. Roots' = Roots /\ (Forced' <=> Forced) /\ \A e : PinHolds(e)' <=> PinHolds(e)
  BY AskedNext DEF Forced, PinHolds
<1>5. ResolverInv'
  BY <1>1, <1>2, <1>3, <1>4
     DEF ResolverInv, RootsOK, ProjectMet, PinsOK, EngineKept, JustLocked
<1>6. TrustInv => TrustInv'
  BY <1>1, <1>2, <1>3 DEF TrustInv, AllMet, PendingIsAsked, PinsStay
<1> QED
  BY <1>5, <1>6

\* At first, all of the project is to do, and nothing else.
LEMMA ResolverLoad ==
  ASSUME DiskInv, Load
  PROVE  ResolverInv' /\ TrustInv'
<1>1. config \in Seq(Decl) /\ cmd \in Command0 /\ (cmd.kind = "add" => cmd.target \in Coord)
  BY DEF DiskInv, BaseInv, TypeOK, CommandOK, Load, Readable
<1>2. RootEdges \in Seq(DepEdge)
  BY <1>1, RootEdgesType
<1>3. /\ todo' = <<EngineEdge>> \o RootEdges /\ pc' = "pick"
      /\ UNCHANGED <<config, lock, cmd>> /\ resolved' = NoEntries /\ engine' = None
  BY DEF Load, disk, DiskInv, BaseInv, EngineFirst
<1>4. Elems(todo') = {EngineEdge} \cup Elems(RootEdges)
  <2>1. todo' \in Seq(Edge) /\ todo' # <<>> /\ Head(todo') = EngineEdge /\ Tail(todo') = RootEdges
    BY <1>2, <1>3, EngineInFront
  <2> QED
    BY <2>1, HeadAndTail
<1>5. EngineEdge.role = "engine"
  BY DEF EngineEdge
<1>6. Working' /\ Resolving'
  BY <1>3 DEF Working, Resolving
<1>7. \A c : ByProject(c)' = ByProject(c) /\ SoFar(c)' = ByProject(c)
  BY <1>3, AskedNext, NobodyAsks
<1>8. Roots' = Roots
  BY <1>3, AskedNext
<1>9. \A c \in Coord : ~IsRoot(c)'
  BY <1>3 DEF IsRoot, NoEntries
<1>10. Roots \subseteq Coord
  BY <1>1, RootsType
<1>11. RootsOK'
  BY <1>1, <1>4, <1>5, <1>8, <1>9, RootEdgesFacts DEF RootsOK
<1>12. \A c : \A r \in ByProject(c) : Pending(c, r)'
  BY <1>1, <1>4, RootEdgesFacts DEF Pending
<1>13. ProjectMet' /\ AllMet' /\ PendingIsAsked'
  BY <1>1, <1>4, <1>5, <1>7, <1>12, RootEdgesFacts DEF ProjectMet, AllMet, PendingIsAsked
<1>14. PinsOK'
  BY <1>3 DEF Load, Readable, PinsOK, Forced, PinsOf
<1>15. EngineKept' /\ JustLocked' /\ PinsStay'
  BY <1>3 DEF EngineKept, JustLocked, PinsStay, NoEntries
<1> QED
  BY <1>11, <1>13, <1>14, <1>15 DEF ResolverInv, TrustInv

\* The next edge is done: what was met stays met.
LEMMA MetStays ==
  ASSUME NEW e, \A x \in Elems(todo) : x = e \/ x \in Elems(todo'),
         seen' = seen, e.role # "engine" => Settled(e.coord, e.range)',
         \A c \in Coord : resolved[c] # None =>
           resolved'[c] # None /\ resolved'[c].version = resolved[c].version,
         NEW c \in Coord, NEW r, Settled(c, r) \/ Pending(c, r)
  PROVE  Settled(c, r)' \/ Pending(c, r)'
BY DEF Settled, Pending

LEMMA RootsStay ==
  ASSUME RootsOK, Working, UNCHANGED <<config, cmd>>, Roots \subseteq Coord,
         NEW e \in Elems(todo), e.coord \in Coord,
         \A x \in Elems(todo) : x = e \/ x \in Elems(todo'),
         \A x \in Elems(todo') : x \in Elems(todo) \/ x.role # "root",
         \A c \in Coord : IsRoot(c) => IsRoot(c)',
         \A c \in Coord : IsRoot(c)' => IsRoot(c) \/ (c = e.coord /\ e.role = "root"),
         e.role = "root" => IsRoot(e.coord)'
  PROVE  RootsOK'
<1>1. Roots' = Roots
  BY AskedNext
<1> QED
  BY <1>1 DEF RootsOK

LEMMA EngineStays ==
  ASSUME EngineKept, Resolving, UNCHANGED <<pins, engine>>
  PROVE  EngineKept'
BY DEF EngineKept, PinHolds

\* A package met again is in the range too, and a root if it is declared.
LEMMA ResolverAgain ==
  ASSUME DiskInv, ResolverInv, PickAgain
  PROVE  ResolverInv' /\ (TrustInv => TrustInv')
<1>0. PICK e : e = Head(todo)
  OBVIOUS
<1> DEFINE old == resolved[e.coord]
           new == [old EXCEPT !.root = TRUE, !.via = None, !.origin = "unknown"]
<1>1. /\ pc = "pick" /\ Resolving /\ Working /\ Resolving' /\ Working' /\ pc' = "pick"
      /\ todo # <<>> /\ e.role # "engine" /\ old # None /\ todo' = Tail(todo)
      /\ UNCHANGED <<config, lock, cmd, pins, seen, engine>>
  BY <1>0 DEF PickAgain, Picking, Resolving, Working, disk
<1>2. todo \in Seq(Edge) /\ e \in Edge /\ e.coord \in Coord /\ old \in Entry
  <2>1. todo \in Seq(Edge) /\ e \in Edge
    BY <1>0, <1>1, NextEdge DEF DiskInv, BaseInv, TypeOK
  <2>2. e.coord \in Coord
    BY <2>1 DEF Edge
  <2> QED
    BY <1>1, <2>1, <2>2 DEF DiskInv, BaseInv, TypeOK
<1>3. Elems(todo) = {e} \cup Elems(todo')
  BY <1>0, <1>1, <1>2, HeadAndTail
<1>4. old.version \in e.range \/ old.version = seen[e.coord]
  BY <1>0 DEF PickAgain, Picks, PinHolds, Candidates
<1>5. /\ new.version = old.version /\ new.build = old.build /\ new.root = TRUE /\ new # None
  <2>1. new \in Entry
    BY <1>2 DEF Entry, Origin
  <2> QED
    BY <1>2, <2>1, EntryLocked DEF Entry
<1>6. resolved' = IF e.role = "root" /\ ~old.root THEN [resolved EXCEPT ![e.coord] = new] ELSE resolved
  BY <1>0 DEF PickAgain
<1> HIDE DEF new
<1>7. /\ \A c \in Coord : resolved[c] # None =>
           /\ resolved'[c] # None
           /\ resolved'[c].version = resolved[c].version
           /\ resolved'[c].build = resolved[c].build
      /\ \A c \in Coord : resolved'[c] # None => resolved[c] # None
      /\ \A c \in Coord : IsRoot(c) => IsRoot(c)'
      /\ \A c \in Coord : IsRoot(c)' => IsRoot(c) \/ (c = e.coord /\ e.role = "root")
      /\ e.role = "root" => IsRoot(e.coord)'
  <2>1. /\ \A c \in Coord : c # e.coord => resolved'[c] = resolved[c]
        /\ resolved'[e.coord] = IF e.role = "root" /\ ~old.root THEN new ELSE old
    BY <1>2, <1>6 DEF DiskInv, BaseInv, TypeOK
  <2>2. old.root \in BOOLEAN
    BY <1>2 DEF Entry
  <2> QED
    BY <1>1, <1>2, <1>5, <2>1, <2>2 DEF IsRoot
<1>8. Settled(e.coord, e.range)'
  BY <1>1, <1>2, <1>4, <1>7 DEF Settled
<1>9. \A c \in Coord : \A r : Settled(c, r) \/ Pending(c, r) => Settled(c, r)' \/ Pending(c, r)'
  BY <1>1, <1>3, <1>7, <1>8, MetStays
<1>10. \A c : ByProject(c)' = ByProject(c)
  BY <1>1, AskedNext
<1>11. RootsOK'
  <2>1. Roots \subseteq Coord
    BY <1>1, RootsType DEF DiskInv, BaseInv, TypeOK, CommandOK
  <2> QED
    BY <1>1, <1>2, <1>3, <1>7, <2>1, RootsStay DEF ResolverInv
<1>12. ProjectMet'
  BY <1>1, <1>9, <1>10 DEF ResolverInv, ProjectMet
<1>13. EngineKept' /\ PinsOK' /\ JustLocked'
  BY <1>1, EngineStays DEF ResolverInv, PinsOK, JustLocked, Forced
<1>14. ASSUME TrustInv PROVE TrustInv'
  <2>1. \A c \in Coord : \A r : r \in SoFar(c)' <=> r \in SoFar(c)
    <3>1. ASSUME NEW c \in Coord, NEW r
          PROVE  r \in Asked([deps |-> resolved'], c) <=> r \in Asked([deps |-> resolved], c)
      <4>1. ASSUME NEW d \in Coord
            PROVE  /\ resolved'[d] # None <=> resolved[d] # None
                   /\ resolved[d] # None => /\ resolved'[d].version = resolved[d].version
                                            /\ resolved'[d].build = resolved[d].build
        BY <1>7
      <4> HIDE DEF old
      <4>2. r \in Asked([deps |-> resolved], c) <=>
              \/ r \in ByProject(c)
              \/ \E d \in Coord : /\ resolved[d] # None /\ <<d, resolved[d].version>> \in Carries
                                  /\ r \in Ranged(Manifest[d, resolved[d].version, resolved[d].build], c)
        BY AskedBy
      <4>3. r \in Asked([deps |-> resolved'], c) <=>
              \/ r \in ByProject(c)
              \/ \E d \in Coord : /\ resolved'[d] # None /\ <<d, resolved'[d].version>> \in Carries
                                  /\ r \in Ranged(Manifest[d, resolved'[d].version, resolved'[d].build], c)
        BY AskedBy
      <4> QED
        BY <4>1, <4>2, <4>3
    <3> QED
      BY <1>1, <3>1, AskedNext DEF SoFar
  <2>2. AllMet'
    BY <1>1, <1>9, <1>14, <2>1 DEF TrustInv, AllMet
  <2>3. PendingIsAsked'
    <3>1. \A x \in Elems(todo') : x.coord \in Coord
      <4>1. todo' \in Seq(Edge)
        BY <1>1, <1>2, HeadTailProperties
      <4>2. \A i \in DOMAIN todo' : todo'[i] \in Edge
        BY <4>1, ElementOfSeq, LenProperties
      <4> QED
        BY <4>2 DEF Elems, Edge
    <3> QED
      BY <1>1, <1>3, <1>14, <2>1, <3>1 DEF TrustInv, PendingIsAsked
  <2>4. PinsStay'
    BY <1>1, <1>7, <1>14, <2>1 DEF TrustInv, PinsStay
  <2> QED
    BY <2>2, <2>3, <2>4 DEF TrustInv
<1> QED
  BY <1>11, <1>12, <1>13, <1>14 DEF ResolverInv

\* A package that is recorded was picked in the range that is done with it, and
\* puts what it declares on the list.
LEMMA ResolverRecord ==
  ASSUME DiskInv, ResolverInv, CurrentPicked, Unpacking, NEW b \in Build, Record(b),
         UNCHANGED <<config, lock, cmd, pins, seen>>
  PROVE  ResolverInv' /\ (TrustInv /\ ReadsOf(b) => TrustInv')
<1>0. PICK e, v, o, decls :
        e = cur.edge /\ v = cur.version /\ o = cur.origin /\ decls = DepsOnDisk(cur.edge.coord, cur.version)
  OBVIOUS
<1> DEFINE entry == [version |-> v, build |-> b, root |-> e.role # "transitive", via |-> e.via, origin |-> o]
           deps == Edges(decls, "transitive", e.coord)
<1>1. /\ e \in Edge /\ e = Head(todo) /\ e.coord \in Coord
      /\ v \in Version /\ o \in Origin /\ <<e.coord, v>> \in Releases
      /\ todo # <<>> /\ todo \in Seq(Edge)
  BY <1>0, CurType DEF DiskInv, BaseInv, TypeOK, CurrentIsNew
<1>2. Elems(todo) = {e} \cup Elems(Tail(todo))
  BY <1>1, HeadAndTail
<1>3. resolved[e.coord] = None
  BY <1>0, CurFresh DEF DiskInv
<1>4. entry # None /\ entry.version = v /\ entry.build = b /\ (entry.root <=> e.role # "transitive")
  <2>1. entry \in Entry
    BY <1>1 DEF Entry, Edge
  <2> QED
    BY <2>1, EntryLocked
<1>5. /\ Resolving /\ Working /\ Resolving' /\ Working' /\ pc' = "pick"
  BY DEF Resolving, Working, Record
<1>6. /\ v \in e.range \/ v = seen[e.coord]
      /\ PinHolds(e) => v = pins[e.coord].version
  BY <1>0 DEF CurrentPicked
<1>7. Roots \subseteq Coord
  BY <1>5, RootsType DEF DiskInv, BaseInv, TypeOK, CommandOK
<1>8. PinsOK' /\ JustLocked'
  BY <1>5 DEF ResolverInv, PinsOK, JustLocked, Forced
<1>9. \A c : ByProject(c)' = ByProject(c)
  BY AskedNext
<1>10. CASE e.role = "engine"
  <2>1. resolved' = resolved /\ todo' = Tail(todo) /\ engine' = entry
    BY <1>0, <1>10 DEF Record
  <2>2. resolved = NoEntries /\ e = EngineEdge
    BY <1>1, <1>5, <1>10, NextEdge DEF DiskInv, BaseInv, EngineFirst
  <2> HIDE DEF entry
  <2>3. EngineKept'
    BY <1>4, <1>6, <2>1, <2>2 DEF EngineKept, PinHolds, EngineEdge
  <2>4. RootsOK'
    <3>1. \A c : IsRoot(c)' <=> IsRoot(c)
      BY <2>1 DEF IsRoot
    <3> QED
      BY <1>1, <1>2, <1>5, <1>7, <1>10, <2>1, <3>1, RootsStay DEF ResolverInv
  <2>5. \A c \in Coord : \A r : Settled(c, r) \/ Pending(c, r) => Settled(c, r)' \/ Pending(c, r)'
    BY <1>2, <1>10, <2>1, MetStays
  <2>6. ProjectMet'
    BY <1>5, <1>9, <2>5 DEF ResolverInv, ProjectMet
  <2>7. \A c : SoFar(c)' = SoFar(c)
    BY <2>1, AskedNext DEF SoFar
  <2>8. TrustInv => TrustInv'
    BY <1>2, <1>5, <2>1, <2>5, <2>7 DEF TrustInv, AllMet, PendingIsAsked, PinsStay
  <2> QED
    BY <1>8, <2>3, <2>4, <2>6, <2>8 DEF ResolverInv
<1>11. CASE e.role # "engine"
  <2>1. todo' = deps \o Tail(todo) /\ resolved' = [resolved EXCEPT ![e.coord] = entry] /\ engine' = engine
    BY <1>0, <1>11 DEF Record
  <2>2. decls \in Seq(Decl)
    BY <1>0, <1>1, DepsOnDiskType DEF DiskInv
  <2>3. deps \in Seq(DepEdge) /\ Tail(todo) \in Seq(DepEdge)
    BY <1>1, <1>5, <2>2, EdgesType, NextEdge DEF DiskInv
  <2>4. Elems(todo') = Elems(deps) \cup Elems(Tail(todo))
    BY <2>1, <2>3, Joined
  <2>5. /\ \A x \in Elems(deps) : x.role = "transitive" /\ x.range \in Ranged(decls, x.coord)
        /\ \A c : \A r \in Ranged(decls, c) :
             \E x \in Elems(deps) : x.role = "transitive" /\ x.coord = c /\ x.range = r
    BY <2>2, EdgeRanges
  <2>6. /\ resolved'[e.coord] = entry
        /\ \A c \in Coord : c # e.coord => resolved'[c] = resolved[c]
    BY <1>1, <2>1 DEF DiskInv, BaseInv, TypeOK
  <2>7. \A x \in Elems(todo') : x.coord \in Coord
    <3>1. todo' \in Seq(DepEdge)
      BY <2>1, <2>3, ConcatProperties
    <3>2. \A i \in DOMAIN todo' : todo'[i] \in DepEdge
      BY <3>1, ElementOfSeq, LenProperties
    <3> QED
      BY <3>2 DEF Elems, DepEdge, Edge
  <2> HIDE DEF entry, deps
  <2>8. EngineKept'
    BY <1>5, <2>1, EngineStays DEF ResolverInv
  <2>9. Settled(e.coord, e.range)'
    BY <1>4, <1>6, <2>6 DEF Settled
  <2>10. \A c \in Coord : resolved[c] # None => resolved'[c] = resolved[c]
    BY <1>3, <2>6
  <2>11. \A c \in Coord : \A r : Settled(c, r) \/ Pending(c, r) => Settled(c, r)' \/ Pending(c, r)'
    BY <1>2, <2>4, <2>9, <2>10, MetStays
  <2>12. ProjectMet'
    BY <1>5, <1>9, <2>11 DEF ResolverInv, ProjectMet
  <2>13. RootsOK'
    <3>1. \A c \in Coord : IsRoot(c)' => IsRoot(c) \/ (c = e.coord /\ e.role = "root")
      BY <1>1, <1>4, <1>11, <2>6 DEF IsRoot, Edge
    <3>2. \A c \in Coord : IsRoot(c) => IsRoot(c)'
      BY <2>10 DEF IsRoot
    <3>3. e.role = "root" => IsRoot(e.coord)'
      BY <1>4, <2>6 DEF IsRoot
    <3>4. \A x \in Elems(todo') : x \in Elems(todo) \/ x.role # "root"
      BY <1>2, <2>4, <2>5
    <3>5. e \in Elems(todo) /\ \A x \in Elems(todo) : x = e \/ x \in Elems(todo')
      BY <1>2, <2>4
    <3> QED
      BY <1>1, <1>5, <1>7, <3>1, <3>2, <3>3, <3>4, <3>5, RootsStay DEF ResolverInv
  <2>14. ASSUME TrustInv, ReadsOf(b) PROVE TrustInv'
    <3>1. \A c \in Coord : \A r \in SoFar(c) : r \in SoFar(c)'
      BY <2>10, SoFarGrows
    <3>2. decls = IF <<e.coord, v>> \in Carries THEN Manifest[e.coord, v, b] ELSE <<>>
      BY <1>0, <2>14, Zenon DEF ReadsOf
    <3>3. \A c : Ranged(<<>>, c) = {}
      BY DEF Ranged
    <3>4. ASSUME NEW c \in Coord, NEW r \in SoFar(c)', r \notin SoFar(c)
          PROVE  r \in Ranged(decls, c)
      <4>1. r \in Asked([deps |-> resolved'], c) /\ r \notin Asked([deps |-> resolved], c)
        BY <3>4, AskedNext DEF SoFar
      <4>2. r \notin ByProject(c)
        BY <4>1, AskedBy
      <4>3. PICK d \in Coord : /\ resolved'[d] # None /\ <<d, resolved'[d].version>> \in Carries
                               /\ r \in Ranged(Manifest[d, resolved'[d].version, resolved'[d].build], c)
        BY <4>1, <4>2, AskedBy
      <4>4. d = e.coord
        BY <2>6, <4>1, <4>3, AskedBy
      <4> QED
        BY <1>4, <2>6, <3>2, <4>3, <4>4
    <3>5. \A c \in Coord : \A r \in Ranged(decls, c) : r \in SoFar(c)'
      <4> SUFFICES ASSUME NEW c \in Coord, NEW r \in Ranged(decls, c)
                   PROVE  r \in SoFar(c)'
        OBVIOUS
      <4>1. <<e.coord, v>> \in Carries /\ decls = Manifest[e.coord, v, b]
        BY <3>2, <3>3
      <4>2. r \in Asked([deps |-> resolved'], c)
        BY <1>1, <1>4, <2>6, <4>1, AskedBy
      <4> QED
        BY <4>2, AskedNext
    <3>6. AllMet'
      <4>1. ASSUME NEW c \in Coord, NEW r \in SoFar(c)'
            PROVE  Settled(c, r)' \/ Pending(c, r)'
        <5>1. CASE r \in SoFar(c)
          BY <1>5, <2>11, <2>14, <5>1 DEF TrustInv, AllMet
        <5>2. CASE r \notin SoFar(c)
          <6>1. PICK x \in Elems(deps) : x.role = "transitive" /\ x.coord = c /\ x.range = r
            BY <2>5, <3>4, <5>2
          <6> QED
            BY <2>4, <6>1 DEF Pending
        <5> QED
          BY <5>1, <5>2
      <4> QED
        BY <4>1 DEF AllMet
    <3>7. PendingIsAsked'
      <4>1. ASSUME NEW x \in Elems(todo'), x.role # "engine"
            PROVE  x.range \in SoFar(x.coord)'
        <5>1. CASE x \in Elems(deps)
          BY <2>5, <2>7, <3>5, <5>1
        <5>2. CASE x \in Elems(todo)
          BY <1>5, <2>7, <2>14, <3>1, <4>1, <5>2 DEF TrustInv, PendingIsAsked
        <5> QED
          BY <1>2, <2>4, <5>1, <5>2
      <4> QED
        BY <4>1 DEF PendingIsAsked
    <3>8. PinsStay'
      <4>1. ASSUME NEW c \in Coord, resolved'[c] # None, pins[c] # None,
                   \A r \in SoFar(c)' : pins[c].version \in r
            PROVE  resolved'[c].version = pins[c].version
        <5>1. CASE c = e.coord
          <6>1. e.range \in SoFar(e.coord)'
            BY <1>1, <1>2, <1>5, <1>11, <2>14, <3>1 DEF TrustInv, PendingIsAsked
          <6>2. PinHolds(e)
            BY <4>1, <5>1, <6>1 DEF PinHolds
          <6> QED
            BY <1>4, <1>6, <2>6, <5>1, <6>2
        <5>2. CASE c # e.coord
          BY <1>5, <2>6, <2>14, <3>1, <4>1, <5>2 DEF TrustInv, PinsStay
        <5> QED
          BY <5>1, <5>2
      <4> QED
        BY <4>1 DEF PinsStay
    <3> QED
      BY <3>6, <3>7, <3>8 DEF TrustInv
  <2> QED
    BY <1>8, <2>8, <2>12, <2>13, <2>14 DEF ResolverInv
<1> QED
  BY <1>10, <1>11

\* The lockfile is written with nothing left to do; `add` remembers it.
LEMMA ResolverLock ==
  ASSUME DiskInv, ResolverInv, WriteLock
  PROVE  ResolverInv' /\ (TrustInv => TrustInv')
<1>1. /\ pc = "pick" /\ Working /\ lock' = [engine |-> engine, deps |-> resolved] /\ todo = <<>>
      /\ UNCHANGED config /\ whole' = TRUE
  BY DEF WriteLock, Working, Resolving
<1>2. CASE cmd.kind # "add"
  <2>1. ~Working'
    BY <1>2 DEF WriteLock, Exit, Working, Resolving, Unpacking
  <2> QED
    BY <2>1, ResolverAway
<1>3. CASE cmd.kind = "add"
  <2>1. pc' = "save" /\ UNCHANGED run /\ Working' /\ ~Resolving'
    BY <1>3 DEF WriteLock, Working, Resolving, Unpacking, run
  <2>2. \A c, r : (Settled(c, r)' <=> Settled(c, r)) /\ (Pending(c, r)' <=> Pending(c, r))
    BY <2>1 DEF Settled, Pending, run
  <2>3. \A c : (IsRoot(c)' <=> IsRoot(c)) /\ SoFar(c)' = SoFar(c) /\ ByProject(c)' = ByProject(c)
    BY <1>1, <2>1, AskedNext DEF IsRoot, SoFar, run
  <2>4. Roots' = Roots
    BY <1>1, <2>1, AskedNext DEF run
  <2>5. RootsOK' /\ ProjectMet'
    BY <1>1, <2>1, <2>2, <2>3, <2>4 DEF ResolverInv, RootsOK, ProjectMet, run
  <2>6. PinsOK' /\ EngineKept'
    BY <2>1 DEF PinsOK, EngineKept
  <2>7. JustLocked'
    <3>1. engine \in Entry /\ resolved \in [Coord -> Entry \cup {None}]
      BY <1>1 DEF DiskInv, BaseInv, TypeOK, EngineFirst, Resolving
    <3>2. lock' \in Lockfile /\ lock'.deps = resolved
      BY <1>1, <3>1, EntryLocked DEF Lockfile
    <3> QED
      BY <1>1, <2>1, <3>2, SentinelAssumption DEF JustLocked, run
  <2>8. TrustInv => TrustInv'
    BY <1>1, <2>1, <2>2, <2>3 DEF TrustInv, AllMet, PendingIsAsked, PinsStay
  <2> QED
    BY <2>5, <2>6, <2>7, <2>8 DEF ResolverInv
<1> QED
  BY <1>2, <1>3

\* The step of a command, or of the world, and the resolver's list.
LEMMA ResolverStep ==
  ASSUME CacheInv, ResolverInv, CurrentPicked, [Next]_vars
  PROVE  ResolverInv' /\ (MarkersTrusted /\ TrustInv => TrustInv')
<1> USE DEF CacheInv, disk, world, run
<1>1. CASE Command
  <2>1. ~Working'
    BY <1>1 DEF Command, Sync, Add, AddNoSync, Remove, Begin, Working, Resolving, Unpacking
  <2> QED
    BY <2>1, ResolverAway
<1>2. CASE DropDep \/ LoadFails \/ PickFails \/ FetchRefused \/ SaveDep \/ Crash
  <2>1. pc' \in {"idle", "load"}
    BY <1>2 DEF DropDep, LoadFails, PickFails, FetchRefused, SaveDep, Crash, Exit
  <2>2. ~Working'
    BY <2>1 DEF Working, Resolving, Unpacking
  <2> QED
    BY <2>2, ResolverAway
<1>3. CASE Load
  BY <1>3, ResolverLoad
<1>4. CASE PickAgain
  BY <1>4, ResolverAgain
<1>5. CASE PickNew \/ Refetch \/ ClearFile \/ Cleared \/ Fetch \/ ExtractFile
  <2>1. /\ Resolving /\ Resolving' /\ pc # "save" /\ pc' # "save"
        /\ UNCHANGED <<config, lock, whole, cmd, pins, seen, todo, engine, resolved>>
    BY <1>5 DEF PickNew, Picking, Refetch, ClearFile, Cleared, Fetch, ExtractFile, Resolving, Unpacking
  <2> QED
    BY <2>1, ResolverSame
<1>6. CASE UseCached
  <2>1. Unpacking /\ CurDir["marker"] \in Build
    <3>1. Unpacking /\ CurDir["marker"] # 0
      BY <1>6 DEF UseCached, Unpacking
    <3>2. CurDir["marker"] \in Build0
      BY <3>1, CurType DEF DiskInv, File
    <3> QED
      BY <3>1, <3>2, BuildAssumption DEF Build, Build0
  <2>2. Record(CurDir["marker"]) /\ UNCHANGED <<config, lock, cmd, pins, seen>>
    BY <1>6 DEF UseCached
  <2>3. MarkersTrusted => ReadsOf(CurDir["marker"])
    BY <1>6, CachedReads
  <2> QED
    BY <2>1, <2>2, <2>3, ResolverRecord
<1>7. CASE WriteMarker
  <2>1. Unpacking /\ archive \in Build /\ ReadsOf(archive)
    BY <1>7, UnpackedReads
  <2>2. Record(archive) /\ UNCHANGED <<config, lock, cmd, pins, seen>>
    BY <1>7 DEF WriteMarker
  <2> QED
    BY <2>1, <2>2, ResolverRecord
<1>8. CASE WriteLock
  BY <1>8, ResolverLock
<1>9. CASE World \/ UNCHANGED vars
  <2>1. UNCHANGED <<pc, run>>
    BY <1>9, WorldFacts
  <2>2. CASE pc = "idle"
    BY <2>1, <2>2, ResolverAway DEF Working, Resolving, Unpacking
  <2>3. CASE pc # "idle"
    <3>1. UNCHANGED <<config, lock, whole>>
      BY <1>9, <2>3 DEF World, Publish, ChangeWorkspace, EditConfig, DeleteLock, CleanCache, vars
    <3> QED
      BY <2>1, <3>1, ResolverSame DEF Resolving, Unpacking
  <2> QED
    BY <2>2, <2>3
<1> QED
  BY <1>1, <1>2, <1>3, <1>4, <1>5, <1>6, <1>7, <1>8, <1>9 DEF Next, Step
-----------------------------------------------------------------------------
(* The package being unpacked, the cache and the lockfile before the run        *)

\* What was picked is in range, or what the workspace has; the pin if it holds.
LEMMA PickedStep ==
  ASSUME DiskInv, CurrentPicked, [Next]_vars
  PROVE  CurrentPicked'
<1> USE DEF disk, world, run
<1>1. CASE Command \/ DropDep \/ Load \/ LoadFails \/ PickAgain \/ PickFails
  BY <1>1 DEF Command, Sync, Add, AddNoSync, Remove, Begin, DropDep, Load, LoadFails, PickAgain,
              PickFails, Picking, Exit, CurrentPicked, Unpacking
<1>2. CASE FetchRefused \/ UseCached \/ WriteMarker \/ WriteLock \/ SaveDep \/ Crash
  BY <1>2 DEF FetchRefused, UseCached, WriteMarker, Record, WriteLock, SaveDep, Crash, Exit,
              CurrentPicked, Unpacking
<1>3. CASE PickNew
  <2>1. PICK e, v, o : e = Head(todo) /\ Picks(e, v, o) /\ cur' = [edge |-> e, version |-> v, origin |-> o]
    BY <1>3 DEF PickNew
  <2>2. /\ v \in e.range \/ v = seen[e.coord]
        /\ PinHolds(e) => v = pins[e.coord].version
    BY <2>1 DEF Picks, PinHolds, Candidates
  <2>3. pins' = pins /\ seen' = seen
    BY <1>3 DEF PickNew
  <2> QED
    BY <2>1, <2>2, <2>3 DEF CurrentPicked, PinHolds
<1>4. CASE Refetch \/ ClearFile \/ Cleared \/ Fetch \/ ExtractFile
  <2>1. Unpacking /\ UNCHANGED <<cur, pins, seen>>
    BY <1>4 DEF Refetch, ClearFile, Cleared, Fetch, ExtractFile, Unpacking
  <2> QED
    BY <2>1 DEF CurrentPicked, PinHolds
<1>5. CASE World \/ UNCHANGED vars
  <2>1. UNCHANGED <<pc, run>>
    BY <1>5, WorldFacts
  <2> QED
    BY <2>1 DEF CurrentPicked, PinHolds, Unpacking
<1> QED
  BY <1>1, <1>2, <1>3, <1>4, <1>5 DEF Next, Step

\* An archive with another checksum than the locked one is refused.
LEMMA ArchiveStep ==
  ASSUME ArchiveMatches, [Next]_vars
  PROVE  ArchiveMatches'
<1> USE DEF disk, world, run
<1>1. CASE Command \/ DropDep \/ Load \/ LoadFails \/ PickNew \/ PickAgain \/ PickFails
  BY <1>1 DEF Command, Sync, Add, AddNoSync, Remove, Begin, DropDep, Load, LoadFails, PickNew, PickAgain,
              PickFails, Picking, Exit, ArchiveMatches
<1>2. CASE FetchRefused \/ UseCached \/ WriteMarker \/ WriteLock \/ SaveDep \/ Crash
  BY <1>2 DEF FetchRefused, UseCached, WriteMarker, Record, WriteLock, SaveDep, Crash, Exit, ArchiveMatches
<1>3. CASE Refetch \/ ClearFile \/ Cleared
  BY <1>3 DEF Refetch, ClearFile, Cleared, ArchiveMatches
<1>4. CASE Fetch
  <2>1. ~Mismatch /\ archive' = Served /\ UNCHANGED <<cur, pins>>
    BY <1>4 DEF Fetch
  <2> QED
    BY <2>1 DEF Mismatch, ArchiveMatches
<1>5. CASE ExtractFile
  BY <1>5 DEF ExtractFile, ArchiveMatches
<1>6. CASE World \/ UNCHANGED vars
  <2>1. UNCHANGED <<pc, run>>
    BY <1>6, WorldFacts
  <2> QED
    BY <2>1 DEF ArchiveMatches
<1> QED
  BY <1>1, <1>2, <1>3, <1>4, <1>5, <1>6 DEF Next, Step

\* What is left of a lockfile cut short is what the run resolved, or lost its
\* checksum.
LEMMA CutLockKeeps ==
  ASSUME DiskInv, CutLock, lock' # Torn, NEW c \in Coord,
         lock'.deps[c] # None, lock'.deps[c].build # 0
  PROVE  /\ resolved[c] # None
         /\ lock'.deps[c].version = resolved[c].version
         /\ lock'.deps[c].build = resolved[c].build
<1>1. resolved \in [Coord -> Entry \cup {None}]
  BY DEF DiskInv, BaseInv, TypeOK
<1>2. ASSUME NEW x \in Frayed(engine), lock' = [engine |-> x, deps |-> NoEntries]
      PROVE  FALSE
  BY <1>2 DEF NoEntries
<1>3. ASSUME NEW some \in SUBSET {d \in Coord : resolved[d] # None}, NEW end \in some,
             NEW x \in Frayed(resolved[end]),
             lock' = [engine |-> engine,
                      deps |-> [d \in Coord |-> IF d = end THEN x
                                               ELSE IF d \in some THEN resolved[d] ELSE None]]
      PROVE  /\ resolved[c] # None
             /\ lock'.deps[c].version = resolved[c].version
             /\ lock'.deps[c].build = resolved[c].build
  <2>1. lock'.deps[c] = IF c = end THEN x ELSE IF c \in some THEN resolved[c] ELSE None
    BY <1>3
  <2>2. CASE c = end
    <3>1. x = lock'.deps[c] /\ resolved[c] # None /\ resolved[c] \in Entry
      BY <1>1, <2>1, <2>2
    <3>2. x.version = resolved[c].version
      BY <2>2, <3>1, FrayedType
    <3>3. x.build \in {0, resolved[c].build}
      <4>1. CASE x = resolved[c]
        BY <4>1
      <4>2. ASSUME NEW loss \in Losses, x = Fray(resolved[c], loss)
            PROVE  x.build \in {0, resolved[c].build}
        BY <3>1, <4>2 DEF Fray, Entry
      <4> QED
        BY <2>2, <4>1, <4>2 DEF Frayed
    <3> QED
      BY <3>1, <3>2, <3>3
  <2>3. CASE c # end
    BY <2>1, <2>3
  <2> QED
    BY <2>2, <2>3
<1> QED
  BY <1>2, <1>3 DEF CutLock

\* What a plain run puts in the cache or finds there is what is locked.
LEMMA CacheStep ==
  ASSUME DiskInv, ResolverInv, ArchiveMatches, CacheMatches, [Next]_vars
  PROVE  CacheMatches'
<1> USE DEF disk, world, run
<1> SUFFICES ASSUME "update" \notin Kinds PROVE CacheMatches'
  BY DEF CacheMatches
<1>1. MarkersTrusted
  BY DEF MarkersTrusted
<1>2. lock \notin {None, Torn} =>
        /\ lock \in Lockfile
        /\ \A c \in Coord : lock.deps[c] # None => <<c, lock.deps[c].version>> \in Releases
                                                   /\ lock.deps[c].version \in Version
  <2>1. lock \notin {None, Torn} => lock \in Lockfile
    BY DEF DiskInv, BaseInv, TypeOK
  <2>2. lock \notin {None, Torn} => \A c \in Coord : lock.deps[c] # None => lock.deps[c] \in LockedEntry
    BY <2>1 DEF Lockfile
  <2> QED
    BY <2>1, <2>2 DEF DiskInv, BaseInv, Located, Alive, LockedEntry
<1>3. ASSUME lock' \in {lock, None, Torn}, cache' = cache
      PROVE  CacheMatches'
  BY <1>3 DEF CacheMatches
<1>4. ASSUME NEW f \in File, NEW b \in Build0, PutFile(f, b), Unpacking, lock' = lock,
             f = "marker" => b = 0 \/ (pc = "extract" /\ b = archive)
      PROVE  CacheMatches'
  <2> SUFFICES ASSUME lock \notin {None, Torn}, NEW c \in Coord, lock.deps[c] # None,
                      lock.deps[c].build # 0
               PROVE  cache'[c, lock.deps[c].version]["marker"] \in {0, lock.deps[c].build}
    BY <1>4 DEF CacheMatches
  <2> DEFINE v == lock.deps[c].version
  <2>1. cache[c, v]["marker"] \in {0, lock.deps[c].build} /\ <<c, v>> \in Releases
    BY <1>2 DEF CacheMatches
  <2>2. CASE <<c, v>> # <<cur.edge.coord, cur.version>>
    <3>1. cache'[c, v] = cache[c, v]
      BY <1>4, <2>1, <2>2, PutFileFacts DEF DiskInv
    <3> QED
      BY <2>1, <3>1
  <2>3. CASE <<c, v>> = <<cur.edge.coord, cur.version>>
    <3>1. cache'[c, v] = [CurDir EXCEPT ![f] = b]
      BY <1>4, <2>3, PutFileFacts DEF DiskInv
    <3>2. CurDir \in [File -> Build0] /\ "marker" \in File /\ CurDir = cache[c, v]
      BY <1>4, <2>3, CurType DEF DiskInv, File, CurDir
    <3>3. CASE f # "marker"
      BY <2>1, <3>1, <3>2, <3>3
    <3>4. CASE f = "marker" /\ b = 0
      BY <3>1, <3>2, <3>4
    <3>5. CASE f = "marker" /\ pc = "extract" /\ b = archive
      <4>1. ~Forced
        BY <1>4 DEF Forced, DiskInv, BaseInv, CommandOK, Unpacking
      <4>2. pins[c] = lock.deps[c]
        BY <1>4, <4>1 DEF ResolverInv, PinsOK, PinsOf, Resolving
      <4>3. pins[c].build = archive
        BY <2>3, <3>5, <4>2 DEF ArchiveMatches
      <4> QED
        BY <3>1, <3>2, <3>5, <4>2, <4>3
    <3> QED
      BY <1>4, <3>3, <3>4, <3>5
  <2> QED
    BY <2>2, <2>3
<1>5. CASE Command \/ DropDep \/ Load \/ LoadFails \/ PickNew \/ PickAgain \/ PickFails
  <2>1. UNCHANGED <<lock, cache>>
    BY <1>5 DEF Command, Sync, Add, AddNoSync, Remove, Begin, DropDep, Load, LoadFails, PickNew,
                PickAgain, PickFails
  <2> QED
    BY <1>3, <2>1
<1>6. CASE FetchRefused \/ UseCached \/ SaveDep \/ Refetch \/ Cleared \/ Fetch
  BY <1>3, <1>6 DEF FetchRefused, UseCached, SaveDep, Refetch, Cleared, Fetch
<1>12. CASE Crash
  <2>1. cache' = cache
    BY <1>12 DEF Crash
  <2>2. CASE lock' \in {lock, Torn}
    BY <1>3, <2>1, <2>2
  <2>3. CASE lock' \notin {lock, Torn}
    <3>1. \A c \in Coord : lock'.deps[c] # None /\ lock'.deps[c].build # 0 =>
            /\ resolved[c] # None
            /\ lock'.deps[c].version = resolved[c].version
            /\ lock'.deps[c].build = resolved[c].build
      BY <1>12, <2>3, CutLockKeeps DEF Crash
    <3>2. \A c \in Coord : resolved[c] # None => Complete(c, resolved[c].version, resolved[c].build)
      BY <1>1 DEF DiskInv, ResolvedIsInstalled
    <3> QED
      BY <2>1, <3>1, <3>2 DEF CacheMatches, Complete
  <2> QED
    BY <2>2, <2>3
<1>7. CASE ClearFile
  <2>1. PICK f \in File : PutFile(f, 0)
    BY <1>7 DEF ClearFile
  <2> QED
    BY <1>4, <1>7, <2>1, BuildAssumption DEF ClearFile, Unpacking, Build0
<1>8. CASE ExtractFile
  <2>1. PICK f \in Members : PutFile(f, archive)
    BY <1>8 DEF ExtractFile
  <2>2. f \in File /\ f # "marker"
    BY DEF Members, ArchiveFiles, File
  <2> QED
    BY <1>4, <1>8, <2>1, <2>2 DEF ExtractFile, Unpacking, DiskInv, BaseInv, TypeOK
<1>9. CASE WriteMarker
  BY <1>4, <1>9 DEF WriteMarker, Unpacking, DiskInv, BaseInv, TypeOK, File
<1>10. CASE WriteLock
  <2>1. lock'.deps = resolved /\ cache' = cache
    BY <1>10 DEF WriteLock
  <2>2. \A c \in Coord : resolved[c] # None => Complete(c, resolved[c].version, resolved[c].build)
    BY <1>1 DEF DiskInv, ResolvedIsInstalled
  <2> QED
    BY <2>1, <2>2 DEF CacheMatches, Complete
<1>11. CASE World \/ UNCHANGED vars
  <2>1. lock' \in {lock, None}
    BY <1>11 DEF World, Publish, ChangeWorkspace, EditConfig, DeleteLock, CleanCache, vars
  <2>2. cache' = cache \/ cache' = [cv \in Releases |-> EmptyDir]
    BY <1>11, WorldFacts
  <2>3. CASE cache' # cache
    <3>1. \A c \in Coord, v \in Version : <<c, v>> \in Releases => cache'[c, v]["marker"] = 0
      BY <2>2, <2>3 DEF EmptyDir, File
    <3> QED
      BY <1>2, <2>1, <3>1 DEF CacheMatches
  <2> QED
    BY <1>3, <2>1, <2>3
<1> QED
  BY <1>5, <1>6, <1>7, <1>8, <1>9, <1>10, <1>11, <1>12 DEF Next, Step

-----------------------------------------------------------------------------
(* The theorems                                                                *)

LEMMA InitIInv == Init => IInv
<1> SUFFICES ASSUME Init
             PROVE  IInv
  OBVIOUS
<1>1. WInv
  BY WInit
<1>2. RunInv
  BY DEF Init, RunInv, RootsOK, ProjectMet, PinsOK, CurrentPicked, EngineKept, ArchiveMatches,
         CacheMatches, JustLocked, Working, Resolving, Unpacking
<1>3. AllMet /\ PendingIsAsked /\ PinsStay
  BY DEF Init, AllMet, PendingIsAsked, PinsStay, Working, Resolving, Unpacking
<1> QED
  BY <1>1, <1>2, <1>3 DEF IInv, AskInv, WInv, CacheInv

LEMMA StepIInv == IInv /\ [Next]_vars => IInv'
<1> SUFFICES ASSUME IInv, [Next]_vars
             PROVE  IInv'
  OBVIOUS
<1>1. CacheInv /\ ResolverInv /\ CurrentPicked
  BY DEF IInv, CacheInv, RunInv, ResolverInv
<1>2. DiskInv' /\ NoConfig'
  BY <1>1, StepInv, NoConfigStep DEF CacheInv
<1>3. ResolverInv' /\ (MarkersTrusted /\ TrustInv => TrustInv')
  BY <1>1, ResolverStep
<1>4. CurrentPicked' /\ ArchiveMatches' /\ CacheMatches'
  BY <1>1, PickedStep, ArchiveStep, CacheStep DEF IInv, RunInv
<1>5. RunInv'
  BY <1>3, <1>4 DEF RunInv, ResolverInv
<1>6. ASSUME MarkersTrusted' PROVE AskInv'
  <2>1. MarkersTrusted
    BY <1>6 DEF MarkersTrusted
  <2>2. WInv /\ TrustInv
    BY <1>1, <2>1 DEF IInv, WInv, AskInv, TrustInv
  <2> QED
    BY <1>3, <2>1, <2>2, WalkStep DEF AskInv, TrustInv
<1> QED
  BY <1>2, <1>5, <1>6 DEF IInv

\* The disk, the resolver's list, what it has recorded and the lockfile the run
\* started from fit together in every reachable state, for every registry,
\* project, mode, set of commands and set of crash points
\* (deps_install_service.py, deps_lockfile.py).
THEOREM Invariant == Spec => []IInv
BY InitIInv, StepIInv, PTL DEF Spec

\* A lockfile appears only where the resolver writes it.
LEMMA WrittenIsWriteLock ==
  ASSUME [Next]_vars, Written
  PROVE  WriteLock
<1> USE DEF Written, disk, world, run
<1>1. CASE Command
  BY <1>1 DEF Command, Sync, Add, AddNoSync, Remove, Begin
<1>2. CASE DropDep \/ LoadFails \/ PickFails \/ FetchRefused \/ SaveDep \/ Crash
  BY <1>2 DEF DropDep, LoadFails, PickFails, FetchRefused, SaveDep, Crash
<1>3. CASE Load \/ PickNew \/ PickAgain
  BY <1>3 DEF Load, PickNew, PickAgain
<1>4. CASE UseCached \/ Refetch \/ ClearFile \/ Cleared \/ Fetch \/ ExtractFile \/ WriteMarker
  BY <1>4 DEF UseCached, Refetch, ClearFile, Cleared, Fetch, ExtractFile, WriteMarker
<1>5. CASE World
  BY <1>5 DEF World, Publish, ChangeWorkspace, EditConfig, DeleteLock, CleanCache
<1>6. CASE UNCHANGED vars
  BY <1>6 DEF vars
<1> QED
  BY <1>1, <1>2, <1>3, <1>4, <1>5, <1>6 DEF Next, Step

\* What the run knows when it writes the lockfile.
LEMMA AtWriteLock ==
  ASSUME IInv, [Next]_vars, Written
  PROVE  /\ WriteLock /\ Resolving /\ Working /\ Elems(todo) = {}
         /\ lock' = [engine |-> engine, deps |-> resolved] /\ lock'.deps = resolved
         /\ engine # None
         /\ \A c : Asked(lock', c) = SoFar(c)
<1>1. WriteLock
  BY WrittenIsWriteLock
<1>2. Resolving /\ Working /\ todo = <<>> /\ lock' = [engine |-> engine, deps |-> resolved]
  BY <1>1 DEF WriteLock, Working, Resolving
<1>3. engine # None
  BY <1>2 DEF IInv, DiskInv, BaseInv, EngineFirst
<1>4. lock'.deps = resolved
  BY <1>2
<1>5. \A c : Asked(lock', c) = SoFar(c)
  BY <1>4, AskedOfLock
<1> QED
  BY <1>1, <1>2, <1>3, <1>4, <1>5, EmptyElems

\* The roots of every lockfile are what the project declares and what `add` was
\* given, whatever met them first (_resolve_package, the role of an entry).
THEOREM RootsDeclared == Spec => RootsAreDeclared
<1> DEFINE Act == Written =>
      \A c \in Coord :
        (lock'.deps[c] # None /\ lock'.deps[c].root)
          <=> c \in Declared(config) \cup (IF cmd.kind = "add" THEN {cmd.target} ELSE {})
<1>1. IInv /\ [Next]_vars => Act
  <2> SUFFICES ASSUME IInv, [Next]_vars, Written, NEW c \in Coord
               PROVE  IsRoot(c) <=> c \in Roots
    BY AtWriteLock DEF IsRoot, Roots
  <2> QED
    BY AtWriteLock DEF IInv, RunInv, RootsOK
<1>2. IInv /\ [Next]_vars => [Act]_vars
  BY <1>1
<1> QED
  BY <1>2, Invariant, PTL DEF Spec, RootsAreDeclared

\* Every locked version is in all the ranges asked of it, or is what the
\* workspace had (_pick_version).
THEOREM RangesMet == Spec => RangesAreMet
<1> DEFINE Act == Written /\ MarkersTrusted =>
      \A c \in Coord : lock'.deps[c] # None =>
        \A r \in Asked(lock', c) :
          lock'.deps[c].version \in r \/ lock'.deps[c].version = seen[c]
<1>1. IInv /\ [Next]_vars => Act
  <2> SUFFICES ASSUME IInv, [Next]_vars, Written, MarkersTrusted, NEW c \in Coord, NEW r \in SoFar(c)
               PROVE  resolved[c].version \in r \/ resolved[c].version = seen[c]
    BY AtWriteLock
  <2>1. Settled(c, r) \/ Pending(c, r)
    BY AtWriteLock DEF IInv, AskInv, AllMet
  <2> QED
    BY <2>1, AtWriteLock DEF Settled, Pending
<1>2. IInv /\ [Next]_vars => [Act]_vars
  BY <1>1
<1> QED
  BY <1>2, Invariant, PTL DEF Spec, RangesAreMet

\* A plain run never moves a pin that is in all the ranges asked of it, nor the
\* engine's (existing_pins, _pick_version).
THEOREM PinsKept == Spec => PinsAreKept
<1> DEFINE Act == Written /\ MarkersTrusted /\ ~Forced /\ lock # None =>
      /\ \A c \in Coord :
           /\ lock.deps[c] # None /\ lock'.deps[c] # None
           /\ \A r \in Asked(lock', c) : lock.deps[c].version \in r
           => lock'.deps[c].version = lock.deps[c].version
      /\ lock.deps[Engine] = None /\ lock.engine.version \in EngineRange
           => lock'.engine.version = lock.engine.version
<1>1. IInv /\ [Next]_vars => Act
  <2> SUFFICES ASSUME IInv, [Next]_vars, Written, MarkersTrusted, ~Forced, lock # None
               PROVE  /\ \A c \in Coord :
                           /\ lock.deps[c] # None /\ lock'.deps[c] # None
                           /\ \A r \in Asked(lock', c) : lock.deps[c].version \in r
                           => lock'.deps[c].version = lock.deps[c].version
                      /\ lock.deps[Engine] = None /\ lock.engine.version \in EngineRange
                           => lock'.engine.version = lock.engine.version
    OBVIOUS
  <2>1. pins = PinsOf(lock) /\ lock \in Lockfile
    BY AtWriteLock DEF IInv, RunInv, PinsOK, DiskInv, BaseInv, TypeOK
  <2>2. \A c \in Coord : lock.deps[c] # None => pins[c] = lock.deps[c]
    BY <2>1 DEF PinsOf
  <2>3. \A c \in Coord :
          /\ lock.deps[c] # None /\ lock'.deps[c] # None
          /\ \A r \in Asked(lock', c) : lock.deps[c].version \in r
          => lock'.deps[c].version = lock.deps[c].version
    BY <2>2, AtWriteLock DEF IInv, AskInv, PinsStay
  <2>4. ASSUME lock.deps[Engine] = None, lock.engine.version \in EngineRange
        PROVE  lock'.engine.version = lock.engine.version
    <3>1. pins[Engine] = lock.engine /\ lock.engine # None
      BY <2>1, <2>4, CoordAssumption, SentinelAssumption DEF PinsOf, Lockfile
    <3>2. PinHolds(EngineEdge)
      BY <2>4, <3>1 DEF PinHolds, EngineEdge
    <3>3. engine.version = lock.engine.version
      BY <3>1, <3>2, AtWriteLock DEF IInv, RunInv, EngineKept
    <3> QED
      BY <3>3, AtWriteLock
  <2> QED
    BY <2>3, <2>4
<1>2. IInv /\ [Next]_vars => [Act]_vars
  BY <1>1
<1> QED
  BY <1>2, Invariant, PTL DEF Spec, PinsAreKept

\* Both, as workspace-sync needs them: a pin moves only for what the workspace
\* runs or for a range it is no longer in.
THEOREM WorkspaceKept == Spec => WorkspaceLocks
BY RangesMet, PinsKept DEF WorkspaceLocks

\* Without --update a locked version keeps its checksum, in the cache and in the
\* next lockfile (the comparison in _materialize).
THEOREM ChecksumsKept == Spec => ChecksumsAreKept
<1> DEFINE Act == Written /\ lock \notin {None, Torn} /\ "update" \notin Kinds =>
      \A c \in Coord : SameContent(lock.deps[c], lock'.deps[c])
<1>1. IInv /\ [Next]_vars => Act
  <2> SUFFICES ASSUME IInv, [Next]_vars, Written, lock \notin {None, Torn}, "update" \notin Kinds,
                      NEW c \in Coord, lock.deps[c] # None, resolved[c] # None,
                      lock.deps[c].version = resolved[c].version, lock.deps[c].build # 0
               PROVE  lock.deps[c].build = resolved[c].build
    BY AtWriteLock DEF SameContent
  <2>1. Complete(c, resolved[c].version, resolved[c].build)
    BY DEF IInv, DiskInv, ResolvedIsInstalled, MarkersTrusted
  <2>2. cache[c, lock.deps[c].version]["marker"] \in {0, lock.deps[c].build}
    BY DEF IInv, RunInv, CacheMatches
  <2>3. resolved[c].build # 0
    <3>1. resolved[c] \in Entry
      BY DEF IInv, DiskInv, BaseInv, TypeOK
    <3> QED
      BY <3>1, BuildAssumption DEF Entry, Build
  <2> QED
    BY <2>1, <2>2, <2>3 DEF Complete
<1>2. IInv /\ [Next]_vars => [Act]_vars
  BY <1>1
<1> QED
  BY <1>2, Invariant, PTL DEF Spec, ChecksumsAreKept

\* Adding a dependency that is not declared puts its range at the end.
LEMMA AddedDep ==
  ASSUME NEW decls \in Seq(Decl), NEW c, c \notin Declared(decls), NEW r,
         NEW i \in DOMAIN WithDep(decls, c, r), WithDep(decls, c, r)[i].coord = c
  PROVE  WithDep(decls, c, r)[i].range = r
<1> DEFINE new == [coord |-> c, range |-> r]
<1>1. WithDep(decls, c, r) = Append(decls, new)
  BY DEF WithDep
<1>2. /\ Len(decls) \in Nat /\ DOMAIN decls = 1 .. Len(decls)
      /\ DOMAIN Append(decls, new) = 1 .. Len(decls) + 1
      /\ Append(decls, new)[Len(decls) + 1] = new
      /\ \A j \in 1 .. Len(decls) : Append(decls, new)[j] = decls[j]
  OBVIOUS
<1>3. CASE i = Len(decls) + 1
  BY <1>1, <1>2, <1>3
<1>4. CASE i # Len(decls) + 1
  <2>1. i \in 1 .. Len(decls) /\ decls[i].coord = c
    BY <1>1, <1>2, <1>4
  <2> QED
    BY <1>2, <2>1 DEF Declared
<1> QED
  BY <1>3, <1>4

\* The range that `plgt add` saves contains the version it locked, or the
\* workspace imposed that version (the minor floor of cmd/lifecycle.py).
THEOREM AddedRange == Spec => AddedRangeHolds
<1> DEFINE Act ==
      pc = "save" /\ cmd.kind = "add" /\ pc' = "idle" /\ config' # config /\ config' # Torn
         /\ cmd.target \notin Declared(config)
        => \A i \in DOMAIN config' : config'[i].coord = cmd.target =>
             \/ lock.deps[cmd.target].version \in config'[i].range
             \/ lock.deps[cmd.target].version = seen[cmd.target]
<1>1. IInv /\ [Next]_vars => Act
  <2> SUFFICES ASSUME IInv, [Next]_vars, pc = "save", cmd.kind = "add", pc' = "idle",
                      config' # config, config' # Torn, cmd.target \notin Declared(config),
                      NEW i \in DOMAIN config', config'[i].coord = cmd.target
               PROVE  \/ lock.deps[cmd.target].version \in config'[i].range
                      \/ lock.deps[cmd.target].version = seen[cmd.target]
    OBVIOUS
  <2>1. SaveDep
    <3> USE DEF disk, world, run
    <3>1. ~Command /\ ~DropDep /\ ~Load /\ ~LoadFails /\ ~PickNew /\ ~PickAgain /\ ~PickFails
      BY DEF Command, Sync, Add, AddNoSync, Remove, Begin, DropDep, Load, LoadFails, PickNew,
             PickAgain, PickFails, Picking
    <3>2. ~UseCached /\ ~Refetch /\ ~ClearFile /\ ~Cleared /\ ~Fetch /\ ~FetchRefused /\ ~ExtractFile
          /\ ~WriteMarker /\ ~WriteLock
      BY DEF UseCached, Refetch, ClearFile, Cleared, Fetch, FetchRefused, ExtractFile, WriteMarker, WriteLock
    <3>3. ~Crash
      BY DEF Crash
    <3>4. ~World /\ ~UNCHANGED vars
      BY WorldFacts
    <3> QED
      BY <3>1, <3>2, <3>3, <3>4 DEF Next, Step
  <2>2. config \in Seq(Decl) /\ cmd.target \in Coord /\ cmd \in Command0
    BY DEF IInv, DiskInv, BaseInv, CommandOK, TypeOK
  <2>3. /\ Working /\ Elems(todo) = {} /\ lock.deps = resolved
    BY EmptyElems DEF IInv, RunInv, JustLocked, Working
  <2>4. config'[i].range = SavedRange
    BY <2>1, <2>2, AddedDep DEF SaveDep
  <2>5. resolved[cmd.target] # None
    BY <2>3 DEF IInv, RunInv, RootsOK, Roots, IsRoot
  <2>6. CASE cmd.arg = None
    <3>1. resolved[cmd.target].version \in Version
      <4>1. resolved[cmd.target] \in Entry
        BY <2>2, <2>5 DEF IInv, DiskInv, BaseInv, TypeOK
      <4> QED
        BY <4>1 DEF Entry
    <3>2. resolved[cmd.target].version \in SavedRange
      BY <2>6, <3>1, VersionAssumption DEF SavedRange, MinorFloor
    <3> QED
      BY <2>3, <2>4, <3>2
  <2>7. CASE cmd.arg # None
    <3>1. SavedRange \in ByProject(cmd.target)
      BY <2>7, ByProjectIs DEF SavedRange, ArgRange
    <3>2. Settled(cmd.target, SavedRange) \/ Pending(cmd.target, SavedRange)
      BY <2>2, <2>3, <3>1 DEF IInv, RunInv, ProjectMet
    <3> QED
      BY <2>3, <2>4, <3>2 DEF Settled, Pending
  <2> QED
    BY <2>6, <2>7
<1>2. IInv /\ [Next]_vars => [Act]_vars
  BY <1>1
<1> QED
  BY <1>2, Invariant, PTL DEF Spec, AddedRangeHolds
=============================================================================
