--------------------------- MODULE DepsSync_proofs ---------------------------
(***************************************************************************)
(* Proofs about DepsSync for every registry, project, mode and crash       *)
(* points: the part of the inductive invariant that is about the disk      *)
(* (DiskInv of DepsSyncInv), and what follows.                             *)
(***************************************************************************)
EXTENDS DepsSyncInv, SequenceTheorems, FiniteSetTheorems, TLAPS

-----------------------------------------------------------------------------
(* Sequences of declarations and of edges *)

(* Turning declarations into edges keeps their number and their coordinates.   *)
LEMMA EdgesType ==
  ASSUME NEW decls \in Seq(Decl), NEW role \in {"root", "transitive"},
         NEW via \in Coord \cup {None}
  PROVE  Edges(decls, role, via) \in Seq(DepEdge)
<1> DEFINE e(i) == [coord |-> decls[i].coord, range |-> decls[i].range,
                    role |-> role, via |-> via]
<1>1. Len(decls) \in Nat /\ DOMAIN decls = 1 .. Len(decls)
  BY LenProperties
<1>2. \A i \in 1 .. Len(decls) : decls[i] \in Decl
  BY ElementOfSeq
<1>3. \A i \in 1 .. Len(decls) : e(i) \in DepEdge
  BY <1>2 DEF Decl, DepEdge, Edge
<1>4. [i \in 1 .. Len(decls) |-> e(i)] \in Seq(DepEdge)
  <2> HIDE DEF e
  <2> QED BY <1>1, <1>3, SeqDef
<1> QED BY <1>1, <1>4 DEF Edges

(* Declared coordinates are coordinates.                                       *)
LEMMA DeclaredType ==
  ASSUME NEW decls \in Seq(Decl)
  PROVE  Declared(decls) \subseteq Coord
<1>1. DOMAIN decls = 1 .. Len(decls)
  BY LenProperties
<1>2. \A i \in 1 .. Len(decls) : decls[i] \in Decl
  BY ElementOfSeq
<1>3. \A i \in 1 .. Len(decls) : decls[i].coord \in Coord
  BY <1>2 DEF Decl
<1> QED BY <1>1, <1>3 DEF Declared

(* Adding a dependency to poliglot.yml leaves a map of declarations.           *)
LEMMA WithDepType ==
  ASSUME NEW decls \in Seq(Decl), NEW c \in Coord, NEW r \in Ranges
  PROVE  WithDep(decls, c, r) \in Seq(Decl)
<1> DEFINE new == [coord |-> c, range |-> r]
           e(i) == IF decls[i].coord = c THEN new ELSE decls[i]
<1>1. Len(decls) \in Nat /\ DOMAIN decls = 1 .. Len(decls)
  BY LenProperties
<1>2. new \in Decl
  BY DEF Decl
<1>3. \A i \in 1 .. Len(decls) : e(i) \in Decl
  BY <1>2, ElementOfSeq
<1>4. [i \in 1 .. Len(decls) |-> e(i)] \in Seq(Decl)
  <2> HIDE DEF e
  <2> QED BY <1>1, <1>3, SeqDef
<1>5. Append(decls, new) \in Seq(Decl)
  BY <1>2
<1> QED BY <1>1, <1>4, <1>5 DEF WithDep

(* So does removing a declared one.                                            *)
LEMMA WithoutDepType ==
  ASSUME NEW decls \in Seq(Decl), NEW c \in Declared(decls)
  PROVE  WithoutDep(decls, c) \in Seq(Decl)
<1> DEFINE i == CHOOSE i \in DOMAIN decls : decls[i].coord = c
<1>1. Len(decls) \in Nat /\ DOMAIN decls = 1 .. Len(decls)
  BY LenProperties
<1>2. i \in 1 .. Len(decls)
  BY <1>1 DEF Declared
<1>3. \A k \in 1 .. Len(decls) : decls[k] \in Decl
  BY ElementOfSeq
<1> HIDE DEF i
<1>4. SubSeq(decls, 1, i - 1) \in Seq(Decl)
  BY <1>1, <1>2, <1>3, SubSeqProperties
<1>5. SubSeq(decls, i + 1, Len(decls)) \in Seq(Decl)
  BY <1>1, <1>2, <1>3, SubSeqProperties
<1>6. SubSeq(decls, 1, i - 1) \o SubSeq(decls, i + 1, Len(decls)) \in Seq(Decl)
  BY <1>4, <1>5, ConcatProperties
<1> QED BY <1>6 DEF WithoutDep, i

(* What add records and asks for are ranges.                                   *)
LEMMA RangeTypes ==
  /\ \A v : MinorFloor(v) \in Ranges
  /\ \A arg : ArgRange(arg) \in Ranges
BY DEF MinorFloor, ArgRange, Ranges

(* What is resolved can be locked, and is something.                           *)
LEMMA EntryLocked == Entry \subseteq LockedEntry /\ None \notin Entry
<1>1. Build \subseteq Build0
  BY BuildAssumption DEF Build, Build0
<1>2. Entry \subseteq LockedEntry
  BY <1>1 DEF Entry, LockedEntry
<1> QED BY <1>2, SentinelAssumption

(* An entry cut short keeps its version.                                       *)
LEMMA FrayedType ==
  ASSUME NEW e \in Entry, NEW x \in Frayed(e)
  PROVE  x \in LockedEntry /\ x.version = e.version /\ x # None
<1>1. x \in LockedEntry /\ x.version = e.version
  <2>1. CASE x = e
    BY <2>1, EntryLocked
  <2>2. ASSUME NEW loss \in Losses, x = Fray(e, loss)
        PROVE  x \in LockedEntry /\ x.version = e.version
    <3>1. e \in LockedEntry
      BY EntryLocked
    <3>2. x = [version |-> e.version, build |-> x.build, root |-> x.root,
               via |-> x.via, origin |-> "unknown"]
      BY <2>2 DEF Fray, Entry
    <3>3. x.build \in {0, e.build} /\ x.root \in {TRUE, e.root} /\ x.via \in {None, e.via}
      BY <2>2 DEF Fray, Entry
    <3>4. x.build \in Build0
      BY <3>1, <3>3, BuildAssumption DEF LockedEntry, Build0
    <3>5. x.root \in BOOLEAN
      BY <3>1, <3>3 DEF LockedEntry
    <3>6. x.via \in Coord \cup {None}
      BY <3>1, <3>3 DEF LockedEntry
    <3> QED BY <3>1, <3>2, <3>4, <3>5, <3>6 DEF LockedEntry, Origin
  <2> QED BY <2>1, <2>2 DEF Frayed
<1> QED BY <1>1, SentinelAssumption

(* The roots of a run are edges, the target of add included.                   *)
LEMMA RootEdgesType ==
  ASSUME config \in Seq(Decl), cmd \in Command0, cmd.kind = "add" => cmd.target \in Coord
  PROVE  RootEdges \in Seq(DepEdge)
<1> DEFINE target == [coord |-> cmd.target, range |-> ArgRange(cmd.arg)]
           added == Edges(<<target>>, "root", None)
<1>1. Edges(config, "root", None) \in Seq(DepEdge)
  BY EdgesType
<1>2. ASSUME cmd.kind = "add" PROVE added \in Seq(DepEdge)
  <2>1. target \in Decl
    BY <1>2, RangeTypes DEF Decl
  <2>2. <<target>> \in Seq(Decl)
    BY <2>1
  <2> QED BY <2>2, EdgesType
<1>3. <<>> \in Seq(DepEdge)
  OBVIOUS
<1> HIDE DEF added
<1>4. (IF cmd.kind = "add" /\ cmd.target \notin Declared(config) THEN added ELSE <<>>)
        \in Seq(DepEdge)
  BY <1>2, <1>3
<1> QED BY <1>1, <1>4, ConcatProperties DEF RootEdges, added

(* The engine's edge in front of the dependencies' edges.                      *)
LEMMA EngineInFront ==
  ASSUME NEW s \in Seq(DepEdge)
  PROVE  /\ <<EngineEdge>> \o s \in Seq(Edge)
         /\ <<EngineEdge>> \o s # <<>>
         /\ Head(<<EngineEdge>> \o s) = EngineEdge
         /\ Tail(<<EngineEdge>> \o s) = s
<1>1. EngineEdge \in Edge
  BY CoordAssumption, RangeAssumption DEF EngineEdge, Edge
<1>2. <<EngineEdge>> \in Seq(Edge) /\ s \in Seq(Edge)
  BY <1>1, SeqMonotonic DEF DepEdge
<1> DEFINE t == <<EngineEdge>> \o s
<1> HIDE DEF EngineEdge
<1>3. /\ t \in Seq(Edge) /\ Len(t) = 1 + Len(s) /\ Len(s) \in Nat
      /\ \A i \in 1 .. 1 + Len(s) : t[i] = IF i <= 1 THEN EngineEdge ELSE s[i - 1]
  BY <1>2, ConcatProperties, LenProperties
<1>4. t # <<>> /\ Head(t) = EngineEdge
  BY <1>3
<1>5. /\ Tail(t) \in Seq(Edge) /\ Len(Tail(t)) = Len(s)
      /\ \A i \in 1 .. Len(s) : Tail(t)[i] = s[i]
  BY <1>3, <1>4, HeadTailProperties
<1>6. Tail(t) = s
  BY <1>2, <1>5, SeqEqual
<1> QED BY <1>3, <1>4, <1>6
-----------------------------------------------------------------------------
(* BaseInv is inductive: one lemma per action, or per group of small ones *)

(* Starting a command: only pc and cmd change.                                 *)
LEMMA BeginBase ==
  ASSUME BaseInv, NEW kind \in AllKinds, NEW target \in Coord \cup {None},
         NEW arg \in Version \cup {None}, NEW point \in {"load", "save", "drop"},
         Begin(kind, target, arg, point),
         kind \in {"add", "add-no-sync", "remove", "remove-no-sync"} => target \in Coord,
         point = "save" => kind = "add-no-sync",
         point = "drop" => kind \in {"remove", "remove-no-sync"} /\ config # Torn
                           /\ target \in Declared(config)
  PROVE  BaseInv'
<1> USE DEF BaseInv, Begin, disk, world
<1>1. TypeOK'
  BY DEF TypeOK, Command0, Point, AllPoints
<1>2. Located'
  BY DEF Located, Alive
<1>3. CommandOK'
  BY DEF CommandOK, Resolving, Unpacking, Declared
<1>4. EngineFirst' /\ CurrentIsNew'
  BY DEF EngineFirst, CurrentIsNew, Resolving, Unpacking
<1> QED BY <1>1, <1>2, <1>3, <1>4

(* Any command the user starts keeps the base invariant.                       *)
LEMMA CommandBase == BaseInv /\ Command => BaseInv'
<1> SUFFICES ASSUME BaseInv, Command PROVE BaseInv'
  OBVIOUS
<1>1. CASE Sync
  BY <1>1, BeginBase DEF Sync, AllKinds
<1>2. CASE Add
  BY <1>2, BeginBase DEF Add, AllKinds
<1>3. CASE AddNoSync
  BY <1>3, BeginBase DEF AddNoSync, AllKinds
<1>4. CASE Remove
  <2>1. config \in Seq(Decl)
    BY <1>4 DEF Remove, BaseInv, TypeOK
  <2>2. Declared(config) \subseteq Coord
    BY <2>1, DeclaredType
  <2>3. PICK kind \in {"remove", "remove-no-sync"}, c \in Declared(config) :
          Begin(kind, c, None, "drop")
    BY <1>4 DEF Remove
  <2> QED BY <1>4, <2>2, <2>3, BeginBase DEF Remove, AllKinds
<1> QED BY <1>1, <1>2, <1>3, <1>4 DEF Command

(* Leaving: the run's memory is gone, and the disk is whatever it was.         *)
LEMMA ExitBase ==
  ASSUME BaseInv, Exit, config' \in Seq(Decl) \cup {Torn}, whole' \in BOOLEAN,
         \/ lock' \in {lock, None, Torn}
         \/ lock' \in Lockfile /\ Alive(Engine, lock'.engine.version)
            /\ \A c \in Coord : lock'.deps[c] # None => Alive(c, lock'.deps[c].version),
         UNCHANGED <<cache, world>>
  PROVE  BaseInv'
<1> USE DEF BaseInv, Exit, world
<1>1. TypeOK'
  <2>1. /\ NoEntries \in [Coord -> Entry \cup {None}]
        /\ NoEntries \in [Coord -> LockedEntry \cup {None}]
        /\ NoInstalled \in [Coord -> Version \cup {0}]
    BY DEF NoEntries, NoInstalled
  <2>2. NoCommand \in Command0
    BY DEF NoCommand, Command0
  <2> QED BY <2>1, <2>2, BuildAssumption DEF TypeOK, Point, Build0
<1>2. Located'
  BY DEF Located, Alive, NoEntries, NoInstalled
<1>3. CommandOK'
  BY DEF CommandOK, NoCommand, Resolving, Unpacking
<1>4. EngineFirst' /\ CurrentIsNew'
  BY DEF EngineFirst, CurrentIsNew, Resolving, Unpacking
<1> QED BY <1>1, <1>2, <1>3, <1>4

(* Dying while the lockfile is written leaves none that loads, or one that     *)
(* names published releases.                                                   *)
LEMMA CutLockType ==
  ASSUME BaseInv, pc = "pick", todo = <<>>, CutLock
  PROVE  \/ lock' = Torn
         \/ lock' \in Lockfile /\ Alive(Engine, lock'.engine.version)
            /\ \A c \in Coord : lock'.deps[c] # None => Alive(c, lock'.deps[c].version)
<1>1. engine # None
  BY DEF BaseInv, EngineFirst, Resolving
<1>2. /\ engine \in Entry /\ resolved \in [Coord -> Entry \cup {None}]
      /\ engine \in LockedEntry
  BY <1>1, EntryLocked DEF BaseInv, TypeOK
<1>3. /\ Alive(Engine, engine.version)
      /\ \A c \in Coord : resolved[c] # None => Alive(c, resolved[c].version)
  BY <1>1 DEF BaseInv, Located
<1>4. ASSUME NEW x \in Frayed(engine), lock' = [engine |-> x, deps |-> NoEntries]
      PROVE  lock' \in Lockfile /\ Alive(Engine, lock'.engine.version)
             /\ \A c \in Coord : lock'.deps[c] # None => Alive(c, lock'.deps[c].version)
  <2>1. x \in LockedEntry /\ x.version = engine.version
    BY <1>2, FrayedType
  <2>2. NoEntries \in [Coord -> LockedEntry \cup {None}] /\ \A c \in Coord : NoEntries[c] = None
    BY DEF NoEntries
  <2> QED BY <1>3, <1>4, <2>1, <2>2 DEF Lockfile
<1>5. ASSUME NEW some \in SUBSET {c \in Coord : resolved[c] # None}, NEW end \in some,
             NEW x \in Frayed(resolved[end]),
             lock' = [engine |-> engine,
                      deps |-> [c \in Coord |-> IF c = end THEN x
                                               ELSE IF c \in some THEN resolved[c] ELSE None]]
      PROVE  lock' \in Lockfile /\ Alive(Engine, lock'.engine.version)
             /\ \A c \in Coord : lock'.deps[c] # None => Alive(c, lock'.deps[c].version)
  <2>1. end \in Coord /\ resolved[end] # None /\ resolved[end] \in Entry
    BY <1>2
  <2>2. x \in LockedEntry /\ x.version = resolved[end].version
    BY <2>1, FrayedType
  <2>3. \A c \in Coord : resolved[c] \in LockedEntry \cup {None}
    BY <1>2, EntryLocked
  <2>4. /\ lock'.engine = engine
        /\ \A c \in Coord : lock'.deps[c] = IF c = end THEN x
                                          ELSE IF c \in some THEN resolved[c] ELSE None
    BY <1>5
  <2>5. lock' \in Lockfile
    BY <1>2, <1>5, <2>2, <2>3 DEF Lockfile
  <2>6. \A c \in Coord : lock'.deps[c] # None => Alive(c, lock'.deps[c].version)
    BY <1>3, <2>1, <2>2, <2>4
  <2> QED BY <1>3, <2>4, <2>5, <2>6
<1> QED BY <1>4, <1>5 DEF CutLock

(* DropDep, LoadFails, PickFails, FetchRefused, SaveDep and Crash leave, or    *)
(* change poliglot.yml only.                                                   *)
LEMMA LeaveBase ==
  ASSUME BaseInv, DropDep \/ LoadFails \/ PickFails \/ FetchRefused \/ SaveDep \/ Crash
  PROVE  BaseInv'
<1> USE DEF disk, world
<1>1. CASE DropDep
  <2>1. config' \in Seq(Decl)
    BY <1>1, WithoutDepType DEF DropDep, BaseInv, CommandOK, TypeOK
  <2>2. CASE cmd.kind = "remove"
    <3> USE <1>1, <2>1, <2>2 DEF DropDep, BaseInv, run
    <3>1. TypeOK'
      BY DEF TypeOK, Point, AllPoints
    <3>2. Located'
      BY DEF Located, Alive
    <3>3. CommandOK' /\ EngineFirst' /\ CurrentIsNew'
      BY DEF CommandOK, EngineFirst, CurrentIsNew, Resolving, Unpacking
    <3> QED BY <3>1, <3>2, <3>3
  <2>3. CASE cmd.kind # "remove"
    <3>1. whole' \in BOOLEAN
      BY <1>1 DEF DropDep, BaseInv, TypeOK
    <3> QED BY <1>1, <2>1, <2>3, <3>1, ExitBase DEF DropDep
  <2> QED BY <2>2, <2>3
<1>2. CASE LoadFails \/ PickFails \/ FetchRefused
  BY <1>2, ExitBase DEF LoadFails, PickFails, FetchRefused, BaseInv, TypeOK
<1>3. CASE SaveDep
  <2>1. config \in Seq(Decl) \cup {Torn} /\ cmd.target \in Coord /\ whole \in BOOLEAN
    BY <1>3 DEF SaveDep, BaseInv, CommandOK, TypeOK
  <2>2. SavedRange \in Ranges
    BY RangeTypes DEF SavedRange
  <2>3. config' \in Seq(Decl) \cup {Torn}
    BY <1>3, <2>1, <2>2, WithDepType DEF SaveDep
  <2> QED BY <1>3, <2>1, <2>3, ExitBase DEF SaveDep
<1>4. CASE Crash
  <2>1. config' \in Seq(Decl) \cup {Torn} /\ whole' \in BOOLEAN
    BY <1>4 DEF Crash, BaseInv, TypeOK
  <2>2. CASE UNCHANGED lock
    BY <1>4, <2>1, <2>2, ExitBase DEF Crash
  <2>3. CASE pc = "pick" /\ todo = <<>> /\ CutLock
    BY <1>4, <2>1, <2>3, CutLockType, ExitBase DEF Crash
  <2> QED BY <1>4, <2>2, <2>3 DEF Crash
<1> QED BY <1>1, <1>2, <1>3, <1>4

(* Reading the inputs: the engine's edge, then the roots'.                     *)
LEMMA LoadBase == BaseInv /\ Load => BaseInv'
<1> SUFFICES ASSUME BaseInv, Load PROVE BaseInv'
  OBVIOUS
<1> USE DEF BaseInv, Load, disk, world, Readable
<1>1. config \in Seq(Decl) /\ cmd \in Command0
  BY DEF TypeOK
<1>2. RootEdges \in Seq(DepEdge)
  BY <1>1, RootEdgesType DEF CommandOK
<1>3. /\ todo' \in Seq(Edge) /\ todo' # <<>>
      /\ Head(todo') = EngineEdge /\ Tail(todo') \in Seq(DepEdge)
  BY <1>2, EngineInFront
<1>4. lock # None /\ ~Forced => lock \in Lockfile
  BY DEF TypeOK
<1>5. pins' \in [Coord -> LockedEntry \cup {None}]
  BY <1>4 DEF PinsOf, Lockfile, NoEntries
<1>6. \A c \in Coord : pins'[c] # None => Alive(c, pins'[c].version)
  BY <1>4 DEF PinsOf, NoEntries, Located
<1>7. engine = None /\ resolved = NoEntries
  BY DEF EngineFirst
<1>8. TypeOK'
  BY <1>3, <1>5 DEF TypeOK, Point, AllPoints
<1>9. Located'
  BY <1>6 DEF Located, Alive
<1>10. CommandOK'
  BY <1>1, ConfigAssumption DEF CommandOK, Resolving, Unpacking
<1>11. EngineFirst' /\ CurrentIsNew'
  BY <1>3, <1>7 DEF EngineFirst, CurrentIsNew, Resolving, Unpacking
<1> QED BY <1>8, <1>9, <1>10, <1>11
-----------------------------------------------------------------------------
(* The resolver's steps keep BaseInv *)

(* What the next edge is: the engine's as long as no engine is known, one of a *)
(* dependency afterwards.                                                      *)
LEMMA NextEdge ==
  ASSUME BaseInv, Resolving, todo # <<>>
  PROVE  /\ Head(todo) \in Edge
         /\ Tail(todo) \in Seq(DepEdge)
         /\ IF engine = None THEN Head(todo) = EngineEdge ELSE Head(todo) \in DepEdge
         /\ Head(todo).role = "engine" <=> engine = None
<1>1. todo \in Seq(Edge)
  BY DEF BaseInv, TypeOK
<1>2. Head(todo) \in Edge
  BY <1>1, HeadTailProperties
<1>3. CASE engine = None
  BY <1>2, <1>3 DEF BaseInv, EngineFirst, EngineEdge
<1>4. CASE engine # None
  <2>1. todo \in Seq(DepEdge)
    BY <1>4 DEF BaseInv, EngineFirst
  <2>2. Head(todo) \in DepEdge /\ Tail(todo) \in Seq(DepEdge)
    BY <2>1, HeadTailProperties
  <2> QED BY <1>2, <1>4, <2>2 DEF DepEdge
<1> QED BY <1>3, <1>4

(* Whatever the resolver picks is a published release.                         *)
LEMMA PicksAlive ==
  ASSUME BaseInv, NEW e \in Edge, NEW v \in Version, NEW origin, Picks(e, v, origin)
  PROVE  Alive(e.coord, v)
<1>1. e.coord \in Coord
  BY DEF Edge
<1>2. CASE PinHolds(e)
  BY <1>1, <1>2 DEF Picks, PinHolds, BaseInv, Located
<1>3. CASE ~PinHolds(e) /\ seen[e.coord] # 0
  BY <1>1, <1>3 DEF Picks, BaseInv, Located
<1>4. CASE ~PinHolds(e) /\ seen[e.coord] = 0
  BY <1>4, ReleaseAssumption DEF Picks, Candidates, Alive
<1> QED BY <1>2, <1>3, <1>4

(* Choosing a version leaves the disk alone and remembers a new package.       *)
LEMMA PickNewBase == BaseInv /\ PickNew => BaseInv'
<1> SUFFICES ASSUME BaseInv, PickNew PROVE BaseInv'
  OBVIOUS
<1> USE DEF PickNew, Picking, disk, world
<1> DEFINE e == Head(todo)
<1>1. e \in Edge /\ (e.role = "engine" \/ resolved[e.coord] = None)
  BY NextEdge DEF Resolving
<1>2. PICK v \in Version, origin \in Origin :
        Picks(e, v, origin) /\ cur' = [edge |-> e, version |-> v, origin |-> origin]
  OBVIOUS
<1>3. Alive(e.coord, v)
  BY <1>1, <1>2, PicksAlive
<1> HIDE DEF e
<1>5. cur' \in Current
  BY <1>1, <1>2 DEF Current
<1>6. cur'.edge = e /\ cur'.version = v
  BY <1>2
<1>7. TypeOK'
  BY <1>5 DEF BaseInv, TypeOK, Point, AllPoints
<1>8. Located'
  BY <1>3, <1>6 DEF BaseInv, Located, Alive
<1>9. CommandOK'
  BY DEF BaseInv, CommandOK, Resolving, Unpacking
<1>10. EngineFirst'
  BY DEF BaseInv, EngineFirst, Resolving, Unpacking
<1>11. cur' # None
  BY <1>5, SentinelAssumption
<1>12. CurrentIsNew'
  BY <1>1, <1>6, <1>11 DEF CurrentIsNew, e
<1> QED BY <1>7, <1>8, <1>9, <1>10, <1>12 DEF BaseInv

(* A transitive that becomes a root keeps its version and content.             *)
LEMMA PickAgainBase == BaseInv /\ PickAgain => BaseInv'
<1> SUFFICES ASSUME BaseInv, PickAgain PROVE BaseInv'
  OBVIOUS
<1> USE DEF PickAgain, Picking, disk, world
<1> DEFINE e == Head(todo)
           old == resolved[e.coord]
           new == [old EXCEPT !.root = TRUE, !.via = None, !.origin = "unknown"]
<1>1. e \in Edge /\ engine # None /\ todo' \in Seq(DepEdge)
  BY NextEdge DEF Resolving
<1>2. e.coord \in Coord /\ old # None
  BY <1>1 DEF Edge
<1>3. old \in Entry
  BY <1>2 DEF BaseInv, TypeOK
<1>4. new \in Entry /\ new.version = old.version
  BY <1>3 DEF Entry, Origin
<1>5. resolved' = resolved \/ resolved' = [resolved EXCEPT ![e.coord] = new]
  OBVIOUS
<1> HIDE DEF e, new, old
<1>6. resolved' \in [Coord -> Entry \cup {None}]
  BY <1>2, <1>4, <1>5 DEF BaseInv, TypeOK
<1>7. \A c \in Coord : resolved'[c] # None =>
        resolved[c] # None /\ resolved'[c].version = resolved[c].version
  BY <1>2, <1>4, <1>5 DEF BaseInv, TypeOK, old
<1>8. TypeOK'
  <2>1. todo' \in Seq(Edge)
    BY <1>1, SeqMonotonic DEF DepEdge
  <2> QED BY <1>6, <2>1 DEF BaseInv, TypeOK
<1>9. Located'
  BY <1>7 DEF BaseInv, Located, Alive
<1>10. CommandOK'
  BY DEF BaseInv, CommandOK, Resolving, Unpacking
<1>11. EngineFirst' /\ CurrentIsNew'
  BY <1>1 DEF EngineFirst, CurrentIsNew, Resolving, Unpacking
<1> QED BY <1>8, <1>9, <1>10, <1>11 DEF BaseInv

(* Steps of _materialize that only move pc, the archive or the directory.      *)
LEMMA UnpackBase ==
  ASSUME BaseInv, Unpacking, pc' \in {"materialize", "clear", "fetch", "extract"},
         cache' \in [Releases -> [File -> Build0]], archive' \in Build0,
         UNCHANGED <<config, lock, whole, world, cmd, pins, seen, todo, cur, engine, resolved>>
  PROVE  BaseInv'
<1> USE DEF BaseInv, Unpacking, world
<1>1. TypeOK'
  BY DEF TypeOK, Point, AllPoints
<1>2. Located'
  BY DEF Located, Alive
<1>3. CommandOK'
  BY DEF CommandOK, Resolving
<1>4. EngineFirst' /\ CurrentIsNew'
  BY DEF EngineFirst, CurrentIsNew, Resolving
<1> QED BY <1>1, <1>2, <1>3, <1>4

(* Where the package being unpacked lives, and what it is.                     *)
LEMMA CurType ==
  ASSUME BaseInv, Unpacking
  PROVE  /\ cur \in Current /\ cur.edge \in Edge /\ cur.edge = Head(todo)
         /\ cur.edge.coord \in Coord /\ cur.version \in Version /\ cur.origin \in Origin
         /\ <<cur.edge.coord, cur.version>> \in Releases
         /\ CurDir \in [File -> Build0]
         /\ Served \in Build
<1>1. cur \in Current /\ Alive(cur.edge.coord, cur.version) /\ cur.edge = Head(todo)
  BY DEF BaseInv, TypeOK, CurrentIsNew, Located
<1>2. <<cur.edge.coord, cur.version>> \in Releases /\ Served # 0
  BY <1>1 DEF Alive, Served
<1>3. cur.edge \in Edge /\ cur.edge.coord \in Coord
      /\ cur.version \in Version /\ cur.origin \in Origin
  BY <1>1 DEF Current, Edge
<1>4. CurDir \in [File -> Build0] /\ Served \in Build0
  BY <1>2 DEF BaseInv, TypeOK, CurDir, Served
<1>5. Served \in Build
  BY <1>2, <1>4, BuildAssumption DEF Build, Build0
<1> QED BY <1>1, <1>2, <1>3, <1>4, <1>5

(* Writing or deleting a file of the directory leaves a cache of directories.  *)
LEMMA PutFileType ==
  ASSUME BaseInv, Unpacking, NEW f \in File, NEW b \in Build0, PutFile(f, b)
  PROVE  cache' \in [Releases -> [File -> Build0]]
<1> DEFINE dir == [CurDir EXCEPT ![f] = b]
<1>1. dir \in [File -> Build0]
  BY CurType
<1>2. cache' = [cache EXCEPT ![<<cur.edge.coord, cur.version>>] = dir]
  BY DEF PutFile
<1> HIDE DEF dir
<1> QED BY <1>1, <1>2 DEF BaseInv, TypeOK

(* The dependencies of an unpacked package are edges.                          *)
LEMMA DepsOnDiskType ==
  ASSUME BaseInv, NEW c \in Coord, NEW v \in Version, <<c, v>> \in Releases
  PROVE  DepsOnDisk(c, v) \in Seq(Decl)
<1> DEFINE b == cache[c, v]["config"]
<1>1. b \in Build0
  BY DEF BaseInv, TypeOK, File
<1>2. DepsOnDisk(c, v) = IF b = 0 THEN <<>> ELSE Manifest[c, v, b]
  BY DEF DepsOnDisk
<1> HIDE DEF b
<1>3. b # 0 => b \in Build
  BY <1>1, BuildAssumption DEF Build, Build0
<1>4. b # 0 => Manifest[c, v, b] \in Seq(Decl)
  BY <1>3, ManifestAssumption
<1>5. <<>> \in Seq(Decl)
  OBVIOUS
<1>6. CASE b = 0
  BY <1>2, <1>5, <1>6
<1>7. CASE b # 0
  BY <1>2, <1>4, <1>7
<1> QED BY <1>6, <1>7

(* Recording a package whose directory carries marker b.                       *)
LEMMA RecordBase ==
  ASSUME BaseInv, Unpacking, NEW b \in Build, Record(b),
         cache' \in [Releases -> [File -> Build0]],
         UNCHANGED <<config, lock, whole, world, cmd, pins, seen>>
  PROVE  BaseInv'
<1> USE DEF Unpacking, world
<1> DEFINE e == cur.edge
           entry == [version |-> cur.version, build |-> b, root |-> e.role # "transitive",
                     via |-> e.via, origin |-> cur.origin]
           deps == Edges(DepsOnDisk(e.coord, cur.version), "transitive", e.coord)
<1>1. /\ e \in Edge /\ e = Head(todo) /\ e.coord \in Coord
      /\ cur.version \in Version /\ cur.origin \in Origin
      /\ Alive(e.coord, cur.version)
  BY CurType DEF BaseInv, Located, Alive, CurrentIsNew
<1>2. entry \in Entry /\ entry.version = cur.version
  BY <1>1 DEF Entry, Edge
<1>3. entry # None
  BY <1>2, EntryLocked
<1>4. /\ Tail(todo) \in Seq(DepEdge)
      /\ e.role = "engine" <=> engine = None
      /\ e.role = "engine" => e = EngineEdge
  BY <1>1, NextEdge DEF Resolving, BaseInv, CurrentIsNew
<1>5. deps \in Seq(DepEdge)
  BY <1>1, DepsOnDiskType, EdgesType DEF Alive
<1>6. deps \o Tail(todo) \in Seq(DepEdge)
  BY <1>4, <1>5, ConcatProperties
<1>7. /\ cur' = None /\ archive' = 0 /\ pc' = "pick"
      /\ \/ /\ e.role = "engine" /\ engine' = entry
            /\ todo' = Tail(todo) /\ resolved' = resolved
         \/ /\ e.role # "engine" /\ engine' = engine
            /\ todo' = deps \o Tail(todo) /\ resolved' = [resolved EXCEPT ![e.coord] = entry]
  BY DEF Record
<1> HIDE DEF entry, deps, e
<1>8. todo' \in Seq(DepEdge) /\ engine' # None
  BY <1>3, <1>4, <1>6, <1>7
<1>9. TypeOK'
  <2>1. todo' \in Seq(Edge)
    BY <1>8, SeqMonotonic DEF DepEdge
  <2>2. resolved' \in [Coord -> Entry \cup {None}] /\ engine' \in Entry \cup {None}
    BY <1>1, <1>2, <1>7 DEF BaseInv, TypeOK
  <2> QED BY <1>7, <2>1, <2>2, BuildAssumption DEF BaseInv, TypeOK, Point, AllPoints, Build0
<1>10. Located'
  <2>1. engine' # None => Alive(Engine, engine'.version)
    BY <1>1, <1>2, <1>4, <1>7 DEF BaseInv, Located, EngineEdge
  <2>2. \A c \in Coord : resolved'[c] # None => Alive(c, resolved'[c].version)
    BY <1>1, <1>2, <1>7 DEF BaseInv, Located, TypeOK
  <2> QED BY <1>7, <2>1, <2>2 DEF BaseInv, Located, Alive
<1>11. CommandOK'
  BY <1>7 DEF BaseInv, CommandOK, Resolving
<1>12. EngineFirst' /\ CurrentIsNew'
  BY <1>7, <1>8 DEF EngineFirst, CurrentIsNew, Resolving
<1> QED BY <1>9, <1>10, <1>11, <1>12 DEF BaseInv

(* The whole of _materialize.                                                  *)
LEMMA MaterializeBase ==
  ASSUME BaseInv, DirectoryOK,
         UseCached \/ Refetch \/ ClearFile \/ Cleared \/ Fetch \/ ExtractFile \/ WriteMarker
  PROVE  BaseInv'
<1> USE DEF disk, world, run
<1>1. cache \in [Releases -> [File -> Build0]] /\ archive \in Build0
  BY DEF BaseInv, TypeOK
<1>2. 0 \in Build0
  BY BuildAssumption DEF Build0
<1>3. CASE UseCached
  <2>1. Unpacking /\ CurDir["marker"] # 0 /\ Record(CurDir["marker"])
    BY <1>3 DEF UseCached, Unpacking
  <2>2. CurDir["marker"] \in Build
    BY <2>1, CurType, BuildAssumption DEF File, Build, Build0
  <2>3. cache' = cache /\ UNCHANGED <<config, lock, whole, world, cmd, pins, seen>>
    BY <1>3 DEF UseCached
  <2> QED BY <1>1, <2>1, <2>2, <2>3, RecordBase
<1>4. CASE Refetch
  BY <1>1, <1>4, UnpackBase DEF Refetch, Unpacking
<1>5. CASE ClearFile
  <2>1. cache' \in [Releases -> [File -> Build0]]
    BY <1>2, <1>5, PutFileType DEF ClearFile, Unpacking
  <2> QED BY <1>1, <1>5, <2>1, UnpackBase DEF ClearFile, Unpacking
<1>6. CASE Cleared
  BY <1>1, <1>6, UnpackBase DEF Cleared, Unpacking
<1>7. CASE Fetch
  <2>1. archive' \in Build0
    BY <1>7, CurType, BuildAssumption DEF Fetch, Unpacking, Build, Build0
  <2> QED BY <1>1, <1>7, <2>1, UnpackBase DEF Fetch, Unpacking
<1>8. CASE ExtractFile
  <2>1. Members \subseteq File
    BY DEF Members, ArchiveFiles, File
  <2>2. cache' \in [Releases -> [File -> Build0]]
    BY <1>1, <1>8, <2>1, PutFileType DEF ExtractFile, Unpacking
  <2> QED BY <1>1, <1>8, <2>2, UnpackBase DEF ExtractFile, Unpacking
<1>9. CASE WriteMarker
  <2>1. cache' \in [Releases -> [File -> Build0]]
    BY <1>1, <1>9, PutFileType DEF WriteMarker, Unpacking, File
  <2>2. archive \in Build
    BY <1>9 DEF WriteMarker, DirectoryOK
  <2> QED BY <1>9, <2>1, <2>2, RecordBase DEF WriteMarker, Unpacking
<1> QED BY <1>3, <1>4, <1>5, <1>6, <1>7, <1>8, <1>9

(* Writing the lockfile: it names published releases.                          *)
LEMMA WriteLockBase == BaseInv /\ WriteLock => BaseInv'
<1> SUFFICES ASSUME BaseInv, WriteLock PROVE BaseInv'
  OBVIOUS
<1> USE DEF WriteLock, world
<1>1. engine # None /\ config # Torn
  BY DEF BaseInv, EngineFirst, CommandOK, Resolving
<1>2. engine \in Entry /\ resolved \in [Coord -> Entry \cup {None}]
  BY <1>1 DEF BaseInv, TypeOK
<1>3. lock' \in Lockfile /\ lock'.engine = engine /\ lock'.deps = resolved
  BY <1>2, EntryLocked DEF Lockfile
<1>4. /\ Alive(Engine, lock'.engine.version)
      /\ \A c \in Coord : lock'.deps[c] # None => Alive(c, lock'.deps[c].version)
  BY <1>1, <1>3 DEF BaseInv, Located
<1>5. CASE cmd.kind = "add"
  <2> USE <1>5 DEF run
  <2>1. TypeOK'
    BY <1>3 DEF BaseInv, TypeOK, Point, AllPoints
  <2>2. Located'
    BY <1>4 DEF BaseInv, Located, Alive
  <2>3. CommandOK'
    BY <1>1 DEF BaseInv, CommandOK, Resolving, Unpacking
  <2>4. EngineFirst' /\ CurrentIsNew'
    BY DEF EngineFirst, CurrentIsNew, Resolving, Unpacking
  <2> QED BY <2>1, <2>2, <2>3, <2>4 DEF BaseInv
<1>6. CASE cmd.kind # "add"
  BY <1>3, <1>4, <1>6, ExitBase DEF BaseInv, TypeOK
<1> QED BY <1>5, <1>6

(* Publishing, workspace changes, edits and deletions by the user: what was a  *)
(* published release still is one.                                             *)
LEMMA WorldBase == BaseInv /\ World => BaseInv'
<1> SUFFICES ASSUME BaseInv, World PROVE BaseInv'
  OBVIOUS
<1> USE DEF disk, run
<1>1. ASSUME UNCHANGED <<config, pc, run>>, TypeOK', Located' PROVE BaseInv'
  <2>1. CommandOK'
    BY <1>1 DEF BaseInv, CommandOK, Resolving, Unpacking
  <2>2. EngineFirst' /\ CurrentIsNew'
    BY <1>1 DEF BaseInv, EngineFirst, CurrentIsNew, Resolving, Unpacking
  <2> QED BY <1>1, <2>1, <2>2 DEF BaseInv
<1>2. ASSUME NEW cv \in Releases, Publish(cv) PROVE BaseInv'
  <2> USE <1>2 DEF Publish
  <2>1. registry[cv] \in Build0 /\ Contents[cv] \in Build
    BY ReleaseAssumption DEF BaseInv, TypeOK
  <2>2. registry[cv] + 1 \in Build0 /\ registry[cv] + 1 # 0
    BY <2>1, BuildAssumption DEF Build, Build0
  <2>3. registry' \in [Releases -> Build0]
    BY <2>2 DEF BaseInv, TypeOK
  <2>4. TypeOK'
    BY <2>3 DEF BaseInv, TypeOK
  <2>5. \A c, v : Alive(c, v) => Alive(c, v)'
    BY <2>2 DEF Alive, BaseInv, TypeOK
  <2>6. Located'
    BY <2>5 DEF BaseInv, Located
  <2> QED BY <1>1, <2>4, <2>6
<1>3. ASSUME NEW c \in Coord, ChangeWorkspace(c) PROVE BaseInv'
  <2> USE <1>3 DEF ChangeWorkspace
  <2>1. PICK v \in {0} \cup {w \in Version : Alive(c, w)} :
          installed' = [installed EXCEPT ![c] = v]
    BY DEF Alive
  <2>2. TypeOK'
    BY <2>1 DEF BaseInv, TypeOK
  <2>3. \A d \in Coord : installed'[d] # 0 => Alive(d, installed'[d])
    BY <2>1 DEF BaseInv, Located, TypeOK
  <2>4. Located'
    BY <2>3 DEF BaseInv, Located, Alive
  <2> QED BY <1>1, <2>2, <2>4
<1>4. CASE EditConfig
  <2> USE <1>4 DEF EditConfig, world
  <2>1. TypeOK'
    BY ConfigAssumption DEF BaseInv, TypeOK
  <2>2. Located'
    BY DEF BaseInv, Located, Alive
  <2>3. CommandOK'
    BY DEF BaseInv, CommandOK, Resolving, Unpacking
  <2>4. EngineFirst' /\ CurrentIsNew'
    BY DEF BaseInv, EngineFirst, CurrentIsNew, Resolving, Unpacking
  <2> QED BY <2>1, <2>2, <2>3, <2>4 DEF BaseInv
<1>5. CASE DeleteLock
  <2> USE <1>5 DEF DeleteLock, world
  <2>1. TypeOK' /\ Located'
    BY DEF BaseInv, TypeOK, Located, Alive
  <2> QED BY <1>1, <2>1
<1>6. CASE CleanCache
  <2> USE <1>6 DEF CleanCache, world
  <2>1. EmptyDir \in [File -> Build0]
    BY BuildAssumption DEF EmptyDir, Build0
  <2>2. TypeOK'
    BY <2>1 DEF BaseInv, TypeOK
  <2>3. Located'
    BY DEF BaseInv, Located, Alive
  <2> QED BY <1>1, <2>2, <2>3
<1> QED BY <1>2, <1>3, <1>4, <1>5, <1>6 DEF World
-----------------------------------------------------------------------------
(* What the inductive invariant says of the cache *)

(* The run starts, ends, reads or resolves: it is not inside a directory       *)
(* afterwards.                                                                 *)
Outside == Command \/ DropDep \/ Load \/ LoadFails \/ PickNew \/ PickAgain \/ PickFails
           \/ FetchRefused \/ WriteLock \/ SaveDep

LEMMA OutsideFacts ==
  ASSUME Outside
  PROVE  /\ cache' = cache
         /\ pc # "clear"
         /\ pc' \notin {"clear", "fetch", "extract"}
<1> USE DEF Outside, disk, world
<1>1. CASE Command
  BY <1>1 DEF Command, Sync, Add, AddNoSync, Remove, Begin
<1>2. CASE DropDep \/ Load \/ LoadFails \/ SaveDep
  BY <1>2 DEF DropDep, Load, LoadFails, SaveDep, Exit
<1>3. CASE PickNew \/ PickAgain \/ PickFails
  BY <1>3 DEF PickNew, PickAgain, PickFails, Picking, Exit
<1>4. CASE FetchRefused \/ WriteLock
  BY <1>4 DEF FetchRefused, WriteLock, Exit
<1> QED BY <1>1, <1>2, <1>3, <1>4

(* The world moves the cache only when no command runs.                        *)
LEMMA WorldFacts ==
  ASSUME World \/ UNCHANGED vars
  PROVE  /\ UNCHANGED <<pc, run>>
         /\ cache' = cache \/ (pc = "idle" /\ cache' = [cv \in Releases |-> EmptyDir])
<1>1. CASE \E cv \in Releases : Publish(cv)
  BY <1>1 DEF Publish, disk
<1>2. CASE \E c \in Coord : ChangeWorkspace(c)
  BY <1>2 DEF ChangeWorkspace, disk
<1>3. CASE EditConfig \/ DeleteLock
  BY <1>3 DEF EditConfig, DeleteLock
<1>4. CASE CleanCache
  BY <1>4 DEF CleanCache
<1>5. CASE UNCHANGED vars
  BY <1>5 DEF vars, disk
<1> QED BY <1>1, <1>2, <1>3, <1>4, <1>5 DEF World

(* One file of the directory changes, and no other directory.                  *)
LEMMA PutFileFacts ==
  ASSUME BaseInv, Unpacking, NEW f \in File, NEW b, PutFile(f, b)
  PROVE  /\ cache'[cur.edge.coord, cur.version] = [CurDir EXCEPT ![f] = b]
         /\ \A c, v : <<c, v>> \in Releases /\ <<c, v>> # <<cur.edge.coord, cur.version>>
                      => cache'[c, v] = cache[c, v]
<1> DEFINE here == <<cur.edge.coord, cur.version>>
           dir == [CurDir EXCEPT ![f] = b]
<1>1. here \in Releases /\ cache \in [Releases -> [File -> Build0]]
  BY CurType DEF BaseInv, TypeOK
<1>2. cache' = [cache EXCEPT ![here] = dir]
  BY DEF PutFile
<1>3. here = <<cur.edge.coord, cur.version>>
  OBVIOUS
<1> HIDE DEF dir, here
<1>4. cache'[here] = dir /\ \A cv \in Releases : cv # here => cache'[cv] = cache[cv]
  BY <1>1, <1>2
<1> QED BY <1>3, <1>4 DEF dir

(* A step keeps what the run knows of the directory it works in.               *)
LEMMA DirectoryStep == DiskInv /\ [Next]_vars => DirectoryOK'
<1> SUFFICES ASSUME DiskInv, [Next]_vars PROVE DirectoryOK'
  OBVIOUS
<1> USE DEF DiskInv, disk, world, run
<1>1. CASE Outside
  BY <1>1, OutsideFacts DEF DirectoryOK
<1>2. CASE World \/ UNCHANGED vars
  BY <1>2, WorldFacts DEF DirectoryOK, CurDir, Forced
<1>3. CASE UseCached
  BY <1>3 DEF UseCached, Record, DirectoryOK
<1>4. CASE Refetch
  BY <1>4 DEF Refetch, DirectoryOK, CurDir, Forced
<1>5. CASE ClearFile
  <2>1. PICK f \in File : PutFile(f, 0)
    BY <1>5 DEF ClearFile
  <2>2. Unpacking /\ pc' = "clear" /\ cur' = cur /\ cmd' = cmd
    BY <1>5 DEF ClearFile, Unpacking
  <2>3. CurDir' = [CurDir EXCEPT ![f] = 0]
    BY <2>1, <2>2, PutFileFacts DEF CurDir
  <2>4. CurDir \in [File -> Build0] /\ "marker" \in File
    BY <2>2, CurType DEF File
  <2>5. CurDir["marker"] = 0 => CurDir'["marker"] = 0
    BY <2>3, <2>4
  <2> QED BY <1>5, <2>2, <2>5 DEF ClearFile, DirectoryOK, Forced
<1>6. CASE Cleared
  BY <1>6 DEF Cleared, DirectoryOK, CurDir
<1>7. CASE Fetch
  <2>1. Served \in Build /\ CurDir = EmptyDir
    BY <1>7, CurType DEF Fetch, Unpacking, DirectoryOK
  <2>2. pc' = "extract" /\ archive' = Served /\ CurDir' = CurDir
    BY <1>7 DEF Fetch, CurDir
  <2> QED BY <2>1, <2>2 DEF DirectoryOK, EmptyDir, File
<1>8. CASE ExtractFile
  <2>1. PICK f \in Members : PutFile(f, archive)
    BY <1>8 DEF ExtractFile
  <2>2. /\ Unpacking /\ pc = "extract" /\ pc' = "extract"
        /\ cur' = cur /\ archive' = archive
    BY <1>8 DEF ExtractFile, Unpacking
  <2>3. f \in File /\ f # "marker"
    BY DEF Members, ArchiveFiles, File
  <2>4. CurDir' = [CurDir EXCEPT ![f] = archive]
    BY <2>1, <2>2, <2>3, PutFileFacts DEF CurDir
  <2>5. CurDir \in [File -> Build0] /\ "marker" \in File
    BY <2>2, CurType DEF File
  <2>6. CurDir'["marker"] = CurDir["marker"]
        /\ \A g \in File : CurDir'[g] \in {archive, CurDir[g]}
    BY <2>3, <2>4, <2>5
  <2> QED BY <2>2, <2>6 DEF DirectoryOK
<1>9. CASE WriteMarker
  BY <1>9 DEF WriteMarker, Record, DirectoryOK
<1>10. CASE Crash
  BY <1>10 DEF Crash, Exit, DirectoryOK
<1> QED BY <1>1, <1>2, <1>3, <1>4, <1>5, <1>6, <1>7, <1>8, <1>9, <1>10
        DEF Next, Step, Outside

(* A step that leaves the cache alone keeps the meaning of markers, unless it  *)
(* walks away from a directory that it is deleting.                            *)
LEMMA MarkerKept ==
  ASSUME MarkerMeansComplete, cache' = cache,
         pc = "clear" => (pc' = "clear" /\ cur' = cur) \/ CurDir["marker"] = 0
  PROVE  MarkerMeansComplete'
BY DEF MarkerMeansComplete, Complete, Clearing, CurDir

(* WriteMarker completes the directory: its members were all there.            *)
LEMMA MarkerCompletes ==
  ASSUME DiskInv, WriteMarker
  PROVE  \A f \in ArchiveFiles(cur.edge.coord, cur.version) \cup {"marker"} :
           cache'[cur.edge.coord, cur.version][f] = archive
<1>1. /\ Unpacking /\ pc = "extract"
      /\ PutFile("marker", archive) /\ \A f \in Members : CurDir[f] # 0
  BY DEF WriteMarker, Unpacking
<1>2. cache'[cur.edge.coord, cur.version] = [CurDir EXCEPT !["marker"] = archive]
  BY <1>1, PutFileFacts DEF DiskInv, File
<1>3. CurDir \in [File -> Build0]
  BY <1>1, CurType DEF DiskInv
<1>4. \A f \in Members : f \in File /\ CurDir[f] = archive
  BY <1>1 DEF DiskInv, DirectoryOK, Members, ArchiveFiles, File
<1>5. "marker" \in File
  BY DEF File
<1> QED BY <1>2, <1>3, <1>4, <1>5 DEF Members

(* Only a forced run deletes a marked directory, and the premise of trusted    *)
(* markers is that it does not die while deleting.                             *)
LEMMA MarkerStep == DiskInv /\ [Next]_vars => MarkerMeansComplete'
<1> SUFFICES ASSUME DiskInv, [Next]_vars PROVE MarkerMeansComplete'
  OBVIOUS
<1> USE DEF DiskInv
<1>1. CASE Outside
  BY <1>1, OutsideFacts, MarkerKept
<1>2. CASE World \/ UNCHANGED vars
  <2>1. CASE cache' = cache
    BY <1>2, <2>1, WorldFacts, MarkerKept DEF run
  <2>2. CASE cache' = [cv \in Releases |-> EmptyDir]
    BY <2>2 DEF MarkerMeansComplete, EmptyDir, File
  <2> QED BY <1>2, <2>1, <2>2, WorldFacts
<1>3. CASE UseCached \/ Refetch \/ Fetch
  BY <1>3, MarkerKept DEF UseCached, Refetch, Fetch, disk
<1>4. CASE Cleared
  <2>1. CurDir["marker"] = 0
    BY <1>4 DEF Cleared, EmptyDir, File
  <2> QED BY <1>4, <2>1, MarkerKept DEF Cleared, disk
<1>5. CASE ClearFile \/ ExtractFile
  <2>1. PICK f \in File, b \in Build0 : PutFile(f, b) /\ (pc = "extract" => f # "marker")
    BY <1>5, BuildAssumption
       DEF ClearFile, ExtractFile, Members, ArchiveFiles, File, Build0, BaseInv, TypeOK
  <2>2. Unpacking /\ UNCHANGED <<pc, cur>> /\ pc \in {"clear", "extract"}
    BY <1>5 DEF ClearFile, ExtractFile, Unpacking, run
  <2>3. /\ cache'[cur.edge.coord, cur.version] = [CurDir EXCEPT ![f] = b]
        /\ \A c, v : <<c, v>> \in Releases /\ <<c, v>> # <<cur.edge.coord, cur.version>>
                       => cache'[c, v] = cache[c, v]
    BY <2>1, <2>2, PutFileFacts
  <2>4. pc = "extract" => cache'[cur.edge.coord, cur.version]["marker"] = 0
    BY <2>1, <2>2, <2>3, CurType DEF DirectoryOK, File
  <2>5. SUFFICES ASSUME MarkersTrusted, NEW c \in Coord, NEW v \in Version,
                        <<c, v>> \in Releases, cache'[c, v]["marker"] # 0, ~Clearing(c, v)'
                 PROVE  Complete(c, v, cache[c, v]["marker"])'
    BY DEF MarkerMeansComplete, MarkersTrusted
  <2>6. <<c, v>> # <<cur.edge.coord, cur.version>>
    BY <2>2, <2>4, <2>5 DEF Clearing
  <2>7. cache'[c, v] = cache[c, v] /\ ~Clearing(c, v)
    BY <2>2, <2>3, <2>5, <2>6 DEF Clearing
  <2> QED BY <2>5, <2>7 DEF MarkerMeansComplete, Complete
<1>6. CASE WriteMarker
  <2>1. /\ Unpacking /\ pc' # "clear" /\ pc = "extract" /\ PutFile("marker", archive)
    BY <1>6 DEF WriteMarker, Record, Unpacking
  <2>2. archive \in Build0
    BY DEF BaseInv, TypeOK
  <2>3. \A c, v : <<c, v>> \in Releases /\ <<c, v>> # <<cur.edge.coord, cur.version>>
                    => cache'[c, v] = cache[c, v]
    BY <2>1, <2>2, PutFileFacts DEF File
  <2>4. \A f \in ArchiveFiles(cur.edge.coord, cur.version) \cup {"marker"} :
          cache'[cur.edge.coord, cur.version][f] = archive
    BY <1>6, MarkerCompletes
  <2> QED BY <2>1, <2>3, <2>4 DEF MarkerMeansComplete, Complete, Clearing
<1>7. CASE Crash
  <2>1. cache' = cache /\ pc \in CrashPoints /\ (pc = "clear" => CurDir["marker"] = 0 \/ Forced)
    BY <1>7 DEF Crash, DirectoryOK
  <2>2. CASE pc = "clear" => CurDir["marker"] = 0
    BY <2>1, <2>2, MarkerKept
  <2>3. CASE pc = "clear" /\ Forced
    <3>1. "update" \in Kinds /\ "clear" \in CrashPoints
      BY <2>1, <2>3 DEF BaseInv, CommandOK, Forced
    <3> QED BY <3>1 DEF MarkerMeansComplete, MarkersTrusted
  <2> QED BY <2>1, <2>2, <2>3
<1> QED BY <1>1, <1>2, <1>3, <1>4, <1>5, <1>6, <1>7 DEF Next, Step, Outside

(* The package being unpacked is not recorded yet, the engine's coordinate     *)
(* included.                                                                   *)
LEMMA CurFresh ==
  ASSUME BaseInv, Unpacking
  PROVE  resolved[cur.edge.coord] = None
<1>1. cur.edge.coord \in Coord /\ cur.edge = Head(todo) /\ todo # <<>>
      /\ (cur.edge.role = "engine" \/ resolved[cur.edge.coord] = None)
  BY CurType DEF BaseInv, CurrentIsNew
<1>2. cur.edge.role = "engine" => engine = None
  BY <1>1, NextEdge DEF Resolving
<1>3. engine = None => resolved = NoEntries
  BY DEF BaseInv, EngineFirst, Resolving
<1> QED BY <1>1, <1>2, <1>3 DEF NoEntries

(* Recording changes at most the entry of the package being unpacked.          *)
LEMMA RecordFacts ==
  ASSUME BaseInv, Unpacking, NEW b, Record(b), NEW c \in Coord, resolved'[c] # None
  PROVE  \/ resolved'[c] = resolved[c]
         \/ /\ c = cur.edge.coord
            /\ resolved'[c].version = cur.version /\ resolved'[c].build = b
<1> DEFINE entry == [version |-> cur.version, build |-> b, root |-> cur.edge.role # "transitive",
                     via |-> cur.edge.via, origin |-> cur.origin]
<1>1. resolved' = resolved \/ resolved' = [resolved EXCEPT ![cur.edge.coord] = entry]
  BY DEF Record
<1>2. entry.version = cur.version /\ entry.build = b
  OBVIOUS
<1> HIDE DEF entry
<1>3. cur.edge.coord \in Coord /\ resolved \in [Coord -> Entry \cup {None}]
  BY CurType DEF BaseInv, TypeOK
<1>4. CASE c = cur.edge.coord
  BY <1>1, <1>2, <1>3, <1>4
<1>5. CASE c # cur.edge.coord
  BY <1>1, <1>3, <1>5
<1> QED BY <1>4, <1>5

(* A step that neither records nor touches a directory keeps what is recorded  *)
(* installed.                                                                  *)
LEMMA InstalledKept ==
  ASSUME ResolvedIsInstalled, cache' = cache, Forced' => Forced \/ resolved' = NoEntries,
         \A c \in Coord : resolved'[c] # None =>
           /\ resolved[c] # None
           /\ resolved'[c].version = resolved[c].version
           /\ resolved'[c].build = resolved[c].build
  PROVE  ResolvedIsInstalled'
BY DEF ResolvedIsInstalled, Complete, MarkersTrusted, NoEntries

(* What a run has recorded stays whole in the cache to its end.                *)
LEMMA InstalledStep == DiskInv /\ [Next]_vars => ResolvedIsInstalled'
<1> SUFFICES ASSUME DiskInv, [Next]_vars PROVE ResolvedIsInstalled'
  OBVIOUS
<1> USE DEF DiskInv
<1>1. ASSUME resolved' = NoEntries PROVE ResolvedIsInstalled'
  BY <1>1 DEF ResolvedIsInstalled, NoEntries
<1>2. ASSUME UNCHANGED <<cmd, resolved, cache>> PROVE ResolvedIsInstalled'
  BY <1>2, InstalledKept DEF Forced
<1>3. CASE Command
  <2>1. pc = "idle" /\ resolved' = resolved
    BY <1>3 DEF Command, Sync, Add, AddNoSync, Remove, Begin
  <2>2. resolved' = NoEntries
    BY <2>1 DEF BaseInv, EngineFirst
  <2> QED BY <1>1, <2>2
<1>4. CASE DropDep \/ LoadFails \/ PickFails \/ FetchRefused \/ SaveDep \/ Crash
  <2>1. CASE resolved' = NoEntries
    BY <1>1, <2>1
  <2>2. CASE resolved' # NoEntries
    BY <1>2, <1>4, <2>2 DEF DropDep, LoadFails, PickFails, FetchRefused, SaveDep, Crash, Exit, run
  <2> QED BY <2>1, <2>2
<1>5. CASE Load \/ PickNew \/ Refetch \/ Cleared \/ Fetch
  BY <1>2, <1>5 DEF Load, PickNew, Refetch, Cleared, Fetch, disk, run
<1>6. CASE PickAgain
  <2>1. cache' = cache /\ cmd' = cmd
    BY <1>6 DEF PickAgain, disk
  <2>2. Head(todo).coord \in Coord /\ resolved[Head(todo).coord] \in Entry
    <3>1. Head(todo) \in Edge /\ resolved[Head(todo).coord] # None
      BY <1>6, NextEdge DEF PickAgain, Picking, Resolving
    <3>2. Head(todo).coord \in Coord
      BY <3>1 DEF Edge
    <3> QED BY <3>1, <3>2 DEF BaseInv, TypeOK
  <2>3. \A c \in Coord : resolved'[c] # None =>
          /\ resolved[c] # None
          /\ resolved'[c].version = resolved[c].version
          /\ resolved'[c].build = resolved[c].build
    BY <1>6, <2>2 DEF PickAgain, BaseInv, TypeOK, Entry
  <2> QED BY <2>1, <2>3, InstalledKept DEF Forced
<1>7. CASE UseCached
  <2> DEFINE b == CurDir["marker"]
  <2>1. /\ Unpacking /\ ~Forced /\ b # 0 /\ Record(b) /\ ~Clearing(cur.edge.coord, cur.version)
        /\ cache' = cache /\ cmd' = cmd
    BY <1>7 DEF UseCached, Unpacking, Clearing, disk
  <2>2. /\ cur.edge.coord \in Coord /\ cur.version \in Version
        /\ <<cur.edge.coord, cur.version>> \in Releases
    BY <2>1, CurType
  <2>3. MarkersTrusted => Complete(cur.edge.coord, cur.version, b)
    BY <2>1, <2>2 DEF MarkerMeansComplete, CurDir
  <2> HIDE DEF b
  <2>4. \A c \in Coord : resolved'[c] # None =>
          \/ resolved'[c] = resolved[c]
          \/ c = cur.edge.coord /\ resolved'[c].version = cur.version /\ resolved'[c].build = b
    BY <2>1, RecordFacts
  <2>5. SUFFICES ASSUME MarkersTrusted, NEW c \in Coord, resolved'[c] # None
                 PROVE  Complete(c, resolved'[c].version, resolved'[c].build)
    BY <2>1 DEF ResolvedIsInstalled, Complete, MarkersTrusted, Forced
  <2>6. CASE resolved'[c] = resolved[c]
    BY <2>5, <2>6 DEF ResolvedIsInstalled
  <2>7. CASE resolved'[c] # resolved[c]
    BY <2>3, <2>4, <2>5, <2>7
  <2> QED BY <2>6, <2>7
<1>8. CASE ClearFile \/ ExtractFile
  <2>1. PICK f \in File, b \in Build0 : PutFile(f, b)
    BY <1>8, BuildAssumption
       DEF ClearFile, ExtractFile, Members, ArchiveFiles, File, Build0, BaseInv, TypeOK
  <2>2. Unpacking /\ UNCHANGED <<cmd, resolved>>
    BY <1>8 DEF ClearFile, ExtractFile, Unpacking, run
  <2>3. \A c, v : <<c, v>> \in Releases /\ <<c, v>> # <<cur.edge.coord, cur.version>>
                    => cache'[c, v] = cache[c, v]
    BY <2>1, <2>2, PutFileFacts
  <2>4. \A c \in Coord : resolved[c] # None =>
          c # cur.edge.coord /\ <<c, resolved[c].version>> \in Releases
    BY <2>2, CurFresh DEF BaseInv, Located, Alive
  <2>5. SUFFICES ASSUME MarkersTrusted \/ Forced, NEW c \in Coord, resolved[c] # None
                 PROVE  Complete(c, resolved[c].version, resolved[c].build)'
    BY <2>2 DEF ResolvedIsInstalled, MarkersTrusted, Forced
  <2>6. cache'[c, resolved[c].version] = cache[c, resolved[c].version]
    BY <2>3, <2>4, <2>5
  <2>7. Complete(c, resolved[c].version, resolved[c].build)
    BY <2>5 DEF ResolvedIsInstalled
  <2> QED BY <2>2, <2>6, <2>7 DEF Complete
<1>9. CASE WriteMarker
  <2>1. Unpacking /\ PutFile("marker", archive) /\ Record(archive) /\ cmd' = cmd
    BY <1>9 DEF WriteMarker, Unpacking
  <2>2. \A c, v : <<c, v>> \in Releases /\ <<c, v>> # <<cur.edge.coord, cur.version>>
                    => cache'[c, v] = cache[c, v]
    BY <2>1, PutFileFacts DEF File
  <2>3. \A f \in ArchiveFiles(cur.edge.coord, cur.version) \cup {"marker"} :
          cache'[cur.edge.coord, cur.version][f] = archive
    BY <1>9, MarkerCompletes
  <2>4. \A c \in Coord : resolved[c] # None =>
          c # cur.edge.coord /\ <<c, resolved[c].version>> \in Releases
    BY <2>1, CurFresh DEF BaseInv, Located, Alive
  <2>5. \A c \in Coord : resolved'[c] # None =>
          \/ resolved'[c] = resolved[c]
          \/ /\ c = cur.edge.coord
             /\ resolved'[c].version = cur.version /\ resolved'[c].build = archive
    BY <2>1, RecordFacts
  <2>6. SUFFICES ASSUME MarkersTrusted \/ Forced, NEW c \in Coord, resolved'[c] # None
                 PROVE  Complete(c, resolved[c].version, resolved[c].build)'
    BY <2>1 DEF ResolvedIsInstalled, MarkersTrusted, Forced
  <2>7. CASE resolved'[c] = resolved[c]
    <3>1. <<c, resolved[c].version>> \in Releases /\ c # cur.edge.coord
      BY <2>4, <2>6, <2>7
    <3>2. cache'[c, resolved[c].version] = cache[c, resolved[c].version]
      BY <2>2, <3>1
    <3>3. Complete(c, resolved[c].version, resolved[c].build)
      BY <2>6, <2>7 DEF ResolvedIsInstalled
    <3> QED BY <2>7, <3>2, <3>3 DEF Complete
  <2>8. CASE resolved'[c] # resolved[c]
    BY <2>3, <2>5, <2>6, <2>8 DEF Complete
  <2> QED BY <2>7, <2>8
<1>10. CASE WriteLock
  <2>1. CASE resolved' = NoEntries
    BY <1>1, <2>1
  <2>2. CASE resolved' # NoEntries
    BY <1>2, <1>10, <2>2 DEF WriteLock, Exit, run
  <2> QED BY <2>1, <2>2
<1>11. CASE World \/ UNCHANGED vars
  <2>1. UNCHANGED <<pc, cmd, resolved>>
    BY <1>11, WorldFacts DEF run
  <2>2. CASE cache' = cache
    BY <1>2, <2>1, <2>2
  <2>3. CASE cache' # cache
    BY <1>1, <1>11, <2>1, <2>3, WorldFacts DEF BaseInv, EngineFirst
  <2> QED BY <2>2, <2>3
<1> QED BY <1>3, <1>4, <1>5, <1>6, <1>7, <1>8, <1>9, <1>10, <1>11 DEF Next, Step
-----------------------------------------------------------------------------
(* The theorems *)

(* The first state.                                                            *)
LEMMA InitInv == Init => DiskInv
<1> SUFFICES ASSUME Init PROVE DiskInv
  OBVIOUS
<1> USE DEF Init
<1>1. TypeOK
  <2>1. /\ NoEntries \in [Coord -> Entry \cup {None}]
        /\ NoEntries \in [Coord -> LockedEntry \cup {None}]
        /\ NoInstalled \in [Coord -> Version \cup {0}]
    BY DEF NoEntries, NoInstalled
  <2>2. NoCommand \in Command0
    BY DEF NoCommand, Command0
  <2>3. config \in Seq(Decl)
    BY ConfigAssumption
  <2>4. cache \in [Releases -> [File -> Build0]] /\ registry \in [Releases -> Build0]
    BY BuildAssumption DEF EmptyDir, Build0
  <2> QED BY <2>1, <2>2, <2>3, <2>4, BuildAssumption DEF TypeOK, Point, Build0
<1>2. Located
  BY DEF Located, Alive, NoEntries, NoInstalled
<1>3. CommandOK /\ EngineFirst /\ CurrentIsNew /\ DirectoryOK
  BY DEF CommandOK, EngineFirst, CurrentIsNew, DirectoryOK, NoCommand, Resolving, Unpacking
<1>4. MarkerMeansComplete
  BY DEF MarkerMeansComplete, EmptyDir, File
<1>5. ResolvedIsInstalled
  BY DEF ResolvedIsInstalled, NoEntries
<1> QED BY <1>1, <1>2, <1>3, <1>4, <1>5 DEF DiskInv, BaseInv

(* One step, whichever it is.                                                  *)
LEMMA StepInv == DiskInv /\ [Next]_vars => DiskInv'
<1> SUFFICES ASSUME DiskInv, [Next]_vars PROVE DiskInv'
  OBVIOUS
<1>1. BaseInv'
  <2> USE DEF DiskInv
  <2>1. CASE Command
    BY <2>1, CommandBase
  <2>2. CASE DropDep \/ LoadFails \/ PickFails \/ FetchRefused \/ SaveDep \/ Crash
    BY <2>2, LeaveBase
  <2>3. CASE Load \/ PickNew \/ PickAgain \/ WriteLock
    BY <2>3, LoadBase, PickNewBase, PickAgainBase, WriteLockBase
  <2>4. CASE UseCached \/ Refetch \/ ClearFile \/ Cleared \/ Fetch \/ ExtractFile \/ WriteMarker
    BY <2>4, MaterializeBase
  <2>5. CASE World
    BY <2>5, WorldBase
  <2>6. CASE UNCHANGED vars
    <3> USE <2>6 DEF vars, disk, world, run
    <3>1. TypeOK' /\ Located'
      BY DEF BaseInv, TypeOK, Located, Alive
    <3>2. CommandOK' /\ EngineFirst' /\ CurrentIsNew'
      BY DEF BaseInv, CommandOK, EngineFirst, CurrentIsNew, Resolving, Unpacking
    <3> QED BY <3>1, <3>2 DEF BaseInv
  <2> QED BY <2>1, <2>2, <2>3, <2>4, <2>5, <2>6 DEF Next, Step
<1>2. DirectoryOK' /\ MarkerMeansComplete' /\ ResolvedIsInstalled'
  BY DirectoryStep, MarkerStep, InstalledStep
<1> QED BY <1>1, <1>2 DEF DiskInv

(* The disk invariant holds in every reachable state, for every registry,      *)
(* project, mode, set of commands and set of crash points.                     *)
THEOREM DiskInvariant == Spec => []DiskInv
BY InitInv, StepInv, PTL DEF Spec

(* Type correctness.                                                           *)
THEOREM TypeCorrect == Spec => []TypeOK
<1>1. DiskInv => TypeOK
  BY DEF DiskInv, BaseInv
<1> QED BY <1>1, DiskInvariant, PTL

(* Where no forced run can die while deleting, a marker in the cache always    *)
(* stands for a completely unpacked package.                                   *)
THEOREM MarkersAreSound == Spec => []MarkerMeansComplete
<1>1. DiskInv => MarkerMeansComplete
  BY DEF DiskInv
<1> QED BY <1>1, DiskInvariant, PTL

(* What a run has resolved is whole in the cache, and stays so while it        *)
(* resolves the rest; of a forced run this holds whatever died before it.      *)
THEOREM RunsInstall == Spec => []ResolvedIsInstalled
<1>1. DiskInv => ResolvedIsInstalled
  BY DEF DiskInv
<1> QED BY <1>1, DiskInvariant, PTL

(* Every lockfile that is written names packages that are whole in the cache,  *)
(* with the checksum it records.                                               *)
THEOREM LocksInstalled == Spec => LockNamesInstalled
<1> DEFINE Names ==
      Written /\ (MarkersTrusted \/ Forced) =>
        \A c \in Coord : lock'.deps[c] # None =>
          \A f \in ArchiveFiles(c, lock'.deps[c].version) \cup {"marker"} :
            cache'[c, lock'.deps[c].version][f] = lock'.deps[c].build
<1>1. ASSUME DiskInv, [Next]_vars, Written, MarkersTrusted \/ Forced PROVE WriteLock
  <2> USE <1>1 DEF Written, disk, world, run
  <2>1. CASE Command
    BY <2>1 DEF Command, Sync, Add, AddNoSync, Remove, Begin
  <2>2. CASE DropDep \/ LoadFails \/ PickFails \/ FetchRefused \/ SaveDep \/ Crash
    BY <2>2 DEF DropDep, LoadFails, PickFails, FetchRefused, SaveDep, Crash
  <2>3. CASE Load \/ PickNew \/ PickAgain
    BY <2>3 DEF Load, PickNew, PickAgain
  <2>4. CASE UseCached \/ Refetch \/ ClearFile \/ Cleared \/ Fetch \/ ExtractFile \/ WriteMarker
    BY <2>4 DEF UseCached, Refetch, ClearFile, Cleared, Fetch, ExtractFile, WriteMarker
  <2>5. CASE World
    BY <2>5 DEF World, Publish, ChangeWorkspace, EditConfig, DeleteLock, CleanCache
  <2>6. CASE UNCHANGED vars
    BY <2>6 DEF vars
  <2> QED BY <2>1, <2>2, <2>3, <2>4, <2>5, <2>6 DEF Next, Step
<1>2. DiskInv /\ [Next]_vars => Names
  <2> SUFFICES ASSUME DiskInv, [Next]_vars, Written, MarkersTrusted \/ Forced,
                      NEW c \in Coord, lock'.deps[c] # None
               PROVE  \A f \in ArchiveFiles(c, lock'.deps[c].version) \cup {"marker"} :
                        cache'[c, lock'.deps[c].version][f] = lock'.deps[c].build
    OBVIOUS
  <2>1. lock'.deps = resolved /\ cache' = cache
    <3>1. WriteLock
      BY <1>1
    <3>2. lock' = [engine |-> engine, deps |-> resolved] /\ cache' = cache
      BY <3>1 DEF WriteLock
    <3> QED BY <3>2
  <2>2. Complete(c, resolved[c].version, resolved[c].build)
    BY <2>1 DEF DiskInv, ResolvedIsInstalled
  <2> QED BY <2>1, <2>2 DEF Complete
<1>3. DiskInv /\ [Next]_vars => [Names]_vars
  BY <1>2
<1> QED BY <1>3, DiskInvariant, PTL DEF Spec, LockNamesInstalled
-----------------------------------------------------------------------------
(* Every command ends: its distance *)

(* The order of distances by their first difference.                           *)
LEMMA NearerAt ==
  ASSUME NEW a, NEW b, NEW c, NEW d, NEW e,
         NEW p, NEW q, NEW r, NEW s, NEW t,
         \/ a < p
         \/ a = p /\ b < q
         \/ a = p /\ b = q /\ c < r
         \/ a = p /\ b = q /\ c = r /\ d < s
         \/ a = p /\ b = q /\ c = r /\ d = s /\ e < t
  PROVE  Nearer(<<a, b, c, d, e>>, <<p, q, r, s, t>>)
<1> DEFINE m == <<a, b, c, d, e>>
           n == <<p, q, r, s, t>>
<1>1. /\ m[1] = a /\ m[2] = b /\ m[3] = c /\ m[4] = d /\ m[5] = e
      /\ n[1] = p /\ n[2] = q /\ n[3] = r /\ n[4] = s /\ n[5] = t
  OBVIOUS
<1> HIDE DEF m, n
<1>2. \E i \in 1 .. 5 : m[i] < n[i] /\ \A j \in 1 .. i - 1 : m[j] = n[j]
  <2>1. CASE a < p
    <3>1. m[1] < n[1] /\ \A j \in 1 .. 1 - 1 : m[j] = n[j]
      BY <1>1, <2>1
    <3> QED BY <3>1
  <2>2. CASE a = p /\ b < q
    <3>1. m[2] < n[2] /\ \A j \in 1 .. 2 - 1 : m[j] = n[j]
      BY <1>1, <2>2
    <3> QED BY <3>1
  <2>3. CASE a = p /\ b = q /\ c < r
    <3>1. m[3] < n[3] /\ \A j \in 1 .. 3 - 1 : m[j] = n[j]
      BY <1>1, <2>3
    <3> QED BY <3>1
  <2>4. CASE a = p /\ b = q /\ c = r /\ d < s
    <3>1. m[4] < n[4] /\ \A j \in 1 .. 4 - 1 : m[j] = n[j]
      BY <1>1, <2>4
    <3> QED BY <3>1
  <2>5. CASE a = p /\ b = q /\ c = r /\ d = s /\ e < t
    <3>1. m[5] < n[5] /\ \A j \in 1 .. 5 - 1 : m[j] = n[j]
      BY <1>1, <2>5
    <3> QED BY <3>1
  <2> QED BY <2>1, <2>2, <2>3, <2>4, <2>5
<1> QED BY <1>2 DEF Nearer, m, n

(* A package directory has finitely many files.                                *)
LEMMA FilesFinite == IsFiniteSet(Present) /\ IsFiniteSet(Absent)
<1>1. IsFiniteSet({"body"}) /\ IsFiniteSet({"config", "body"}) /\ IsFiniteSet(File)
  <2>1. IsFiniteSet({"body"})
    BY FS_Singleton
  <2>2. IsFiniteSet({"body"} \cup {"config"})
    BY <2>1, FS_AddElement
  <2>3. IsFiniteSet({"body"} \cup {"config"} \cup {"marker"})
    BY <2>2, FS_AddElement
  <2>4. {"config", "body"} = {"body"} \cup {"config"}
        /\ File = {"body"} \cup {"config"} \cup {"marker"}
    BY DEF File
  <2> QED BY <2>1, <2>2, <2>3, <2>4
<1>2. IsFiniteSet(Members)
  BY <1>1 DEF Members, ArchiveFiles
<1>3. Present \subseteq File /\ Absent \subseteq Members
  BY DEF Present, Absent
<1> QED BY <1>1, <1>2, <1>3, FS_Subset

(* A distance consists of numbers.                                             *)
LEMMA DistanceType ==
  ASSUME IsFiniteSet(Coord), TypeOK
  PROVE  /\ Part \in 0 .. 4 /\ Unrecorded \in Nat /\ Len(todo) \in Nat
         /\ Stage \in 1 .. 5 /\ FilesLeft \in Nat
<1>1. IsFiniteSet(Missing)
  <2>1. Missing \subseteq Coord
    BY DEF Missing
  <2> QED BY <2>1, FS_Subset
<1>2. Cardinality(Missing) \in Nat /\ Cardinality(Present) \in Nat /\ Cardinality(Absent) \in Nat
  BY <1>1, FilesFinite, FS_CardinalityType
<1>3. Unrecorded \in Nat
  BY <1>2 DEF Unrecorded
<1>4. FilesLeft \in Nat
  BY <1>2 DEF FilesLeft
<1>5. Part \in 0 .. 4
  BY DEF Part
<1>6. Stage \in 1 .. 5
  BY DEF Stage
<1>7. Len(todo) \in Nat
  BY LenProperties DEF TypeOK
<1> QED BY <1>3, <1>4, <1>5, <1>6, <1>7

(* Recording a package, or the engine, leaves one less to record.              *)
LEMMA RecordNearer ==
  ASSUME IsFiniteSet(Coord), BaseInv, Unpacking, NEW b \in Build, Record(b)
  PROVE  Unrecorded' < Unrecorded
<1> DEFINE e == cur.edge
           entry == [version |-> cur.version, build |-> b, root |-> e.role # "transitive",
                     via |-> e.via, origin |-> cur.origin]
<1>1. entry # None
  <2>1. entry \in Entry
    <3>1. cur.edge \in Edge /\ cur.version \in Version /\ cur.origin \in Origin
      BY CurType
    <3> QED BY <3>1 DEF Entry, Edge
  <2> QED BY <2>1, EntryLocked
<1>2. IsFiniteSet(Missing) /\ Cardinality(Missing) \in Nat
  <2>1. Missing \subseteq Coord
    BY DEF Missing
  <2> QED BY <2>1, FS_Subset, FS_CardinalityType
<1>3. CASE e.role = "engine"
  <2>1. engine' = entry /\ resolved' = resolved
    BY <1>3 DEF Record
  <2>2. engine = None
    <3> SUFFICES ASSUME engine # None PROVE FALSE
      OBVIOUS
    <3>1. todo \in Seq(DepEdge) /\ todo # <<>> /\ cur.edge = Head(todo)
      BY DEF BaseInv, EngineFirst, CurrentIsNew, Resolving
    <3>2. Head(todo) \in DepEdge
      BY <3>1, HeadTailProperties
    <3> QED BY <3>1, <3>2, <1>3 DEF DepEdge
  <2>3. Missing' = Missing
    BY <2>1 DEF Missing
  <2> HIDE DEF entry
  <2> QED BY <1>1, <1>2, <2>1, <2>2, <2>3 DEF Unrecorded
<1>4. CASE e.role # "engine"
  <2>1. resolved' = [resolved EXCEPT ![e.coord] = entry] /\ engine' = engine
    BY <1>4 DEF Record
  <2>2. resolved[e.coord] = None /\ e.coord \in Coord
    BY <1>4, CurType DEF BaseInv, CurrentIsNew
  <2>3. resolved \in [Coord -> Entry \cup {None}]
    BY DEF BaseInv, TypeOK
  <2> HIDE DEF entry, e
  <2>4. Missing' = Missing \ {e.coord} /\ e.coord \in Missing
    BY <1>1, <2>1, <2>2, <2>3 DEF Missing
  <2>5. Cardinality(Missing') = Cardinality(Missing) - 1
    BY <1>2, <2>4, FS_RemoveElement
  <2> QED BY <1>2, <2>1, <2>5 DEF Unrecorded
<1> QED BY <1>3, <1>4

(* Deleting a file leaves one less to delete.                                  *)
LEMMA ClearNearer ==
  ASSUME BaseInv, ClearFile
  PROVE  Cardinality(Present') < Cardinality(Present)
<1>1. PICK f \in File : CurDir[f] # 0 /\ PutFile(f, 0)
  BY DEF ClearFile
<1>2. cur' = cur /\ Unpacking
  BY DEF ClearFile, run, Unpacking
<1>3. CurDir' = [CurDir EXCEPT ![f] = 0] /\ CurDir \in [File -> Build0]
  <2>1. /\ <<cur.edge.coord, cur.version>> \in Releases /\ CurDir \in [File -> Build0]
    BY <1>2, CurType
  <2>2. cache' = [cache EXCEPT ![<<cur.edge.coord, cur.version>>] = [CurDir EXCEPT ![f] = 0]]
    BY <1>1 DEF PutFile
  <2>3. DOMAIN cache = Releases
    BY DEF BaseInv, TypeOK
  <2>4. CurDir' = cache'[<<cur.edge.coord, cur.version>>]
    BY <1>2 DEF CurDir
  <2> QED BY <2>1, <2>2, <2>3, <2>4
<1>4. Present' = Present \ {f} /\ f \in Present
  BY <1>1, <1>3 DEF Present
<1>5. Cardinality(Present') = Cardinality(Present) - 1 /\ Cardinality(Present) \in Nat
  BY <1>4, FilesFinite, FS_RemoveElement, FS_CardinalityType
<1> QED BY <1>5

(* Unpacking one leaves one less to unpack.                                    *)
LEMMA ExtractNearer ==
  ASSUME DiskInv, ExtractFile
  PROVE  Cardinality(Absent') < Cardinality(Absent)
<1>1. PICK f \in Members : CurDir[f] = 0 /\ PutFile(f, archive)
  BY DEF ExtractFile
<1>2. cur' = cur /\ Unpacking /\ archive \in Build
  BY DEF ExtractFile, run, Unpacking, DiskInv, DirectoryOK
<1>3. f \in File /\ Members \subseteq File /\ Members' = Members /\ archive # 0
  BY <1>1, <1>2, BuildAssumption DEF Members, ArchiveFiles, File, Build
<1>4. CurDir' = [CurDir EXCEPT ![f] = archive] /\ CurDir \in [File -> Build0]
  <2>1. /\ <<cur.edge.coord, cur.version>> \in Releases /\ CurDir \in [File -> Build0]
    BY <1>2, CurType DEF DiskInv
  <2>2. cache' = [cache EXCEPT ![<<cur.edge.coord, cur.version>>] = [CurDir EXCEPT ![f] = archive]]
    BY <1>1 DEF PutFile
  <2>3. DOMAIN cache = Releases
    BY DEF DiskInv, BaseInv, TypeOK
  <2>4. CurDir' = cache'[<<cur.edge.coord, cur.version>>]
    BY <1>2 DEF CurDir
  <2> QED BY <2>1, <2>2, <2>3, <2>4
<1>5. Absent' = Absent \ {f} /\ f \in Absent
  BY <1>1, <1>3, <1>4 DEF Absent
<1>6. Cardinality(Absent') = Cardinality(Absent) - 1 /\ Cardinality(Absent) \in Nat
  BY <1>5, FilesFinite, FS_RemoveElement, FS_CardinalityType
<1> QED BY <1>6

(* Whatever a running command does brings it nearer its end.                   *)
LEMMA StepNearer ==
  ASSUME IsFiniteSet(Coord), DiskInv, DiskInv', Step \/ Crash
  PROVE  Nearer(Distance', Distance)
<1> USE DEF DiskInv
<1>1. CASE DropDep \/ LoadFails \/ PickFails \/ FetchRefused \/ SaveDep \/ Crash \/ Load \/ WriteLock
  <2>1. Part' < Part
    <3>1. CASE DropDep
      BY <3>1 DEF DropDep, Exit, Part, Resolving, Unpacking
    <3>2. CASE LoadFails \/ Load
      BY <3>2 DEF LoadFails, Load, Exit, Part, Resolving, Unpacking
    <3>3. CASE PickFails \/ FetchRefused
      BY <3>3 DEF PickFails, Picking, FetchRefused, Exit, Part, Resolving, Unpacking
    <3>4. CASE SaveDep
      BY <3>4 DEF SaveDep, Exit, Part, Resolving, Unpacking
    <3>5. CASE WriteLock
      BY <3>5 DEF WriteLock, Exit, Part, Resolving, Unpacking
    <3>6. CASE Crash
      BY <3>6, ModeAssumption DEF Crash, Exit, Part, Resolving, Unpacking, AllPoints
    <3> QED BY <1>1, <3>1, <3>2, <3>3, <3>4, <3>5, <3>6
  <2> QED BY <2>1, NearerAt DEF Distance
<1>2. CASE PickNew
  <2>1. /\ pc = "pick" /\ pc' = "materialize"
        /\ resolved' = resolved /\ engine' = engine /\ todo' = todo
    BY <1>2 DEF PickNew, Picking
  <2>2. Part' = Part /\ Stage' < Stage
    BY <2>1 DEF Part, Stage, Resolving, Unpacking
  <2>3. Unrecorded' = Unrecorded
    BY <2>1 DEF Unrecorded, Missing
  <2> QED BY <2>1, <2>2, <2>3, NearerAt DEF Distance
<1>3. CASE PickAgain
  <2>1. /\ todo # <<>> /\ todo' = Tail(todo) /\ pc' = pc /\ engine' = engine
        /\ todo \in Seq(Edge)
    BY <1>3 DEF PickAgain, Picking, BaseInv, TypeOK
  <2>2. Part' = Part
    BY <2>1 DEF Part, Resolving, Unpacking
  <2>3. Missing' = Missing
    <3> DEFINE e == Head(todo)
               old == resolved[e.coord]
               root == [old EXCEPT !.root = TRUE, !.via = None, !.origin = "unknown"]
    <3>1. /\ old # None /\ e \in Edge /\ resolved \in [Coord -> Entry \cup {None}]
          /\ resolved' = resolved \/ resolved' = [resolved EXCEPT ![e.coord] = root]
      <4>1. e \in Edge
        BY <2>1, HeadTailProperties
      <4> QED BY <4>1, <1>3 DEF PickAgain, BaseInv, TypeOK
    <3>2. root # None
      <4>1. e.coord \in Coord
        BY <3>1 DEF Edge
      <4>2. old \in Entry
        BY <3>1, <4>1
      <4>3. root \in Entry
        BY <4>2 DEF Entry, Origin
      <4> QED BY <4>3, EntryLocked
    <3> HIDE DEF root
    <3>3. e.coord \in Coord
      BY <3>1 DEF Edge
    <3> HIDE DEF e
    <3> QED BY <3>1, <3>2, <3>3 DEF Missing
  <2>4. Unrecorded' = Unrecorded
    BY <2>1, <2>3 DEF Unrecorded
  <2>5. Len(Tail(todo)) = Len(todo) - 1 /\ Len(todo) \in Nat
    BY <2>1, HeadTailProperties, LenProperties
  <2>6. Len(todo)' < Len(todo)
    BY <2>1, <2>5
  <2> QED BY <2>2, <2>4, <2>6, NearerAt DEF Distance
<1>4. CASE UseCached \/ WriteMarker
  <2>1. Unpacking /\ pc' = "pick" /\ \E b \in Build : Record(b)
    <3>1. CASE UseCached
      <4>1. pc = "materialize" /\ CurDir["marker"] # 0 /\ Record(CurDir["marker"])
        BY <3>1 DEF UseCached
      <4>2. CurDir["marker"] \in Build
        <5>1. CurDir \in [File -> Build0]
          BY <4>1, CurType DEF Unpacking
        <5> QED BY <4>1, <5>1, BuildAssumption DEF File, Build, Build0
      <4> QED BY <4>1, <4>2 DEF Record, Unpacking
    <3>2. CASE WriteMarker
      <4>1. pc = "extract" /\ Record(archive)
        BY <3>2 DEF WriteMarker
      <4>2. archive \in Build
        BY <4>1 DEF DirectoryOK
      <4> QED BY <4>1, <4>2 DEF Record, Unpacking
    <3> QED BY <1>4, <3>1, <3>2
  <2>2. Part' = Part
    BY <2>1 DEF Part, Resolving, Unpacking
  <2>3. Unrecorded' < Unrecorded
    BY <2>1, RecordNearer
  <2> QED BY <2>2, <2>3, NearerAt DEF Distance
<1>5. CASE Refetch \/ Cleared \/ Fetch
  <2>1. /\ <<pc, pc'>> \in {<<"materialize", "clear">>, <<"clear", "fetch">>, <<"fetch", "extract">>}
        /\ resolved' = resolved /\ engine' = engine /\ todo' = todo
    BY <1>5 DEF Refetch, Cleared, Fetch, run
  <2>2. Part' = Part /\ Stage' < Stage
    BY <2>1 DEF Part, Stage, Resolving, Unpacking
  <2>3. Unrecorded' = Unrecorded
    BY <2>1 DEF Unrecorded, Missing
  <2> QED BY <2>1, <2>2, <2>3, NearerAt DEF Distance
<1>6. CASE ClearFile \/ ExtractFile
  <2>1. /\ pc' = pc /\ resolved' = resolved /\ engine' = engine /\ todo' = todo
    BY <1>6 DEF ClearFile, ExtractFile, run
  <2>2. Part' = Part /\ Stage' = Stage
    BY <2>1 DEF Part, Stage, Resolving, Unpacking
  <2>3. Unrecorded' = Unrecorded
    BY <2>1 DEF Unrecorded, Missing
  <2>4. FilesLeft' < FilesLeft
    <3>1. CASE ClearFile
      <4>1. pc = "clear" /\ pc' = "clear"
        BY <2>1, <3>1 DEF ClearFile
      <4> QED BY <3>1, <4>1, ClearNearer DEF FilesLeft
    <3>2. CASE ExtractFile
      <4>1. pc = "extract" /\ pc' = "extract"
        BY <2>1, <3>2 DEF ExtractFile
      <4> QED BY <3>2, <4>1, ExtractNearer DEF FilesLeft
    <3> QED BY <1>6, <3>1, <3>2
  <2> QED BY <2>1, <2>2, <2>3, <2>4, NearerAt DEF Distance
<1> QED BY <1>1, <1>2, <1>3, <1>4, <1>5, <1>6 DEF Step

(* What others do while it runs changes nothing of what it has left to do.     *)
LEMMA OthersKeepDistance ==
  ASSUME [Next]_vars, pc # "idle", ~(Step \/ Crash)
  PROVE  Distance' = Distance
<1>1. UNCHANGED <<cache, pc, run>>
  <2>1. CASE Command
    BY <2>1 DEF Command, Sync, Add, AddNoSync, Remove, Begin
  <2>2. CASE World
    BY <2>2 DEF World, Publish, ChangeWorkspace, EditConfig, DeleteLock, CleanCache, disk
  <2>3. CASE UNCHANGED vars
    BY <2>3 DEF vars, disk
  <2> QED BY <2>1, <2>2, <2>3 DEF Next
<1>2. Part' = Part /\ Stage' = Stage
  BY <1>1 DEF Part, Stage, Resolving, Unpacking
<1>3. Unrecorded' = Unrecorded /\ Len(todo)' = Len(todo)
  BY <1>1 DEF Unrecorded, Missing, run
<1>4. Present' = Present /\ Absent' = Absent
  BY <1>1 DEF Present, Absent, Members, CurDir, run
<1>5. FilesLeft' = FilesLeft
  BY <1>1, <1>4 DEF FilesLeft
<1> QED BY <1>2, <1>3, <1>5 DEF Distance

(* No command runs forever: whatever the registry declares, cycles included,   *)
(* and however the disk was left, each step of a run brings it nearer its end  *)
(* in an order that has no infinite descent, and nothing others do takes it    *)
(* back.  A run is about finitely many packages.                               *)
THEOREM CommandsDescend ==
  ASSUME IsFiniteSet(Coord)
  PROVE  Spec => RunsDescend
<1> DEFINE Numbers == \A i \in 1 .. 5 : Distance[i] \in Nat
           Descends == /\ Step \/ Crash => Nearer(Distance', Distance)
                       /\ pc # "idle" /\ ~(Step \/ Crash) => Distance' = Distance
<1>1. DiskInv => Numbers
  <2> SUFFICES ASSUME DiskInv PROVE Numbers
    OBVIOUS
  <2>1. /\ Part \in Nat /\ Unrecorded \in Nat /\ Len(todo) \in Nat
        /\ Stage \in Nat /\ FilesLeft \in Nat
    BY DistanceType DEF DiskInv, BaseInv
  <2> QED BY <2>1 DEF Distance
<1>2. DiskInv /\ DiskInv' /\ [Next]_vars => [Descends]_vars
  BY StepNearer, OthersKeepDistance
<1> QED BY <1>1, <1>2, DiskInvariant, PTL DEF Spec, RunsDescend
=============================================================================
