---------------------------- MODULE LockContract ----------------------------
(***************************************************************************)
(* What the lockfile promises to those who read it (`plgt validate`, the   *)
(* language server, CI): it is absent, truncated by a run that died while  *)
(* writing it, or a snapshot.  A snapshot is replaced as a whole and is    *)
(* closed under the dependencies of the packages it locks.                 *)
(***************************************************************************)
CONSTANTS Coord, Manifest, Carries, Lockfile, None, Torn

VARIABLE lock

\* The content locked for c declares a dependency on d.
Needs(l, c, d) ==
  LET deps == Manifest[c, l.deps[c].version, l.deps[c].build]
  IN  \E i \in DOMAIN deps : deps[i].coord = d

Locked(l, c) == l.deps[c] # None

\* Every dependency that a locked package's poliglot.yml declares is locked.
Closed(l) ==
  \A c, d \in Coord :
    Locked(l, c) /\ <<c, l.deps[c].version>> \in Carries /\ Needs(l, c, d) => Locked(l, d)

\* A transitive entry names as `via` a locked package that declares it; a root
\* entry names none.
Labelled(l) ==
  \A c \in Coord : Locked(l, c) =>
    LET via == l.deps[c].via
    IN  IF l.deps[c].root THEN via = None
        ELSE via \in Coord /\ Locked(l, via) /\ Needs(l, via, c)

Snapshot(l) == l \in Lockfile /\ Closed(l) /\ Labelled(l)

Init == lock = None

Replace == lock' \notin {None, Torn} /\ Snapshot(lock')
Tear    == lock' = Torn
Delete  == lock # None /\ lock' = None

Next == Replace \/ Tear \/ Delete

Spec == Init /\ [][Next]_lock
=============================================================================
