---------------------------- MODULE MC_DepsSync ----------------------------
(* Small projects for TLC: os is the engine, a and b two packages. *)
EXTENDS DepsSyncInv, TLC

At(c, r) == [coord |-> c, range |-> r]

MCCoord == {"os", "a", "b"}
MCVersion == {1, 2}
MCMajorOf == [v \in MCVersion |-> 1]
MCReleases == {<<"os", 1>>, <<"a", 1>>, <<"a", 2>>, <<"b", 1>>, <<"b", 2>>}
MCPublished == {<<"os", 1>>, <<"a", 1>>, <<"b", 1>>}

MCContents == [cv \in MCReleases |-> IF cv = <<"a", 1>> THEN 2 ELSE 1]

\* a needs b and b needs a: a cycle, and b becomes a root after a transitive.
MCManifest ==
  [x \in MCCoord \X MCVersion \X Build |->
     CASE x[1] = "a" /\ x[2] = 1 -> <<At("b", {1, 2})>>
       [] x[1] = "a" /\ x[2] = 2 -> <<At("b", {2})>>
       [] x[1] = "b" -> <<At("a", {1, 2})>>
       [] OTHER -> <<>>]

MCConfigs == { <<At("a", {1, 2})>>, <<At("a", {1, 2}), At("b", {1, 2})>>, <<At("b", {2})>> }

\* A smaller registry, for workspace-sync and for the commands that edit
\* poliglot.yml: b has one version and no release is replaced.
MCSmall == MCReleases \ {<<"b", 2>>}
MCOneContent == [cv \in MCSmall |-> 1]
MCWsConfigs == { <<At("a", {1, 2})>>, <<At("a", {2}), At("b", {1, 2})>> }

\* For the editing commands a's second version is still to come.
MCEditPublished == MCSmall \ {<<"a", 2>>}
MCEditConfigs == { <<>> }

\* For workspace-sync a's second version does not fit the engine range: the
\* workspace may have it, the registry does not list it.
MCFitting == MCSmall \ {<<"a", 2>>}

MCNothing == {}

\* At most one directory is half unpacked at a time.
FewPartial ==
  Cardinality({cv \in Releases :
    cache[cv] # EmptyDir /\ \E f \in ArchiveFiles(cv[1], cv[2]) \cup {"marker"} : cache[cv][f] = 0}) <= 1
=============================================================================
