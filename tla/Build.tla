------------------------------- MODULE Build -------------------------------
(***************************************************************************)
(* What `plgt build` makes of a project: services/build_service.py,        *)
(* archive_service.py, rdf_operations.py and ui_build_service.py.          *)
(*                                                                         *)
(* A bundle is what a matrix's matrix.tar.gz holds: the files of its       *)
(* assembly, how the serializer ordered it, and its components: the script *)
(* bundle and the Turtle generated from it, each with the files that stood *)
(* in the project when it was made.                                        *)
(***************************************************************************)
EXTENDS Validation

\* How the UI tool ends: "built"; "failed" and nothing written (no entry, no
\* Node, 60 seconds, an error); "mute", the bundle written and its report not
\* understood.
UiOutcome == {"built", "failed", "mute"}

NoParts == [dist |-> None, ttl |-> None]

\* discover_rdf_files_in_pattern, over every spec pattern of the matrix and
\* every RDF format.
Discovered(p, i) ==
  UNION {{<<i, k, n>> : n \in DOMAIN p.matrices[i].specs[k].files} :
           k \in {j \in DOMAIN p.matrices[i].specs :
                    p.matrices[i].dir /\ p.matrices[i].specs[j].there}}

Valid(p, i) == {w \in Discovered(p, i) : Parses(p, w)}
Contents(p, ws) == {FileAt(p, w).text : w \in ws}

\* expand_script_refs, from the matrix's "spec" directory when there is one and
\* from its own otherwise: a ref written for another directory is not found.
ScriptsResolve(p, i) ==
  \A w \in Discovered(p, i) :
    FileAt(p, w).scripts =>
      "script" \notin FileAt(p, w).faults /\ p.matrices[i].specs[w[2]].main

\* A mutation: components that are there are not built again.
ComponentsOnce(p, i, ui, parts) ==
  IF ~p.matrices[i].ui \/ ui = "failed" \/ parts.dist # None THEN parts
  ELSE [dist |-> Contents(p, Valid(p, i)),
        ttl |-> IF ui = "built" /\ Declares(p, Valid(p, i)) THEN Contents(p, Valid(p, i))
                ELSE parts.ttl]

\* build_ui_components: the Turtle is generated only for a matrix with a URI.
Components(p, i, ui, parts) ==
  IF ~p.matrices[i].ui \/ ui = "failed" THEN parts
  ELSE [dist |-> Contents(p, Valid(p, i)),
        ttl |-> IF ui = "built" /\ Declares(p, Valid(p, i)) THEN Contents(p, Valid(p, i))
                ELSE parts.ttl]

\* The checks of build_matrix before the UI build, whose failure only a
\* progress line tells, and those after it.
Starts(p, i) == Valid(p, i) # {}
Finishes(p, i) == Valid(p, i) # {} /\ Valid(p, i) = Discovered(p, i) /\ ScriptsResolve(p, i)

\* The serializer's order: fixed, except among anonymous values, whose names
\* are new in each run.
Orders(p, i) == IF p.matrices[i].siblings THEN {1, 2} ELSE {1}

\* create_tar_gz_bundle; parts are those in the output directory by now.
Bundle(p, i, parts, order) ==
  [matrix |-> i, files |-> Contents(p, Discovered(p, i)),
   order |-> order,
   parts |-> IF p.matrices[i].ui THEN parts ELSE NoParts]

\* The matrices whose namespace the manifest lists.
Named(p) == {i \in DOMAIN p.matrices : Declares(p, Discovered(p, i))}

\* A mutation: the archive carries the time it was made.
StampOfRun(run) == run

\* create_package_archive: what each matrix's output directory holds, under the
\* matrix's name, and the manifest; nothing in it tells one run from another.
Stamp(run) == 0
Archive(p, version, bundles, named, run) ==
  [version |-> version, named |-> named, stamp |-> Stamp(run),
   contents |-> [i \in DOMAIN p.matrices |-> bundles[p.matrices[i].out]]]

-----------------------------------------------------------------------------
(* For the properties *)

\* What validation reads is all that the build ships, against all it is to meet:
\* one spec directory per matrix, Turtle only, a matrix declared somewhere, the
\* shapes in the lockfile and its packages wholly in the cache.
AllRead(p) ==
  /\ \A i \in DOMAIN p.matrices :
       /\ Cardinality({k \in DOMAIN p.matrices[i].specs : p.matrices[i].specs[k].there}) = 1
       /\ \A w \in Discovered(p, i) : FileAt(p, w).ttl
  /\ Named(p) # {}
  /\ Engine \in p.lock /\ p.cache # None /\ \A q \in p.lock : p.cache[q] = "whole"

ErrorFaults == {f \in Fault : CodeOf[f] \notin Warnings}
=============================================================================
