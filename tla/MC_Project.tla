----------------------------- MODULE MC_Project -----------------------------
(***************************************************************************)
(* Small instances of the parts that Tools holds.                          *)
(***************************************************************************)
EXTENDS Tools

CONSTANTS Os, Dep

-----------------------------------------------------------------------------
(* Projects: a package os and one dependency. *)

MCPackage == {Os, Dep}
MCEngine == Os

\* A file with this text, that uses and imports the engine's package.
Plain(text) == [text |-> text, faults |-> {}, imports |-> {Os}, uses |-> {Os},
                matrix |-> FALSE, ttl |-> TRUE, scripts |-> FALSE]
Spec1(files) == [there |-> TRUE, main |-> TRUE, files |-> files]
OneMatrix(specs, ui, out, siblings) ==
  [dir |-> TRUE, specs |-> specs, ui |-> ui, out |-> out, siblings |-> siblings]
OneProject(matrices) ==
  [config |-> "ok", lock |-> MCPackage, cache |-> [q \in MCPackage |-> "whole"], matrices |-> matrices]

\* Two matrices; the second one's specs are not in "spec".
Base ==
  OneProject(<<
    OneMatrix(<<Spec1(<<[Plain("a") EXCEPT !.matrix = TRUE],
                        [Plain("b") EXCEPT !.uses = {Dep}, !.imports = {Dep}, !.scripts = TRUE]>>)>>,
              FALSE, 1, FALSE),
    OneMatrix(<<[Spec1(<<Plain("c")>>) EXCEPT !.main = FALSE]>>, FALSE, 1, FALSE)>>)

FaultName == {"syntax", "sparql", "json", "unbound", "define", "script", "prefix", "outside",
              "crash", "shape", "advice", "predicate", "class", "name", "call", "arity",
              "variable", "declared", "secret"}

\* Base with one thing about it changed.
Deviations == {<<"fault", f>> : f \in FaultName}
              \cup {<<"other", f>> : f \in {"syntax", "script", "predicate", "crash", "shape"}}
              \cup {<<"project", k>> : k \in {"none", "absent", "bad", "nolock", "nocache", "partial",
                     "missing", "undeclared", "nodir", "nospec", "two", "rdf", "script", "nomatrix"}}

Deviate(p, v) ==
  CASE v[1] = "fault" -> [p EXCEPT !.matrices[1].specs[1].files[2].faults = @ \cup {v[2]}]
    [] v[1] = "other" -> [p EXCEPT !.matrices[2].specs[1].files[1].faults = @ \cup {v[2]}]
    [] v[2] = "none" -> p
    [] v[2] = "absent" -> [p EXCEPT !.config = "absent"]
    [] v[2] = "bad" -> [p EXCEPT !.config = "bad"]
    [] v[2] = "nolock" -> [p EXCEPT !.lock = None]
    [] v[2] = "nocache" -> [p EXCEPT !.cache = None]
    [] v[2] = "partial" -> IF p.cache = None THEN p ELSE [p EXCEPT !.cache[Dep] = "partial"]
    [] v[2] = "missing" -> IF p.cache = None THEN p ELSE [p EXCEPT !.cache[Dep] = "absent"]
    [] v[2] = "undeclared" -> [p EXCEPT !.lock = {Os}]
    [] v[2] = "nodir" -> [p EXCEPT !.matrices[2].dir = FALSE]
    [] v[2] = "nospec" -> [p EXCEPT !.matrices[2].specs[1].there = FALSE]
    [] v[2] = "two" -> [p EXCEPT !.matrices[1].specs =
         Append(@, [Spec1(<<[Plain("d") EXCEPT !.faults = {"name"}]>>) EXCEPT !.main = FALSE])]
    [] v[2] = "rdf" -> [p EXCEPT !.matrices[1].specs[1].files[2].ttl = FALSE]
    [] v[2] = "script" -> [p EXCEPT !.matrices[2].specs[1].files[1].scripts = TRUE]
    [] v[2] = "nomatrix" -> [p EXCEPT !.matrices[1].specs[1].files[1].matrix = FALSE]

MCBeginnings == {Deviate(Deviate(Base, v), w) : v, w \in Deviations}

\* Drafts of a package with a UI: sound, with a second matrix that warns, with
\* an unknown term, with a file that does not parse, and with two matrices in
\* one output directory.
DraftMatrix(text, faults, ui, out, siblings) ==
  OneMatrix(<<Spec1(<<[Plain(text) EXCEPT !.matrix = TRUE, !.faults = faults]>>)>>, ui, out, siblings)
MCDrafts ==
  [plain  |-> OneProject(<<DraftMatrix("t1", {}, FALSE, 1, FALSE), DraftMatrix("t2", {}, TRUE, 2, FALSE)>>),
   second |-> OneProject(<<DraftMatrix("t3", {}, FALSE, 1, FALSE), DraftMatrix("t4", {"advice"}, TRUE, 2, FALSE)>>),
   flawed |-> OneProject(<<DraftMatrix("t5", {}, FALSE, 1, FALSE), DraftMatrix("t6", {"predicate"}, TRUE, 2, FALSE)>>),
   broken |-> OneProject(<<DraftMatrix("t7", {"syntax"}, FALSE, 1, FALSE), DraftMatrix("t8", {}, TRUE, 2, FALSE)>>),
   shared |-> OneProject(<<DraftMatrix("t1", {}, FALSE, 1, FALSE), DraftMatrix("t9", {}, TRUE, 1, TRUE)>>)]
MCFirst == {"plain"}

-----------------------------------------------------------------------------
(* Bindings: a package of two files, n1 and n2 their namespaces. *)

Declares(kind, ns, local, required) ==
  [kind |-> kind, uri |-> <<ns, local>>, required |-> required, by |-> "m"]
FileM == [parses |-> TRUE, prefixes |-> [x \in {"p"} |-> "n1"], matrices |-> {"m"},
          declares |-> {Declares("variable", "n1", "a", TRUE), Declares("variable", "n1", "b", FALSE),
                        Declares("secret", "n1", "k", TRUE), Declares("secret", "n1", "a", FALSE)}]
FileN == [parses |-> TRUE, prefixes |-> [x \in {"p", "q"} |-> "n2"], matrices |-> {},
          declares |-> {Declares("variable", "n2", "c", TRUE), Declares("variable", "n2", "b", TRUE),
                        Declares("secret", "n2", "s", TRUE),
                        [Declares("variable", "n2", "z", TRUE) EXCEPT !.by = "other"]}]
AFlag(kind, form, of, local, value) ==
  [kind |-> kind, form |-> form, of |-> of, local |-> local, value |-> value]
FlagSet ==
  {AFlag("variable", "uri", "n1", "a", "v1"), AFlag("variable", "qname", "p", "b", "v2"),
   AFlag("variable", "name", "", "b", "v3"), AFlag("variable", "name", "", "a", "v4"),
   AFlag("variable", "name", "", "c", "v5"), AFlag("secret", "qname", "q", "s", "E1"),
   AFlag("secret", "name", "", "k", "E1"), AFlag("secret", "uri", "n1", "k", "E2"),
   AFlag("variable", "malformed", "", "", "")}
FlagLists == {<<>>} \cup {<<f>> : f \in FlagSet} \cup {<<f, g>> : f, g \in FlagSet}
ACase(registered, files, flags, tty, env) ==
  [registry |-> registered, files |-> files, flags |-> flags, tty |-> tty, env |-> env]
MCCases ==
  {ACase(r, <<FileM, FileN>>, fs, t, {"E1"}) : r \in BOOLEAN, fs \in FlagLists, t \in BOOLEAN}
  \cup {ACase(FALSE, <<FileM, [FileN EXCEPT !.parses = FALSE]>>, fs, t, {"E1"}) : fs \in FlagLists, t \in BOOLEAN}
  \cup {ACase(r, <<>>, fs, TRUE, {}) : r \in BOOLEAN, fs \in FlagLists}

-----------------------------------------------------------------------------
(* Scripts, ranges and the items of a workspace *)

\* A dotted prefix, of which b is read, and an IRI of the scheme a.
MCPrefix == {"", "a", "b", "c.b"}
MCLabelOf == [p \in MCPrefix |-> IF p = "c.b" THEN "b" ELSE p]
MCIri == {"", "own", "matrix", "a:x"}
MCInIri == [u \in MCIri |-> IF u = "a:x" THEN {"a"} ELSE {}]
MCTable == [p \in MCPrefix |-> CASE p = "" -> "a:x" [] p = "b" -> None [] OTHER -> "matrix"]
ADeclaration(p, place, iri) == [kind |-> "declare", p |-> p, at |-> place, local |-> "other", iri |-> iri]
AName(p, place, local) == [kind |-> "use", p |-> p, at |-> place, local |-> local, iri |-> ""]
MCTokens ==
  {ADeclaration(p, "code", "own") : p \in MCPrefix}
  \cup {ADeclaration("a", "quoted", "own"), ADeclaration("a", "code", ""), ADeclaration("", "code", "a:x")}
  \cup {AName(p, "code", "letter") : p \in MCPrefix}
  \cup {AName("a", x, "letter") : x \in {"after", "quoted"}}
  \cup {AName("a", "code", "digit"), AName("", "code", "other"), AName("", "quoted", "letter")}
  \cup {[kind |-> "iri", p |-> "", at |-> x, local |-> "other", iri |-> "a:x"] : x \in {"code", "quoted"}}
MCScripts == UNION {[1..n -> MCTokens] : n \in 0..3}

MCNumber == {0, 1, 2}
ABound(op, ps) == [op |-> op, parts |-> ps]
GoodBounds == {ABound(op, <<n>>) : op \in {">=", "<"}, n \in MCNumber}
              \cup {ABound(op, <<m, n>>) : op \in {">=", "<"}, m \in MCNumber, n \in MCNumber}
OddBounds == {ABound(op, <<1>>) : op \in {"<=", ">", "=", "~", "^", ""}}
             \cup {ABound(">=", <<1, 2, 0>>), ABound("<", <<Word>>), ABound("<", <<1, Word>>), ABound(">=", <<>>)}
MCWritten == {<<>>} \cup {<<x>> : x \in GoodBounds \cup OddBounds}
             \cup {<<x, y>> : x, y \in GoodBounds \cup OddBounds} \cup {<<x, x, y>> : x, y \in GoodBounds}

AnItem(kind, id, ns, name, value) ==
  [kind |-> kind, id |-> id, ns |-> ns, name |-> name, value |-> value, required |-> FALSE, locked |-> FALSE]
MCItems ==
  {AnItem("variable", 1, "n1", "a", "old"), [AnItem("variable", 2, "n2", "b", "old") EXCEPT !.required = TRUE],
   AnItem("variable", 3, "n1", "b", "old"), AnItem("secret", 4, "n1", "k", "old"),
   AnItem("extension", 5, "", "e", "old"), AnItem("installation", 6, "", "p", "on"),
   AnItem("version", 7, "", "v1", "live"), [AnItem("version", 8, "", "v2", "yanked") EXCEPT !.locked = TRUE],
   AnItem("version", 9, "", "v3", "yanked")}
ARequest(kind, verb, form, ns, name, value) ==
  [kind |-> kind, verb |-> verb, form |-> form, ns |-> ns, name |-> name, value |-> value,
   good |-> TRUE, piped |-> FALSE, tty |-> TRUE, force |-> FALSE]
ASecret == ARequest("secret", "set", "uri", "n1", "k", "new")
AYank == ARequest("version", "yank", "uri", "", "v1", "yanked")
MCBare == [v \in {" new ", " "} |-> IF v = " new " THEN "new" ELSE ""]
MCRequests ==
  {ARequest("variable", "set", "uri", "n1", "a", "new"), ARequest("variable", "set", "qname", "", "a", None),
   ARequest("variable", "set", "qname", "", "b", "new"), ARequest("variable", "set", "uri", "n2", "b", None),
   ARequest("variable", "get", "uri", "n2", "b", None), ARequest("variable", "get", "malformed", "", "", None),
   ASecret, [ASecret EXCEPT !.tty = FALSE], [ASecret EXCEPT !.value = ""],
   [ASecret EXCEPT !.piped = TRUE, !.tty = FALSE, !.value = " new "],
   [ASecret EXCEPT !.piped = TRUE, !.tty = FALSE, !.value = " "], [ASecret EXCEPT !.good = FALSE],
   ARequest("secret", "get", "uri", "n1", "k", None), ARequest("secret", "set", "uri", "n1", "none", "new"),
   ARequest("extension", "create", "uri", "", "f", "new"), ARequest("extension", "update", "uri", "", "e", "new"),
   ARequest("extension", "delete", "uri", "", "e", "old"), ARequest("installation", "set", "uri", "", "p", "off"),
   AYank, [AYank EXCEPT !.force = TRUE],
   ARequest("version", "unyank", "uri", "", "v2", "live"), ARequest("version", "unyank", "uri", "", "v3", "live")}

-----------------------------------------------------------------------------
(* The language server's folders: w, and w/a and w/b in it. *)

MCFolder == {"w", "a", "b"}
MCFile == {"wf", "af", "bf"}
MCChain == [wf |-> <<"w">>, af |-> <<"a", "w">>, bf |-> <<"b", "w">>]
MCProjects == {"w", "a"}
MCFindings == [w |-> <<{"wf"}, {}, {"wf"}>>, a |-> <<{"af"}, {"af"}, {}>>, b |-> <<{}, {"bf"}, {"bf"}>>]
MCAssembles == [w |-> <<TRUE, FALSE, TRUE>>, a |-> <<TRUE, TRUE, TRUE>>, b |-> <<FALSE, TRUE, TRUE>>]
MCBreaks == [w |-> <<FALSE, FALSE, FALSE>>, a |-> <<FALSE, TRUE, FALSE>>, b |-> <<FALSE, FALSE, TRUE>>]
MCUnreadable == [w |-> <<FALSE, FALSE, TRUE>>, a |-> <<FALSE, FALSE, FALSE>>, b |-> <<FALSE, TRUE, FALSE>>]
MCLocked == [w |-> <<TRUE, FALSE, TRUE>>, a |-> <<TRUE, TRUE, TRUE>>, b |-> <<TRUE, TRUE, TRUE>>]
=============================================================================
