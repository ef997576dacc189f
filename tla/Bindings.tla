------------------------------ MODULE Bindings ------------------------------
(***************************************************************************)
(* The values `plgt install` sends along: services/bindings.py, and the    *)
(* callers of it in services/install_service.py up to the request.         *)
(*                                                                         *)
(* A run discovers what the package declares, resolves the flags, asks for *)
(* the required rest at a terminal, encrypts each secret under a key of    *)
(* its own, builds (a local package only) and sends the request.           *)
(***************************************************************************)
EXTENDS Naturals

CONSTANTS
  Cases,  \* what a run may be started on
  None    \* "no value"

\* A URI is a namespace and a local name.  A flag names a URI in one of three
\* forms, or is malformed; `value` is the value, or the environment variable.
Kind == {"variable", "secret"}
URI(ns, local) == <<ns, local>>
Form == {"uri", "qname", "name", "malformed"}

\* How a run ends.
Outcome == {"refused", "interrupted", "failed", "sent"}

\* A case: registry, whether a published package is installed; files, the RDF
\* files of the package, each with its prefixes, the matrices it declares and
\* its declarations (uri, kind, required, and by, their rdfs:isDefinedBy);
\* flags, in the order given; tty; env, the environment variables that are set.
\* A published package was built, and so all its files parse.
\* The module of the runs assumes it.
CasesAssumption ==
  /\ None \notin Outcome
  /\ \A c \in Cases :
       /\ \A i \in DOMAIN c.flags : /\ i \in Nat
                                     /\ c.flags[i].kind \in Kind /\ c.flags[i].form \in Form
       /\ \A i \in DOMAIN c.files :
            /\ i \in Nat
            /\ \A d \in c.files[i].declares : d.kind \in Kind /\ d.uri # None
            /\ c.registry => c.files[i].parses

VARIABLES
  case,    \* what this run was started on
  step,    \* where it is
  at,      \* the flags it has taken
  bound,   \* the values it has: [kind, uri, value]
  asked,   \* the declarations it has asked for: <<kind, uri>>
  skipped, \* those the warning names
  keys,    \* keys taken from the platform
  sealed,  \* the secrets encrypted: [uri, key]
  outcome  \* None, or how it ended
vars == <<case, step, at, bound, asked, skipped, keys, sealed, outcome>>

-----------------------------------------------------------------------------
(* discover_project_declarations, and the registry's answer *)

\* A file that does not parse is skipped; a published package has none.
Read(c) == {i \in DOMAIN c.files : c.files[i].parses}
Matrices(fs) == UNION {f.matrices : f \in fs}
Declarations(fs, kind) ==
  {d \in UNION {f.declares : f \in fs} : d.kind = kind /\ d.by \in Matrices(fs)}

Here(c) == {c.files[i] : i \in Read(c)}
Declared(c, kind) == {d.uri : d \in Declarations(Here(c), kind)}
Required(c, kind) == {d.uri : d \in {e \in Declarations(Here(c), kind) : e.required}}

\* The first file that declares a prefix counts.
Binders(c, prefix) == {i \in Read(c) : prefix \in DOMAIN c.files[i].prefixes}
Namespace(c, prefix) ==
  LET b == CHOOSE i \in Binders(c, prefix) : \A j \in Binders(c, prefix) : i <= j
  IN  c.files[b].prefixes[prefix]

-----------------------------------------------------------------------------
(* Flags *)

\* A mutation: the first of several matches is taken.
TheFirst(matches) == IF matches = {} THEN None ELSE (CHOOSE m \in matches : TRUE).uri

\* resolve_registry_ref: a local name must name one declaration, of any kind.
\* A URI declared as both kinds matches twice.
TheOnly(matches) ==
  IF \E m \in matches : matches = {m} THEN (CHOOSE m \in matches : TRUE).uri ELSE None

Named(c, local) ==
  {[kind |-> d.kind, uri |-> d.uri] :
     d \in {e \in UNION {Declarations(Here(c), k) : k \in Kind} : e.uri[2] = local}}

Resolve(c, f) ==
  CASE f.form = "uri" -> URI(f.of, f.local)
    [] f.form = "qname" /\ ~c.registry /\ Binders(c, f.of) # {} -> URI(Namespace(c, f.of), f.local)
    [] f.form = "name" /\ c.registry -> TheOnly(Named(c, f.local))
    [] OTHER -> None

\* --var flags are read before --secret-from-env flags.
Precedes(i, j) ==
  IF case.flags[i].kind = case.flags[j].kind THEN i < j ELSE case.flags[i].kind = "variable"
Left == DOMAIN case.flags \ at
IsNext(i) == \A j \in Left \ {i} : Precedes(i, j)

Has(kind, uri) == \E b \in bound : b.kind = kind /\ b.uri = uri

Refused(c, f) ==
  LET uri == Resolve(c, f) IN
  \/ uri \notin Declared(c, f.kind)
  \/ Has(f.kind, uri)
  \/ f.kind = "secret" /\ f.value \notin c.env

Unstarted ==
  /\ step = "start" /\ at = {} /\ bound = {} /\ asked = {} /\ skipped = {}
  /\ keys = 0 /\ sealed = {} /\ outcome = None

Init == case \in Cases /\ Unstarted

End(how) == step' = "end" /\ outcome' = how
Goto(s) == step' = s /\ UNCHANGED outcome

Discover ==
  /\ step = "start"
  /\ IF Declared(case, "variable") \cup Declared(case, "secret") # {} THEN Goto("flags")
     ELSE IF case.flags # <<>> THEN End("refused") ELSE Goto("build")
  /\ UNCHANGED <<case, at, bound, asked, skipped, keys, sealed>>

Flag ==
  /\ step = "flags"
  /\ \E i \in Left :
       LET f == case.flags[i] IN
       /\ IsNext(i)
       /\ \/ f.form = "malformed" /\ End("refused") /\ UNCHANGED <<at, bound>>
          \/ f.form # "malformed" /\ Refused(case, f) /\ End("refused") /\ UNCHANGED <<at, bound>>
          \/ /\ f.form # "malformed" /\ ~Refused(case, f)
             /\ bound' = bound \cup {[kind |-> f.kind, uri |-> Resolve(case, f), value |-> f.value]}
             /\ at' = at \cup {i} /\ UNCHANGED <<step, outcome>>
  /\ UNCHANGED <<case, asked, skipped, keys, sealed>>

FlagsDone ==
  /\ step = "flags" /\ Left = {} /\ Goto("ask")
  /\ UNCHANGED <<case, at, bound, asked, skipped, keys, sealed>>

-----------------------------------------------------------------------------
(* Prompts *)

Wanted(kind) ==
  {u \in Required(case, kind) : ~Has(kind, u) /\ <<kind, u>> \notin asked \cup skipped}

\* Variables come before secrets, each in a fixed order.
NextWanted ==
  LET kind == IF Wanted("variable") # {} THEN "variable" ELSE "secret"
  IN  <<kind, CHOOSE u \in Wanted(kind) : TRUE>>

\* Typed, left empty, or the run interrupted; without a terminal nothing is
\* asked.
Ask ==
  /\ step = "ask" /\ Wanted("variable") \cup Wanted("secret") # {}
  /\ LET d == NextWanted IN
     IF case.tty
     THEN /\ asked' = asked \cup {d}
          /\ \/ /\ bound' = bound \cup {[kind |-> d[1], uri |-> d[2], value |-> "typed"]}
                /\ UNCHANGED <<skipped, step, outcome>>
             \/ skipped' = skipped \cup {d} /\ UNCHANGED <<bound, step, outcome>>
             \/ End("interrupted") /\ UNCHANGED <<bound, skipped>>
     ELSE skipped' = skipped \cup {d} /\ UNCHANGED <<asked, bound, step, outcome>>
  /\ UNCHANGED <<case, at, keys, sealed>>

AskDone ==
  /\ step = "ask" /\ Wanted("variable") \cup Wanted("secret") = {} /\ Goto("seal")
  /\ UNCHANGED <<case, at, bound, asked, skipped, keys, sealed>>

-----------------------------------------------------------------------------
(* Keys, build and request *)

Unsealed == {b \in bound : b.kind = "secret" /\ \A s \in sealed : s.uri # b.uri}

\* encrypt_secret_bindings: the platform gives each key once.
KeyOf(n) == n

Seal ==
  /\ step = "seal" /\ Unsealed # {}
  /\ \/ /\ keys' = keys + 1
        /\ sealed' = sealed \cup {[uri |-> (CHOOSE b \in Unsealed : TRUE).uri, key |-> KeyOf(keys')]}
        /\ UNCHANGED <<step, outcome>>
     \/ End("failed") /\ UNCHANGED <<keys, sealed>>
  /\ UNCHANGED <<case, at, bound, asked, skipped>>

SealDone ==
  /\ step = "seal" /\ Unsealed = {} /\ Goto("build")
  /\ UNCHANGED <<case, at, bound, asked, skipped, keys, sealed>>

\* A local package is built only now, and a file that does not parse fails it;
\* the build may fail for other reasons as well.
BuildAndSend ==
  /\ step = "build"
  /\ \/ (case.registry \/ Read(case) = DOMAIN case.files) /\ End("sent")
     \/ ~case.registry /\ End("failed")
  /\ UNCHANGED <<case, at, bound, asked, skipped, keys, sealed>>

Next == Discover \/ Flag \/ FlagsDone \/ Ask \/ AskDone \/ Seal \/ SealDone \/ BuildAndSend
Spec == Init /\ [][Next]_vars

-----------------------------------------------------------------------------
(* Properties *)

All(c) == {c.files[i] : i \in DOMAIN c.files}
ShouldHave(c, kind) == {d.uri : d \in {e \in Declarations(All(c), kind) : e.required}}

\* The declaration a flag is for: the URI it is, the one of the namespace that
\* the first file with the prefix gives it, or the only one of that name.
Meant(c, f) ==
  {b \in bound :
     /\ b.kind = f.kind /\ b.value = f.value /\ b.uri[2] = f.local
     /\ f.form = "uri" => b.uri[1] = f.of
     /\ f.form = "qname" =>
          \E i \in Read(c) : /\ f.of \in DOMAIN c.files[i].prefixes
                            /\ c.files[i].prefixes[f.of] = b.uri[1]
                            /\ \A j \in Read(c) : j < i => f.of \notin DOMAIN c.files[j].prefixes
     /\ f.form = "name" => \A k \in Kind : \A u \in Declared(c, k) :
                             u[2] = f.local => k = f.kind /\ u = b.uri}

\* A request leaves out no required declaration of the package without a
\* warning, not even of a file that discovery skipped; it binds every URI once
\* for a kind; every flag has its value at the one declaration it can mean; and
\* each of the secrets is encrypted under a key of its own
\* (collect_bindings, encrypt_secret_bindings).
RequestIsComplete ==
  outcome = "sent" =>
    /\ \A k \in Kind :
         /\ \A u \in ShouldHave(case, k) : Has(k, u) \/ <<k, u>> \in skipped
         /\ \A b, c \in {x \in bound : x.kind = k} : b.uri = c.uri => b = c
    /\ \A i \in DOMAIN case.flags : Meant(case, case.flags[i]) # {}
    /\ {s.uri : s \in sealed} = {b.uri : b \in {x \in bound : x.kind = "secret"}}
    /\ \A s, t \in sealed : s.key = t.key => s = t

\* A flag that cannot be honoured ends the run before anything is asked and
\* before a key is taken (collect_bindings).
BadFlagsCostNothing == outcome = "refused" => asked = {} /\ skipped = {} /\ keys = 0
=============================================================================
