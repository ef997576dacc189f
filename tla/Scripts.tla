------------------------------ MODULE Scripts ------------------------------
(***************************************************************************)
(* What a script:// reference becomes: services/script_expander.py.        *)
(*                                                                         *)
(* A script is text of which the expander's patterns read declarations of  *)
(* a prefix, names that use one, and IRIs.  Prefixes the patterns read a   *)
(* use of and no declaration are put in front of it, out of the matrix's   *)
(* table; the build and the validation each do so, and the validation then *)
(* does it again to the result, as to a body written in the RDF.           *)
(***************************************************************************)
EXTENDS Naturals, Sequences, FiniteSets, SequencesExt

CONSTANTS
  Prefix,  \* prefixes; "" is the empty one
  LabelOf,    \* LabelOf[p]: the label the name pattern reads in p:x, or None
  Iri,     \* IRIs; "" is the empty one
  InIri,   \* InIri[u]: the labels the name pattern reads in <u>
  Script,  \* the scripts looked at: sequences of tokens
  Table,   \* Table[p]: the IRI the matrix binds p to, or None
  None     \* "no value"

\* at: where the text stands.  "after": in code, on the line of an IRI with a
\* fragment; "quoted": in a comment or a string.
\* local: what the local name of a use starts with; "letter": one of A to Z, a
\* to z and _, "other": none of these and no digit, or there is no local name.
Place == {"code", "after", "quoted"}
Token == [kind: {"declare", "use", "iri"}, p: Prefix, at: Place,
          local: {"letter", "digit", "other"}, iri: Iri]

\* The pattern reads a label of ASCII letters, digits, _ and - as it is, of
\* a.b:x the b, of a label in another script the empty one, of a.1b:x none.
\* The module of the runs assumes it.
TableAssumption ==
  /\ "" \in Prefix /\ None \notin Prefix \cup Iri
  /\ LabelOf \in [Prefix -> Prefix \cup {None}] /\ LabelOf[""] = ""
  /\ \A p \in Prefix : LabelOf[p] # None => LabelOf[LabelOf[p]] = LabelOf[p]
  /\ InIri \in [Iri -> SUBSET {p \in Prefix : LabelOf[p] = p}]
  /\ \A u \in Iri : IsFiniteSet(InIri[u])
  /\ Table \in [Prefix -> Iri \cup {None}]
  /\ \A s \in Script : s \in Seq(Token)

VARIABLE script
vars == <<script>>

Init == script \in Script
Next == UNCHANGED script
Spec == Init /\ [][Next]_vars

-----------------------------------------------------------------------------
(* inline_with_prefixes *)

\* _PREFIX_DECL_PATTERN: a label as above, not the empty one, and an IRI that
\* is not empty.
Seen(t) == t.kind = "declare" /\ t.p # "" /\ LabelOf[t.p] = t.p /\ t.iri # ""

\* _prefixes_already_declared: the whole text is searched.
Declared(s) == {s[i].p : i \in {j \in DOMAIN s : Seen(s[j])}}

\* A mutation: the # of an IRI is taken for the start of a comment.
CodePlain == {"code"}

\* _strip_strings_and_comments: an IRI is kept as it is.
Code == {"code", "after"}

\* _PREFIXED_NAME_PATTERN: the labels it reads in a name, in an IRI, and in the
\* IRI of a declaration that is not taken out before, for it was not seen.
Labels(t) ==
  CASE t.kind = "use" -> IF t.local = "letter" THEN {LabelOf[t.p]} \ {None} ELSE {}
    [] t.kind = "iri" -> InIri[t.iri]
    [] t.kind = "declare" -> IF Seen(t) THEN {} ELSE InIri[t.iri]

\* _prefixes_referenced
Used(s) == UNION {Labels(s[i]) : i \in {j \in DOMAIN s : s[j].at \in Code}}

Needed(s) == {p \in Used(s) \ Declared(s) : Table[p] # None}

\* The declarations put in front, and then the script.
Declare(p) == [kind |-> "declare", p |-> p, at |-> "code", local |-> "other", iri |-> Table[p]]
Fronted(s) == LET ps == SetToSeq(Needed(s)) IN [i \in DOMAIN ps |-> Declare(ps[i])]
Inlined(s) == Fronted(s) \o s

-----------------------------------------------------------------------------
(* What SPARQL makes of it *)

\* The prefix of a use in code means what the last declaration in code before
\* it says; without one the script does not parse.
Meaning(s, i) ==
  LET before == {j \in 1..i : s[j].kind = "declare" /\ s[j].p = s[i].p /\ s[j].at # "quoted"}
  IN  IF before = {} THEN None ELSE s[CHOOSE j \in before : \A k \in before : k <= j].iri

InCode(s) == {i \in DOMAIN s : s[i].kind = "use" /\ s[i].at # "quoted"}

\* Nothing in the script looks like a declaration of the use's prefix.
Open(s, i) == ~ \E j \in DOMAIN s : s[j].kind = "declare" /\ s[j].p = s[i].p

\* Whatever the patterns take for a name or miss, a name in a script's code
\* that means something there means the same in what is shipped, and one that
\* does not means nothing or what the matrix's table says: the table, where
\* the name is one the pattern reads and nothing that looks like a declaration
\* stands in a comment, in a string or further down.  Comments and strings put
\* nothing in front, and doing it again, as the validation does, changes no
\* meaning.
InlinedResolves ==
  LET out == Inlined(script)  n == Len(Fronted(script))  m == Len(Fronted(out)) IN
  /\ \A i \in InCode(script) :
       LET t == script[i]  own == Meaning(script, i)  got == Meaning(out, i + n) IN
       /\ own # None => got = own
       /\ own = None => got \in {None, Table[t.p]}
       /\ Open(script, i) /\ t.local = "letter" /\ LabelOf[t.p] = t.p => got = Table[t.p]
       /\ got # None => Meaning(Inlined(out), i + n + m) = got
  /\ \A p \in Needed(script) :
       \E i \in DOMAIN script : script[i].at # "quoted" /\ p \in Labels(script[i])
=============================================================================
