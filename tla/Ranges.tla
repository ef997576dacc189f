------------------------------- MODULE Ranges -------------------------------
(***************************************************************************)
(* Compatibility ranges: utils/version_range.py, which every resolver and  *)
(* build reads ranges with, and the range `plgt add` writes for a version. *)
(*                                                                         *)
(* A range is written as bounds, each an operator and the components of a  *)
(* version, and denotes the versions it admits by major and minor.         *)
(***************************************************************************)
EXTENDS Naturals, Sequences

CONSTANTS
  Number,   \* the numbers versions are made of: 0 .. some n
  Word,     \* a component that is no number, the empty one included
  Written,  \* the ranges looked at: sequences of bounds
  None      \* "no value"

\* The module of the runs assumes it.
NumberAssumption == Number \subseteq Nat /\ 0 \in Number /\ Word \notin Number

\* An operator as written; "" is none at all.
Op == {">=", "<", "<=", ">", "=", "~", "^", ""}
Version == [major: Number, minor: Number, patch: Number]

\* The module of the runs assumes it.
WrittenAssumption == Written \subseteq Seq([op: Op, parts: Seq(Number \cup {Word})])

VARIABLES
  range,  \* the range looked at
  from    \* the version `plgt add` recorded it for: [version, given], or None
vars == <<range, from>>

-----------------------------------------------------------------------------
(* The parser *)

\* A mutation: a bound is compared by its major alone.
BelowMajor(a, b) == a.major < b.major

\* Versions are compared by major and minor alone.
Below(a, b) == a.major < b.major \/ (a.major = b.major /\ a.minor < b.minor)

\* _parse_component, _parse_bound: one or two numbers, a missing minor is 0.
GoodBound(b) ==
  /\ b.op \in {">=", "<"}
  /\ Len(b.parts) \in {1, 2}
  /\ \A i \in DOMAIN b.parts : b.parts[i] \in Nat

Bound(b) == [op |-> b.op, major |-> b.parts[1],
             minor |-> IF Len(b.parts) = 2 THEN b.parts[2] ELSE 0]

\* A lower bound must lie below the upper one, in whichever order they come.
Ordered(r) ==
  \A i, j \in DOMAIN r :
    r[i].op = ">=" /\ r[j].op = "<" => Below(Bound(r[i]), Bound(r[j]))

\* _parse_range: one bound, or one of each kind.
Parses(r) ==
  /\ Len(r) \in {1, 2}
  /\ \A i \in DOMAIN r : GoodBound(r[i])
  /\ Len(r) = 2 => r[1].op # r[2].op
  /\ Ordered(r)

\* _Bound.matches, satisfies_range
Matches(b, v) == IF b.op = "<" THEN Below(v, b) ELSE ~Below(v, b)
Satisfies(v, r) == \A i \in DOMAIN r : Matches(Bound(r[i]), v)

\* _range_from_version_arg, for a version given with and without its minor:
\* at least that, and below the next major.
RangeOf(v, given) ==
  <<[op |-> ">=", parts |-> IF given = 1 THEN <<v.major>> ELSE <<v.major, v.minor>>],
    [op |-> "<", parts |-> <<v.major + 1>>]>>

Init == \/ range \in Written /\ from = None
        \/ \E v \in Version, given \in {1, 2} :
             from = [version |-> v, given |-> given] /\ range = RangeOf(v, given)
Next == UNCHANGED vars
Spec == Init /\ [][Next]_vars

-----------------------------------------------------------------------------
(* Properties *)

Admitted(r) == {v \in Version : Satisfies(v, r)}

\* The one range that admits nothing and is read as a range.
Nothing(r) == Len(r) = 1 /\ r[1].op = "<" /\ \A i \in DOMAIN r[1].parts : r[1].parts[i] = 0

Between(u, v, w) == ~Below(v, u) /\ ~Below(w, v)

\* The least release a range could admit: its lower bound, or 0.0.
Least(r) ==
  LET low == {i \in DOMAIN r : r[i].op = ">="} IN
  IF low = {} THEN [major |-> 0, minor |-> 0] ELSE Bound(r[CHOOSE i \in low : TRUE])

\* A range that is read as one is an interval of releases: it has no holes, it
\* admits its lower bound and so is not empty, "<0" apart, and its bounds may be
\* written in either order.
RangesAreIntervals ==
  Parses(range) =>
    /\ \A u, w \in Admitted(range) : \A v \in Version : Between(u, v, w) => v \in Admitted(range)
    /\ Satisfies(Least(range), range) \/ Nothing(range)
    /\ Len(range) = 2 =>
         /\ Parses(<<range[2], range[1]>>)
         /\ Admitted(<<range[2], range[1]>>) = Admitted(range)

\* What `plgt add` records for a version is read back as a range that admits
\* that version and every later one of its major, and none of another major.
RecordedRangeKeepsMajor ==
  from # None =>
    /\ Parses(range)
    /\ \A w \in Version :
         Satisfies(w, range) <=>
           w.major = from.version.major /\ (from.given = 2 => w.minor >= from.version.minor)
=============================================================================
