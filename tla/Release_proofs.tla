--------------------------- MODULE Release_proofs ---------------------------
(***************************************************************************)
(* Proofs about Release, for all packages, drafts and bounds that satisfy  *)
(* its assumptions.                                                        *)
(***************************************************************************)
EXTENDS Release, TLAPS

\* None and Torn are no bundles.
MarksAssumption == \A p, i, now, order : Bundle(p, i, now, order) \notin {None, Torn}

-----------------------------------------------------------------------------
(* The inductive invariant *)

Steps == {"gate", "ui", "bundle", "archive", "identify", "upload"}

\* A command is a record of these fields.
IsCommand(c) ==
  /\ DOMAIN c = {"op", "gate", "dry", "edited", "ui", "step", "at", "named", "of",
                 "version", "run", "made"}
  /\ c.step \in Steps /\ c.op \in {"build", "publish"}
  /\ c.edited \in BOOLEAN /\ c.ui \in BOOLEAN /\ c.version \in 1..MaxVersion

TypeInv ==
  /\ source \in Draft /\ version \in 1..MaxVersion
  /\ DOMAIN bundles = Out /\ DOMAIN parts = Out
  /\ DOMAIN registry = 1..MaxVersion
  /\ cmd = NoCommand \/ (IsCommand(cmd) /\ report = None)

\* What is uploaded is what the command built.
Built ==
  /\ cmd.step \in {"gate", "ui", "bundle", "archive"} => cmd.made = None
  /\ cmd.step \in {"identify", "upload"} =>
       cmd.op = "publish" /\ package = cmd.made /\ cmd.made.version \in 1..MaxVersion

\* The platform takes no empty upload.
NotEmpty == report # None /\ report.op = "publish" /\ report.exit = 0 => report.made # None

PublishInv == (cmd # NoCommand => Built) /\ PublishedIsBuilt /\ NotEmpty

\* The bundle of matrix i of draft d is its own; ui: the UI tool worked.
Own(b, d, i, ui) ==
  LET now == Contents(Drafts[d], Discovered(Drafts[d], i)) IN
  /\ b \notin {None, Torn} /\ b.matrix = i /\ b.files = now
  /\ Drafts[d].matrices[i].ui /\ ui =>
       b.parts.dist = now /\ (Declares(Drafts[d], Discovered(Drafts[d], i)) => b.parts.ttl = now)

\* The components of matrix i are made of the files that parse.
Fresh(c, d, i, ui) ==
  LET now == Contents(Drafts[d], Valid(Drafts[d], i)) IN
  Drafts[d].matrices[i].ui /\ ui =>
    c.dist = now /\ (Declares(Drafts[d], Valid(Drafts[d], i)) => c.ttl = now)

OutOf(d, i) == Drafts[d].matrices[i].out

\* How far an undisturbed command has come.
Progress ==
  /\ source = cmd.of /\ cmd.at \in DOMAIN Drafts[cmd.of].matrices
  /\ cmd.step \in {"gate", "ui", "bundle"} =>
       \A j \in DOMAIN Drafts[cmd.of].matrices :
         j < cmd.at => Own(bundles[OutOf(cmd.of, j)], cmd.of, j, cmd.ui)
  /\ cmd.step = "bundle" => Fresh(parts[OutOf(cmd.of, cmd.at)], cmd.of, cmd.at, cmd.ui)
  /\ cmd.step = "archive" =>
       \A j \in DOMAIN Drafts[cmd.of].matrices :
         Own(bundles[OutOf(cmd.of, j)], cmd.of, j, cmd.ui)
  /\ cmd.step \in {"identify", "upload"} =>
       \A j \in DOMAIN Drafts[cmd.of].matrices :
         Own(cmd.made.contents[j], cmd.of, j, cmd.ui)

ArchiveInv ==
  /\ cmd # NoCommand /\ ~cmd.edited /\ OwnOutputs(Drafts[cmd.of]) => Progress
  /\ ArchiveIsOwn

IInv == TypeInv /\ PublishInv /\ ArchiveInv

-----------------------------------------------------------------------------
(* Commands and projects *)

\* A command keeps its other fields when its step is set.
LEMMA FieldsSet ==
  ASSUME NEW c, IsCommand(c)
  PROVE  /\ c # NoCommand /\ c.step # "none"
         /\ \A s \in Steps : LET n == [c EXCEPT !.step = s] IN
              /\ IsCommand(n) /\ n.step = s /\ n.op = c.op /\ n.edited = c.edited
              /\ n.ui = c.ui /\ n.at = c.at /\ n.of = c.of /\ n.made = c.made
<1> USE DEF IsCommand, NoCommand, Steps
<1>1. c # NoCommand /\ c.step # "none"
  OBVIOUS
<1>2. ASSUME NEW s \in Steps
      PROVE  LET n == [c EXCEPT !.step = s] IN
              /\ IsCommand(n) /\ n.step = s /\ n.op = c.op /\ n.edited = c.edited
              /\ n.ui = c.ui /\ n.at = c.at /\ n.of = c.of /\ n.made = c.made
  OBVIOUS
<1> QED
  BY <1>1, <1>2

LEMMA EditedSet ==
  ASSUME NEW c, IsCommand(c)
  PROVE  LET n == [c EXCEPT !.edited = TRUE] IN
         IsCommand(n) /\ n.edited = TRUE /\ n.step = c.step /\ n.op = c.op /\ n.made = c.made
BY DEF IsCommand, Steps

\* A draft is what its own configuration makes of it.
LEMMA ConfiguredByItself ==
  ASSUME DraftsAssumption, NEW d \in Draft
  PROVE  Configured(Drafts[d], Drafts[d]) = Drafts[d]
<1> DEFINE p == Drafts[d]
<1>1. p \in Project
  BY DEF DraftsAssumption, Draft
<1>2. p.matrices \in Seq(Matrix)
  BY <1>1 DEF Project
<1>3. DOMAIN p.matrices = 1..Len(p.matrices) /\ Len(p.matrices) \in Nat
  BY <1>2
<1>4. \A i \in DOMAIN p.matrices :
        [p.matrices[i] EXCEPT !.ui = p.matrices[i].ui, !.out = p.matrices[i].out] = p.matrices[i]
  <2>1. \A i \in DOMAIN p.matrices : p.matrices[i] \in Matrix
    BY <1>2
  <2>2. \A m \in Matrix : [m EXCEPT !.ui = m.ui, !.out = m.out] = m
    BY DEF Matrix
  <2> QED
    BY <2>1, <2>2
<1>5. [i \in DOMAIN p.matrices |->
        [p.matrices[i] EXCEPT !.ui = p.matrices[i].ui, !.out = p.matrices[i].out]] = p.matrices
  <2>1. p.matrices = [i \in DOMAIN p.matrices |-> p.matrices[i]]
    BY <1>2
  <2> QED
    BY <1>4, <2>1
<1>6. [p EXCEPT !.matrices = p.matrices] = p
  BY <1>1 DEF Project
<1> QED
  BY <1>5, <1>6 DEF Configured

-----------------------------------------------------------------------------
(* The actions *)

\* The author: what a command has read and made stays; it is disturbed.
LEMMA EditedKeeps ==
  ASSUME IInv, Edited, source' \in Draft, version' \in 1..MaxVersion,
         UNCHANGED <<disk, report, registry>>
  PROVE  IInv'
<1>1. CASE cmd = NoCommand
  <2>1. cmd' = NoCommand
    BY <1>1 DEF Edited
  <2> QED
    BY <2>1 DEF IInv, TypeInv, PublishInv, ArchiveInv, PublishedIsBuilt, NotEmpty, ArchiveIsOwn, Undisturbed, disk
<1>2. CASE cmd # NoCommand
  <2>1. IsCommand(cmd) /\ report = None /\ Built
    BY <1>2 DEF IInv, TypeInv, PublishInv
  <2>2. /\ IsCommand(cmd') /\ cmd'.edited = TRUE /\ cmd'.step = cmd.step
        /\ cmd'.op = cmd.op /\ cmd'.made = cmd.made
    BY <1>2, <2>1, EditedSet DEF Edited
  <2>3. TypeInv'
    BY <2>1, <2>2 DEF IInv, TypeInv, disk
  <2>4. PublishInv'
    BY <2>1, <2>2 DEF PublishInv, Built, PublishedIsBuilt, NotEmpty, disk
  <2>5. ArchiveInv'
    BY <2>1, <2>2 DEF ArchiveInv, ArchiveIsOwn, Undisturbed
  <2> QED
    BY <2>3, <2>4, <2>5 DEF IInv
<1> QED
  BY <1>1, <1>2

LEMMA StartKeeps ==
  ASSUME IInv, DraftsAssumption, Start
  PROVE  IInv'
<1>1. PICK op \in {"build", "publish"}, gate \in BOOLEAN, dry \in BOOLEAN :
        cmd' = [op |-> op, gate |-> gate, dry |-> dry, edited |-> FALSE, ui |-> TRUE,
                  step |-> IF gate THEN "gate" ELSE "ui", at |-> 1, named |-> {},
                  of |-> source, version |-> version, run |-> runs, made |-> None]
  BY DEF Start
<1>2. report' = None /\ UNCHANGED <<source, version, disk, registry>>
  BY DEF Start
<1>3. IsCommand(cmd') /\ cmd'.step \in {"gate", "ui"} /\ cmd'.at = 1 /\ cmd'.of = source /\ cmd'.made = None
  BY <1>1 DEF IsCommand, Steps, IInv, TypeInv
<1>4. 1 \in DOMAIN Drafts[source].matrices
        /\ \A j \in DOMAIN Drafts[source].matrices : ~(j < 1)
  <2>1. Drafts[source].matrices \in Seq(Matrix) /\ Len(Drafts[source].matrices) # 0
    BY DEF IInv, TypeInv, Draft, DraftsAssumption, Project
  <2> QED
    BY <2>1
<1>5. TypeInv'
  BY <1>2, <1>3 DEF IInv, TypeInv, disk
<1>6. PublishInv'
  BY <1>2, <1>3 DEF PublishInv, Built, PublishedIsBuilt, NotEmpty
<1>7. Progress'
  BY <1>2, <1>3, <1>4 DEF Progress
<1>8. ArchiveInv'
  BY <1>2, <1>7 DEF ArchiveInv, ArchiveIsOwn, Undisturbed
<1> QED
  BY <1>5, <1>6, <1>8 DEF IInv

\* A command that fails, or ends after the archive, tells of what it made.
LEMMA EndedKeeps ==
  ASSUME IInv, IsCommand(cmd), NEW exit, NEW result, Ended(exit, result, cmd.made),
         UNCHANGED <<source, version>>, DOMAIN bundles' = Out, DOMAIN parts' = Out,
         DOMAIN registry' = 1..MaxVersion,
         cmd.op = "publish" /\ exit = 0 =>
           cmd.made # None /\ (~cmd.dry => registry'[cmd.made.version] = cmd.made)
  PROVE  IInv'
<1>1. cmd # NoCommand /\ report = None /\ Built
  BY FieldsSet DEF IInv, TypeInv, PublishInv
<1>2. cmd' = NoCommand /\ report' = [op |-> cmd.op, gate |-> cmd.gate, dry |-> cmd.dry, edited |-> cmd.edited,
                ui |-> cmd.ui, made |-> cmd.made, of |-> cmd.of, exit |-> exit, result |-> result]
  BY DEF Ended
<1>3. TypeInv'
  BY <1>2 DEF IInv, TypeInv
<1>4. PublishInv'
  BY <1>2 DEF PublishInv, PublishedIsBuilt, NotEmpty
<1>5. ArchiveIsOwn'
  <2>1. SUFFICES ASSUME ~cmd.edited, cmd.made # None, OwnOutputs(Drafts[cmd.of]),
                        NEW i \in DOMAIN Drafts[cmd.of].matrices
                 PROVE  Own(cmd.made.contents[i], cmd.of, i, cmd.ui)
    BY <1>2 DEF ArchiveIsOwn, Undisturbed, Own
  <2>2. Progress
    BY <1>1, <2>1 DEF IInv, ArchiveInv
  <2>3. cmd.step \in {"identify", "upload"}
    BY <1>1, <2>1 DEF Built, IsCommand, Steps
  <2> QED
    BY <2>2, <2>3 DEF Progress
<1> QED
  BY <1>2, <1>3, <1>4, <1>5 DEF IInv, ArchiveInv

\* A command at work, as the invariant has it.
LEMMA AtWork ==
  ASSUME IInv, cmd.step # "none"
  PROVE  /\ IsCommand(cmd) /\ report = None /\ cmd # NoCommand /\ Built
         /\ ~cmd.edited /\ OwnOutputs(Drafts[cmd.of]) => Progress
BY FieldsSet DEF IInv, TypeInv, PublishInv, ArchiveInv, NoCommand

\* An undisturbed command sees the draft whose configuration it read.
LEMMA SeenIsRead ==
  ASSUME DraftsAssumption, TypeInv, Progress
  PROVE  /\ Seen = Drafts[cmd.of] /\ At = Drafts[cmd.of].matrices[cmd.at]
         /\ At.out = OutOf(cmd.of, cmd.at)
         /\ \A j \in DOMAIN Drafts[cmd.of].matrices : OutOf(cmd.of, j) \in Out
         /\ DOMAIN Drafts[cmd.of].matrices = 1..Len(Drafts[cmd.of].matrices)
         /\ Len(Drafts[cmd.of].matrices) \in Nat
<1>1. cmd.of \in Draft /\ source = cmd.of
  BY DEF TypeInv, Progress
<1>2. Seen = Drafts[cmd.of]
  BY <1>1, ConfiguredByItself DEF Seen, Here
<1>3. Drafts[cmd.of].matrices \in Seq(Matrix)
  BY <1>1 DEF DraftsAssumption, Draft, Project
<1>4. \A j \in DOMAIN Drafts[cmd.of].matrices : OutOf(cmd.of, j) \in Out
  BY <1>1 DEF Out, OutOf
<1> QED
  BY <1>2, <1>3, <1>4 DEF At, OutOf

LEMMA GateKeeps ==
  ASSUME IInv, Gate
  PROVE  IInv'
<1>1. IsCommand(cmd) /\ cmd.step = "gate" /\ Built /\ cmd.made = None
  BY AtWork DEF Gate, Step, Built
<1>2. UNCHANGED <<source, version, bundles, parts, package, registry>>
  BY DEF Gate, disk
<1>3. CASE Failed("invalid")
  BY <1>1, <1>2, <1>3, EndedKeeps DEF Failed, IInv, TypeInv
<1>4. CASE Goto("ui") /\ UNCHANGED report
  <2>1. IsCommand(cmd') /\ cmd'.step = "ui" /\ cmd'.op = cmd.op /\ cmd'.edited = cmd.edited
        /\ cmd'.ui = cmd.ui /\ cmd'.at = cmd.at /\ cmd'.of = cmd.of /\ cmd'.made = cmd.made
    BY <1>1, <1>4, FieldsSet DEF Goto, Steps
  <2>2. report' = None
    BY <1>1, <1>4, AtWork DEF Gate, Step
  <2>3. TypeInv'
    BY <1>2, <2>1, <2>2 DEF IInv, TypeInv
  <2>4. PublishInv'
    BY <1>1, <2>1, <2>2 DEF PublishInv, Built, PublishedIsBuilt, NotEmpty
  <2>5. Progress => Progress'
    BY <1>1, <1>2, <2>1 DEF Progress
  <2>6. ~cmd.edited /\ OwnOutputs(Drafts[cmd.of]) => Progress
    BY AtWork, <1>1
  <2>7. ArchiveInv'
    BY <2>1, <2>2, <2>5, <2>6 DEF ArchiveInv, ArchiveIsOwn, Undisturbed
  <2> QED
    BY <2>3, <2>4, <2>7 DEF IInv
<1> QED
  BY <1>3, <1>4 DEF Gate

LEMMA BuildUiKeeps ==
  ASSUME IInv, DraftsAssumption, BuildUi
  PROVE  IInv'
<1>1. IsCommand(cmd) /\ cmd.step = "ui" /\ Built /\ cmd.made = None
  BY AtWork DEF BuildUi, Step, Built
<1>2. UNCHANGED <<source, version, bundles, package, registry>>
  BY DEF BuildUi
<1>3. CASE Failed("failed") /\ UNCHANGED parts
  BY <1>1, <1>2, <1>3, EndedKeeps DEF Failed, IInv, TypeInv
<1>4. CASE (\E ui \in IF At.ui THEN UiOutcome ELSE {"built"} :
               /\ parts' = [parts EXCEPT ![At.out] = Components(Seen, cmd.at, ui, @)]
               /\ cmd' = [cmd EXCEPT !.step = "bundle", !.ui = @ /\ ui = "built"])
           /\ UNCHANGED report
  <2>1. PICK ui :
               /\ parts' = [parts EXCEPT ![At.out] = Components(Seen, cmd.at, ui, @)]
               /\ cmd' = [cmd EXCEPT !.step = "bundle", !.ui = @ /\ ui = "built"]
    BY <1>4
  <2>2. IsCommand(cmd') /\ cmd'.step = "bundle" /\ cmd'.op = cmd.op /\ cmd'.edited = cmd.edited
        /\ cmd'.ui = (cmd.ui /\ ui = "built") /\ cmd'.at = cmd.at /\ cmd'.of = cmd.of /\ cmd'.made = cmd.made
    BY <1>1, <2>1 DEF IsCommand, Steps
  <2>3. report' = None
    BY <1>1, <1>4, AtWork
  <2>4. TypeInv'
    BY <1>2, <2>1, <2>2, <2>3 DEF IInv, TypeInv
  <2>5. PublishInv'
    BY <1>1, <2>2, <2>3 DEF PublishInv, Built, PublishedIsBuilt, NotEmpty
  <2>6. ASSUME Progress
        PROVE  Progress'
    <3> DEFINE d == cmd.of
               i == cmd.at
    <3>1. Seen = Drafts[d] /\ At.out = OutOf(d, i) /\ OutOf(d, i) \in Out
      BY <2>6, SeenIsRead DEF IInv, Progress
    <3>2. parts'[OutOf(d, i)] = Components(Drafts[d], i, ui, parts[OutOf(d, i)])
      BY <2>1, <3>1 DEF IInv, TypeInv
    <3>3. Fresh(parts'[OutOf(d, i)], d, i, cmd'.ui)
      <4>1. SUFFICES ASSUME Drafts[d].matrices[i].ui, cmd'.ui
                     PROVE  Fresh(parts'[OutOf(d, i)], d, i, cmd'.ui)
        BY DEF Fresh
      <4>2. ui = "built"
        BY <4>1, <2>2
      <4> QED
        BY <3>2, <4>1, <4>2 DEF Fresh, Components
    <3>4. \A j \in DOMAIN Drafts[d].matrices :
            j < i => Own(bundles[OutOf(d, j)], d, j, cmd'.ui)
      BY <1>1, <2>2, <2>6 DEF Progress, Own
    <3> QED
      BY <1>2, <2>2, <2>6, <3>3, <3>4 DEF Progress
  <2>7. ~cmd.edited /\ OwnOutputs(Drafts[cmd.of]) => Progress
    BY AtWork, <1>1
  <2>8. ArchiveInv'
    BY <2>2, <2>3, <2>6, <2>7 DEF ArchiveInv, ArchiveIsOwn, Undisturbed
  <2> QED
    BY <2>4, <2>5, <2>8 DEF IInv
<1> QED
  BY <1>3, <1>4 DEF BuildUi

LEMMA MakeBundleKeeps ==
  ASSUME IInv, DraftsAssumption, MarksAssumption, MakeBundle
  PROVE  IInv'
<1>1. IsCommand(cmd) /\ cmd.step = "bundle" /\ Built /\ cmd.made = None
  BY AtWork DEF MakeBundle, Step, Built
<1>2. UNCHANGED <<source, version, parts, package, registry>>
  BY DEF MakeBundle
<1>3. CASE Failed("failed") /\ UNCHANGED bundles
  BY <1>1, <1>2, <1>3, EndedKeeps DEF Failed, IInv, TypeInv
<1>4. CASE ~(Failed("failed") /\ UNCHANGED bundles)
  <2> DEFINE last == cmd.at = Len(Seen.matrices)
             s == IF last THEN "archive" ELSE "ui"
             a == IF last THEN cmd.at ELSE cmd.at + 1
             d == cmd.of
             i == cmd.at
  <2>1. PICK order :
           bundles' = [bundles EXCEPT ![At.out] = Bundle(Seen, cmd.at, parts[At.out], order)]
    BY <1>4 DEF MakeBundle
  <2>2. Finishes(Seen, cmd.at) /\ report' = None
    BY <1>1, <1>4, AtWork DEF MakeBundle
  <2>3. cmd' = [cmd EXCEPT !.step = s, !.at = a, !.named = @ \cup (Named(Seen) \cap {cmd.at})]
    BY <1>4 DEF MakeBundle
  <2>4. s \in Steps
    BY DEF Steps
  <2>5. IsCommand(cmd') /\ cmd'.step = s /\ cmd'.op = cmd.op /\ cmd'.edited = cmd.edited
        /\ cmd'.ui = cmd.ui /\ cmd'.at = a /\ cmd'.of = d /\ cmd'.made = None
    BY <1>1, <2>3, <2>4 DEF IsCommand
  <2>6. TypeInv'
    BY <1>2, <2>1, <2>2, <2>5 DEF IInv, TypeInv
  <2>7. PublishInv'
    BY <2>2, <2>5 DEF PublishInv, Built, PublishedIsBuilt, NotEmpty
  <2>8. ASSUME Progress, OwnOutputs(Drafts[d])
        PROVE  Progress'
    <3>1. /\ Seen = Drafts[d] /\ At.out = OutOf(d, i)
          /\ \A j \in DOMAIN Drafts[d].matrices : OutOf(d, j) \in Out
          /\ DOMAIN Drafts[d].matrices = 1..Len(Drafts[d].matrices) /\ Len(Drafts[d].matrices) \in Nat
      BY <2>8, SeenIsRead DEF IInv
    <3>2. i \in DOMAIN Drafts[d].matrices /\ source = d
      BY <2>8 DEF Progress
    <3>3. bundles'[OutOf(d, i)] = Bundle(Drafts[d], i, parts[OutOf(d, i)], order)
      BY <2>1, <3>1, <3>2 DEF IInv, TypeInv
    <3>4. \A j \in DOMAIN Drafts[d].matrices :
            j # i => bundles'[OutOf(d, j)] = bundles[OutOf(d, j)]
      BY <2>1, <2>8, <3>1, <3>2 DEF IInv, TypeInv, OwnOutputs, OutOf
    <3>5. Own(bundles'[OutOf(d, i)], d, i, cmd.ui)
      <4>1. bundles'[OutOf(d, i)] \notin {None, Torn}
        BY <3>3 DEF MarksAssumption
      <4>2. Valid(Drafts[d], i) = Discovered(Drafts[d], i)
        BY <2>2, <3>1 DEF Finishes
      <4>3. Fresh(parts[OutOf(d, i)], d, i, cmd.ui)
        BY <1>1, <2>8 DEF Progress
      <4> QED
        BY <3>3, <4>1, <4>2, <4>3 DEF Own, Fresh, Bundle
    <3>6. \A j \in DOMAIN Drafts[d].matrices :
            j < i \/ j = i => Own(bundles'[OutOf(d, j)], d, j, cmd.ui)
      BY <1>1, <2>8, <3>1, <3>4, <3>5 DEF Progress
    <3>7. CASE last
      BY <1>2, <2>5, <3>1, <3>2, <3>6, <3>7 DEF Progress
    <3>8. CASE ~last
      BY <1>2, <2>5, <3>1, <3>2, <3>6, <3>8 DEF Progress
    <3> QED
      BY <3>7, <3>8
  <2>9. ~cmd.edited /\ OwnOutputs(Drafts[cmd.of]) => Progress
    BY AtWork, <1>1
  <2>10. ArchiveInv'
    BY <2>2, <2>5, <2>8, <2>9 DEF ArchiveInv, ArchiveIsOwn, Undisturbed
  <2> QED
    BY <2>6, <2>7, <2>10 DEF IInv
<1> QED
  BY <1>3, <1>4

LEMMA MakeArchiveKeeps ==
  ASSUME IInv, DraftsAssumption, MakeArchive
  PROVE  IInv'
<1> DEFINE new == Archive(Seen, cmd.version, bundles, cmd.named, cmd.run)
           d == cmd.of
<1>1. IsCommand(cmd) /\ cmd.step = "archive" /\ report = None
  BY AtWork DEF MakeArchive, Step
<1>2. UNCHANGED <<source, version, bundles, parts, registry>>
  BY DEF MakeArchive
<1>3. new.version = cmd.version /\ new.version \in 1..MaxVersion
  BY <1>1 DEF Archive, IsCommand
<1>4. ASSUME ~cmd.edited, OwnOutputs(Drafts[d]), NEW i \in DOMAIN Drafts[d].matrices
      PROVE  Progress /\ Own(new.contents[i], d, i, cmd.ui)
  <2>1. Progress
    BY <1>1, <1>4, AtWork
  <2>2. Seen = Drafts[d]
    BY <2>1, SeenIsRead DEF IInv
  <2>3. new.contents[i] = bundles[OutOf(d, i)]
    BY <2>2 DEF Archive, OutOf
  <2> QED
    BY <1>1, <2>1, <2>3 DEF Progress
<1> HIDE DEF new
<1>5. CASE cmd.op = "build" /\ Ended(0, "built", new)
  <2>1. cmd' = NoCommand /\ report' = [op |-> cmd.op, gate |-> cmd.gate, dry |-> cmd.dry, edited |-> cmd.edited,
                ui |-> cmd.ui, made |-> new, of |-> d, exit |-> 0, result |-> "built"]
    BY <1>5 DEF Ended
  <2>2. TypeInv' /\ PublishInv'
    BY <1>2, <1>5, <2>1 DEF IInv, TypeInv, PublishInv, PublishedIsBuilt, NotEmpty
  <2>3. ArchiveIsOwn'
    BY <1>4, <2>1 DEF ArchiveIsOwn, Undisturbed, Own
  <2> QED
    BY <2>1, <2>2, <2>3 DEF IInv, ArchiveInv
<1>6. CASE /\ cmd.op = "publish"
           /\ cmd' = [cmd EXCEPT !.step = "identify", !.made = new] /\ UNCHANGED report
           /\ package' = new
  <2>1. IsCommand(cmd') /\ cmd'.step = "identify" /\ cmd'.op = "publish" /\ cmd'.edited = cmd.edited
        /\ cmd'.ui = cmd.ui /\ cmd'.at = cmd.at /\ cmd'.of = d /\ cmd'.made = new
    BY <1>1, <1>6 DEF IsCommand, Steps
  <2>2. TypeInv'
    BY <1>1, <1>2, <1>6, <2>1 DEF IInv, TypeInv
  <2>3. PublishInv'
    BY <1>1, <1>2, <1>3, <1>6, <2>1 DEF PublishInv, Built, PublishedIsBuilt, NotEmpty
  <2>4. ASSUME ~cmd.edited, OwnOutputs(Drafts[d])
        PROVE  Progress'
    <3>1. Progress
      BY <1>1, <2>4, AtWork
    <3> QED
      BY <1>2, <1>4, <2>1, <2>4, <3>1 DEF Progress
  <2>5. ArchiveInv'
    BY <1>1, <1>6, <2>1, <2>4 DEF ArchiveInv, ArchiveIsOwn, Undisturbed
  <2> QED
    BY <2>2, <2>3, <2>5 DEF IInv
<1>7. CASE Failed("failed")
  <2>1. DOMAIN bundles' = Out /\ DOMAIN parts' = Out /\ DOMAIN registry' = 1..MaxVersion
    BY <1>2 DEF IInv, TypeInv
  <2> QED
    BY <1>1, <1>2, <1>7, <2>1, EndedKeeps DEF Failed
<1> QED
  BY <1>5, <1>6, <1>7 DEF MakeArchive, new

\* Going on from one request to the next changes nothing else.
LEMMA GotoUploadKeeps ==
  ASSUME IInv, cmd.step = "identify", Goto("upload"),
         UNCHANGED <<source, version, disk, report, registry>>
  PROVE  IInv'
<1>1. IsCommand(cmd) /\ report = None /\ Built
  BY AtWork
<1>2. IsCommand(cmd') /\ cmd'.step = "upload" /\ cmd'.op = cmd.op /\ cmd'.edited = cmd.edited
      /\ cmd'.ui = cmd.ui /\ cmd'.at = cmd.at /\ cmd'.of = cmd.of /\ cmd'.made = cmd.made
  BY <1>1, FieldsSet DEF Goto, Steps
<1>3. TypeInv'
  BY <1>1, <1>2 DEF IInv, TypeInv, disk
<1>4. PublishInv'
  BY <1>1, <1>2 DEF PublishInv, Built, PublishedIsBuilt, NotEmpty, disk
<1>5. Progress => Progress'
  BY <1>2 DEF Progress, disk
<1>6. ~cmd.edited /\ OwnOutputs(Drafts[cmd.of]) => Progress
  BY AtWork
<1>7. ArchiveInv'
  BY <1>1, <1>2, <1>5, <1>6 DEF ArchiveInv, ArchiveIsOwn, Undisturbed
<1> QED
  BY <1>3, <1>4, <1>7 DEF IInv

LEMMA IdentifyKeeps ==
  ASSUME IInv, Identify
  PROVE  IInv'
<1>1. cmd.step = "identify" /\ IsCommand(cmd)
  BY AtWork DEF Identify, Step
<1>2. UNCHANGED <<source, version, disk, registry>>
  BY DEF Identify
<1>3. CASE Goto("upload") /\ UNCHANGED report
  BY <1>1, <1>2, <1>3, GotoUploadKeeps
<1>4. CASE Failed("refused")
  BY <1>1, <1>2, <1>4, EndedKeeps DEF Failed, IInv, TypeInv, disk
<1> QED
  BY <1>3, <1>4 DEF Identify

LEMMA UploadKeeps ==
  ASSUME IInv, Upload
  PROVE  IInv'
<1>1. cmd.step = "upload" /\ IsCommand(cmd) /\ package = cmd.made /\ cmd.made.version \in 1..MaxVersion
  BY AtWork DEF Upload, Step, Built
<1>2. UNCHANGED <<source, version, disk>> /\ DOMAIN bundles' = Out /\ DOMAIN parts' = Out
  BY DEF Upload, IInv, TypeInv, disk
<1>3. DOMAIN registry' = 1..MaxVersion
  BY DEF Upload, Stored, IInv, TypeInv
<1>4. CASE \E result : Failed(result)
  BY <1>1, <1>2, <1>3, <1>4, EndedKeeps DEF Failed
<1>5. CASE registry' = Stored(package, cmd.dry) /\ Answered(Verdict(package))
  <2>1. StatusOf[Verdict(package)] = 0 => Verdict(package) = "accepted"
    BY DEF StatusOf, Verdict
  <2>2. Verdict(package) = "accepted" =>
          cmd.made # None /\ (~cmd.dry => registry'[cmd.made.version] = cmd.made)
    BY <1>1, <1>5 DEF Stored, Verdict, IInv, TypeInv
  <2> QED
    BY <1>1, <1>2, <1>3, <1>5, <2>1, <2>2, EndedKeeps DEF Answered
<1>6. CASE Answered(Verdict(None))
  <2>1. StatusOf[Verdict(None)] = 1
    BY DEF StatusOf, Verdict
  <2> QED
    BY <1>1, <1>2, <1>3, <1>6, <2>1, EndedKeeps DEF Answered
<1> QED
  BY <1>4, <1>5, <1>6 DEF Upload

LEMMA KillKeeps ==
  ASSUME IInv, Kill
  PROVE  IInv'
<1>1. cmd' = NoCommand /\ report' = None /\ UNCHANGED <<source, version, parts, registry>>
  BY DEF Kill
<1>2. DOMAIN bundles' = Out
  BY DEF Kill, IInv, TypeInv
<1> QED
  BY <1>1, <1>2 DEF IInv, TypeInv, PublishInv, PublishedIsBuilt, NotEmpty, ArchiveInv, ArchiveIsOwn, Undisturbed

\* Another checkout publishes only versions that are not there yet; the one that
\* a publish reports is.
LEMMA RivalKeeps ==
  ASSUME IInv, Rival
  PROVE  IInv'
<1>0. PICK v \in 1..MaxVersion :
        registry[v] = None /\ \E new : registry' = [registry EXCEPT ![v] = new]
  BY Zenon DEF Rival
<1>1. PICK new : registry[v] = None /\ registry' = [registry EXCEPT ![v] = new]
  BY <1>0
<1>2. UNCHANGED <<source, version, disk, cmd, report>>
  BY DEF Rival
<1>3. TypeInv'
  BY <1>1, <1>2 DEF IInv, TypeInv, disk
<1>4. PublishedIsBuilt'
  BY <1>1, <1>2 DEF IInv, PublishInv, PublishedIsBuilt, NotEmpty, TypeInv
<1>5. Built => Built'
  BY <1>2 DEF Built, disk
<1>6. Progress => Progress'
  BY <1>2 DEF Progress, disk
<1> QED
  BY <1>2, <1>3, <1>4, <1>5, <1>6 DEF IInv, PublishInv, NotEmpty, ArchiveInv, ArchiveIsOwn, Undisturbed

LEMMA StutterKeeps ==
  ASSUME IInv, UNCHANGED <<source, version, disk, cmd, report, registry>>
  PROVE  IInv'
<1>1. TypeInv' /\ PublishInv'
  BY DEF IInv, TypeInv, PublishInv, PublishedIsBuilt, NotEmpty, Built, disk
<1>2. Progress => Progress'
  BY DEF Progress, disk
<1> QED
  BY <1>1, <1>2 DEF IInv, ArchiveInv, ArchiveIsOwn, Undisturbed

-----------------------------------------------------------------------------
(* The theorems *)

LEMMA InitInv ==
  ASSUME Init, DraftsAssumption, TornAssumption
  PROVE  IInv
BY DEF Init, DraftsAssumption, TornAssumption, Draft, IInv, TypeInv, PublishInv, PublishedIsBuilt, NotEmpty,
       ArchiveInv, ArchiveIsOwn, Undisturbed

LEMMA StepInv ==
  ASSUME IInv, [Next]_vars, DraftsAssumption, MarksAssumption
  PROVE  IInv'
<1>1. CASE Edit
  BY <1>1, EditedKeeps DEF Edit, IInv, TypeInv
<1>2. CASE Bump
  BY <1>2, EditedKeeps DEF Bump, IInv, TypeInv, DraftsAssumption
<1>3. CASE Start
  BY <1>3, StartKeeps
<1>4. CASE Advance
  BY <1>4, GateKeeps, BuildUiKeeps, MakeBundleKeeps, MakeArchiveKeeps, IdentifyKeeps, UploadKeeps DEF Advance
<1>5. CASE Kill
  BY <1>5, KillKeeps
<1>6. CASE Rival
  BY <1>6, RivalKeeps
<1>7. CASE Expire \/ UNCHANGED vars
  BY <1>7, StutterKeeps DEF Expire, vars
<1> QED
  BY <1>1, <1>2, <1>3, <1>4, <1>5, <1>6, <1>7 DEF Next

\* The state of a release: what a command has made so far is made of the
\* sources it saw, and what it uploads is what it made (cmd/lifecycle.py build,
\* cmd/publish.py).
THEOREM ReleaseInvariant ==
  ASSUME DraftsAssumption, TornAssumption, MarksAssumption
  PROVE  Spec => []IInv
<1>1. Init => IInv
  BY InitInv
<1>2. IInv /\ [Next]_vars => IInv'
  BY StepInv
<1> QED
  BY <1>1, <1>2, PTL DEF Spec

\* The archive a command writes holds each matrix's own files as they are, and
\* components built from them, whatever lay on the disk before
\* (build_service.build_matrix, create_package_archive).
THEOREM ArchivesAreOwn ==
  ASSUME DraftsAssumption, TornAssumption, MarksAssumption
  PROVE  Spec => []ArchiveIsOwn
<1>1. IInv => ArchiveIsOwn
  BY DEF IInv, ArchiveInv
<1> QED
  BY <1>1, ReleaseInvariant, PTL

\* A publish that reports success left in the registry the archive it built,
\* and no other checkout replaces it (publish_client.publish).
THEOREM PublishedAreBuilt ==
  ASSUME DraftsAssumption, TornAssumption, MarksAssumption
  PROVE  Spec => []PublishedIsBuilt
<1>1. IInv => PublishedIsBuilt
  BY DEF IInv, PublishInv
<1> QED
  BY <1>1, ReleaseInvariant, PTL

-----------------------------------------------------------------------------
(* Conflicts *)

\* b is a bundle of the files of draft d, in an order the serializer may give
\* them.
BundleOf(b, d) ==
  \E i \in DOMAIN Drafts[d].matrices :
    /\ b = [matrix |-> i, files |-> Contents(Drafts[d], Discovered(Drafts[d], i)),
            order |-> b.order, parts |-> b.parts]
    /\ b.order \in Orders(Drafts[d], i)

IsBundle(b) == \E d \in Draft : BundleOf(b, d)

\* An archive of version v, of bundles.
IsArchive(a, v) ==
  /\ a = [version |-> v, named |-> a.named, stamp |-> Stamp(0), contents |-> a.contents]
  /\ a.contents = [i \in DOMAIN a.contents |-> a.contents[i]]
  /\ \A i \in DOMAIN a.contents : IsBundle(a.contents[i])

\* A bundle the command at work has made: of what it started on, if nothing was
\* edited since.
Own1(b) == IsBundle(b) /\ (~cmd.edited => BundleOf(b, cmd.of))

AtConflict ==
  cmd # NoCommand =>
    /\ cmd.of \in Draft /\ cmd.at \in DOMAIN Drafts[cmd.of].matrices
    /\ ~cmd.edited => source = cmd.of
    /\ cmd.step \in {"gate", "ui", "bundle"} =>
         \A j \in DOMAIN Drafts[cmd.of].matrices :
           j < cmd.at => Own1(bundles[OutOf(cmd.of, j)])
    /\ cmd.step = "archive" =>
         \A j \in DOMAIN Drafts[cmd.of].matrices : Own1(bundles[OutOf(cmd.of, j)])
    /\ cmd.step \in {"identify", "upload"} =>
         /\ IsArchive(cmd.made, cmd.made.version)
         /\ \A j \in DOMAIN cmd.made.contents : Own1(cmd.made.contents[j])

ArchivesInv ==
  \A v \in 1..MaxVersion : registry[v] # None => IsArchive(registry[v], v)

Refused ==
  report # None /\ report.result = "conflict" =>
    report.made.version \in 1..MaxVersion /\ registry[report.made.version] # None

ConflictInv == AtConflict /\ ArchivesInv /\ Refused /\ ConflictIsReal

\* What a command sees of a draft under another's configuration.
LEMMA ConfiguredLike ==
  ASSUME DraftsAssumption, NEW d \in Draft, NEW e \in Draft
  PROVE  LET p == Configured(Drafts[d], Drafts[e]) IN
         /\ DOMAIN p.matrices = DOMAIN Drafts[e].matrices
         /\ DOMAIN Drafts[d].matrices = DOMAIN Drafts[e].matrices
         /\ DOMAIN p.matrices = 1..Len(p.matrices) /\ Len(p.matrices) \in Nat
         /\ \A i \in DOMAIN p.matrices :
              /\ p.matrices[i].out = OutOf(e, i) /\ OutOf(e, i) \in Out
              /\ Contents(p, Discovered(p, i)) = Contents(Drafts[d], Discovered(Drafts[d], i))
              /\ Orders(p, i) = Orders(Drafts[d], i)
<1> DEFINE q == Drafts[d]
           c == Drafts[e]
           ms == [i \in DOMAIN q.matrices |->
                    [q.matrices[i] EXCEPT !.ui = c.matrices[i].ui, !.out = c.matrices[i].out]]
           p == Configured(q, c)
<1>1. q \in Project /\ c \in Project /\ Len(q.matrices) = Len(c.matrices)
  BY DEF DraftsAssumption, Draft
<1>2. /\ q.matrices \in Seq(Matrix) /\ c.matrices \in Seq(Matrix)
      /\ DOMAIN q.matrices = 1..Len(q.matrices) /\ DOMAIN c.matrices = 1..Len(c.matrices)
      /\ Len(q.matrices) \in Nat
  BY <1>1 DEF Project
<1>3. p.matrices = ms
  BY <1>1 DEF Configured, Project
<1>4. ASSUME NEW i \in DOMAIN q.matrices
      PROVE  /\ ms[i].out = c.matrices[i].out /\ ms[i].dir = q.matrices[i].dir
             /\ ms[i].specs = q.matrices[i].specs /\ ms[i].siblings = q.matrices[i].siblings
  <2>1. q.matrices[i] \in Matrix
    BY <1>2
  <2> QED
    BY <2>1 DEF Matrix
<1>5. DOMAIN p.matrices = 1..Len(q.matrices) /\ Len(p.matrices) = Len(q.matrices)
  <2> DEFINE S == {ms[i] : i \in DOMAIN q.matrices}
             n == Len(q.matrices)
  <2>1. ms \in [1..n -> S]
    BY <1>2
  <2> HIDE DEF ms, S
  <2>2. ms \in Seq(S)
    BY <1>2, <2>1
  <2> QED
    BY <1>2, <1>3, <2>1, <2>2
<1> HIDE DEF ms, p, q, c
<1>6. ASSUME NEW i \in DOMAIN p.matrices
      PROVE  /\ p.matrices[i].out = OutOf(e, i) /\ OutOf(e, i) \in Out
             /\ Contents(p, Discovered(p, i)) = Contents(q, Discovered(q, i))
             /\ Orders(p, i) = Orders(q, i)
  <2>1. /\ p.matrices[i].out = c.matrices[i].out /\ p.matrices[i].dir = q.matrices[i].dir
        /\ p.matrices[i].specs = q.matrices[i].specs /\ p.matrices[i].siblings = q.matrices[i].siblings
    BY <1>2, <1>3, <1>4, <1>5
  <2>2. Discovered(p, i) = Discovered(q, i)
    BY <2>1 DEF Discovered
  <2>3. \A w \in Discovered(q, i) : FileAt(p, w) = FileAt(q, w)
    BY <2>1 DEF Discovered, FileAt
  <2>4. Contents(p, Discovered(p, i)) = Contents(q, Discovered(q, i))
    BY <2>2, <2>3 DEF Contents
  <2>5. Orders(p, i) = Orders(q, i)
    BY <2>1 DEF Orders
  <2>6. OutOf(e, i) \in Out
    BY <1>1, <1>2, <1>5 DEF Out, OutOf, c
  <2> QED
    BY <2>1, <2>4, <2>5, <2>6 DEF OutOf, c
<1> QED
  BY <1>1, <1>2, <1>5, <1>6 DEF p, q, c

\* An order and the files it is an order of make one bundle.
LEMMA SameBundle ==
  ASSUME DraftsAssumption, NEW a, NEW b, NEW d \in Draft, IsBundle(a), BundleOf(b, d),
         [a EXCEPT !.order = 0] = [b EXCEPT !.order = 0],
         \A i \in DOMAIN Drafts[d].matrices : ~Drafts[d].matrices[i].siblings
  PROVE  a = b
<1>0. PICK e \in Draft : BundleOf(a, e)
  BY DEF IsBundle
<1>1. PICK i \in DOMAIN Drafts[e].matrices :
        /\ a = [matrix |-> i, files |-> Contents(Drafts[e], Discovered(Drafts[e], i)),
                order |-> a.order, parts |-> a.parts]
        /\ a.order \in Orders(Drafts[e], i)
  BY <1>0 DEF BundleOf
<1>2. PICK j \in DOMAIN Drafts[d].matrices :
        /\ b = [matrix |-> j, files |-> Contents(Drafts[d], Discovered(Drafts[d], j)),
                order |-> b.order, parts |-> b.parts]
        /\ b.order \in Orders(Drafts[d], j)
  BY DEF BundleOf
<1>3. a.matrix = b.matrix /\ a.files = b.files /\ a.parts = b.parts
  BY <1>1, <1>2
<1>4. i = j /\ Contents(Drafts[d], Discovered(Drafts[d], j)) = Contents(Drafts[e], Discovered(Drafts[e], j))
  BY <1>1, <1>2, <1>3
<1>5. ~Drafts[e].matrices[i].siblings
  BY <1>4 DEF DraftsAssumption, Draft
<1>6. a.order = 1 /\ b.order = 1
  BY <1>1, <1>2, <1>5 DEF Orders
<1> QED
  BY <1>1, <1>2, <1>3, <1>6

LEMMA SameArchive ==
  ASSUME DraftsAssumption, NEW a, NEW b, NEW v, NEW d \in Draft,
         IsArchive(a, v), IsArchive(b, v), SameSources(a, b),
         \A i \in DOMAIN b.contents : BundleOf(b.contents[i], d),
         \A i \in DOMAIN Drafts[d].matrices : ~Drafts[d].matrices[i].siblings
  PROVE  a = b
<1>1. \A i \in DOMAIN a.contents : a.contents[i] = b.contents[i]
  BY SameBundle DEF IsArchive, SameSources
<1>2. a.contents = b.contents
  BY <1>1 DEF IsArchive, SameSources
<1> QED
  BY <1>2 DEF IsArchive, SameSources

\* The author and the platform leave a command what it has made.
LEMMA ConflictFrame ==
  ASSUME ConflictInv, UNCHANGED <<disk, report, registry>>,
         \/ cmd = NoCommand /\ cmd' = NoCommand
         \/ IsCommand(cmd) /\ cmd' = [cmd EXCEPT !.edited = TRUE]
         \/ cmd' = cmd /\ source' = source
  PROVE  ConflictInv'
<1>1. ArchivesInv' /\ Refused' /\ ConflictIsReal'
  BY DEF ConflictInv, ArchivesInv, Refused, ConflictIsReal
<1>2. CASE cmd = NoCommand /\ cmd' = NoCommand
  BY <1>1, <1>2 DEF ConflictInv, AtConflict
<1>3. CASE IsCommand(cmd) /\ cmd' = [cmd EXCEPT !.edited = TRUE]
  <2>1. /\ cmd'.edited = TRUE /\ cmd'.step = cmd.step /\ cmd'.of = cmd.of /\ cmd'.at = cmd.at
        /\ cmd'.made = cmd.made
    BY <1>3 DEF IsCommand
  <2>2. cmd # NoCommand
    BY <1>3, FieldsSet
  <2>3. \A b : Own1(b) => Own1(b)'
    BY <2>1 DEF Own1
  <2>4. AtConflict'
    BY <2>1, <2>2, <2>3 DEF ConflictInv, AtConflict, disk
  <2> QED
    BY <1>1, <2>4 DEF ConflictInv
<1>4. CASE cmd' = cmd /\ source' = source
  <2>1. AtConflict'
    BY <1>4 DEF ConflictInv, AtConflict, Own1, disk
  <2> QED
    BY <1>1, <2>1 DEF ConflictInv
<1> QED
  BY <1>2, <1>3, <1>4

\* A command that ends otherwise than with a conflict.
LEMMA ConflictEnded ==
  ASSUME ConflictInv, IInv, cmd # NoCommand, NEW exit, NEW result, NEW made,
         Ended(exit, result, made), result # "conflict", ArchivesInv'
  PROVE  ConflictInv'
BY DEF ConflictInv, AtConflict, Refused, ConflictIsReal, Ended

LEMMA ConflictStart ==
  ASSUME ConflictInv, IInv, DraftsAssumption, Start
  PROVE  ConflictInv'
<1>1. PICK op \in {"build", "publish"}, gate \in BOOLEAN, dry \in BOOLEAN :
        cmd' = [op |-> op, gate |-> gate, dry |-> dry, edited |-> FALSE, ui |-> TRUE,
                  step |-> IF gate THEN "gate" ELSE "ui", at |-> 1, named |-> {},
                  of |-> source, version |-> version, run |-> runs, made |-> None]
  BY DEF Start
<1>2. report' = None /\ UNCHANGED <<source, version, disk, registry>>
  BY DEF Start
<1>3. cmd'.step \in {"gate", "ui"} /\ cmd'.at = 1 /\ cmd'.of = source
  BY <1>1
<1>4. source \in Draft
  BY DEF IInv, TypeInv
<1>5. 1 \in DOMAIN Drafts[source].matrices
        /\ \A j \in DOMAIN Drafts[source].matrices : ~(j < 1)
  <2>1. Drafts[source].matrices \in Seq(Matrix) /\ Len(Drafts[source].matrices) # 0
    BY <1>4 DEF Draft, DraftsAssumption, Project
  <2> QED
    BY <2>1
<1>6. AtConflict'
  BY <1>2, <1>3, <1>4, <1>5 DEF AtConflict
<1> QED
  BY <1>2, <1>6 DEF ConflictInv, ArchivesInv, Refused, ConflictIsReal

\* A command that goes on, with nothing made or changed.
LEMMA ConflictGoesOn ==
  ASSUME ConflictInv, IsCommand(cmd), cmd # NoCommand, report = None,
         cmd'.edited = cmd.edited, cmd'.of = cmd.of, cmd'.at = cmd.at, cmd'.made = cmd.made,
         \/ cmd.step \in {"gate", "ui"} /\ cmd'.step \in {"ui", "bundle"}
         \/ cmd.step = "identify" /\ cmd'.step = "upload",
         UNCHANGED <<source, bundles, report, registry>>
  PROVE  ConflictInv'
<1>1. \A b : Own1(b) => Own1(b)'
  BY DEF Own1
<1>2. AtConflict'
  BY <1>1 DEF ConflictInv, AtConflict
<1> QED
  BY <1>2 DEF ConflictInv, ArchivesInv, Refused, ConflictIsReal

LEMMA ConflictGate ==
  ASSUME ConflictInv, IInv, Gate
  PROVE  ConflictInv'
<1>1. IsCommand(cmd) /\ cmd.step = "gate" /\ report = None /\ cmd # NoCommand
  BY AtWork DEF Gate, Step
<1>2. UNCHANGED <<source, bundles, registry>>
  BY DEF Gate, disk
<1>3. CASE Failed("invalid")
  BY <1>1, <1>2, <1>3, ConflictEnded DEF Failed, ConflictInv, ArchivesInv
<1>4. CASE Goto("ui") /\ UNCHANGED report
  <2>1. cmd'.step = "ui" /\ cmd'.edited = cmd.edited /\ cmd'.of = cmd.of
        /\ cmd'.at = cmd.at /\ cmd'.made = cmd.made
    BY <1>1, <1>4, FieldsSet DEF Goto, Steps
  <2> QED
    BY <1>1, <1>2, <1>4, <2>1, ConflictGoesOn
<1> QED
  BY <1>3, <1>4 DEF Gate

LEMMA ConflictBuildUi ==
  ASSUME ConflictInv, IInv, BuildUi
  PROVE  ConflictInv'
<1>1. IsCommand(cmd) /\ cmd.step = "ui" /\ report = None /\ cmd # NoCommand
  BY AtWork DEF BuildUi, Step
<1>2. UNCHANGED <<source, bundles, registry>>
  BY DEF BuildUi
<1>3. CASE Failed("failed")
  BY <1>1, <1>2, <1>3, ConflictEnded DEF Failed, ConflictInv, ArchivesInv
<1>4. CASE (\E ui : cmd' = [cmd EXCEPT !.step = "bundle", !.ui = @ /\ ui = "built"]) /\ UNCHANGED report
  <2>1. /\ cmd'.step = "bundle" /\ cmd'.edited = cmd.edited /\ cmd'.of = cmd.of
        /\ cmd'.at = cmd.at /\ cmd'.made = cmd.made
    BY <1>1, <1>4 DEF IsCommand
  <2> QED
    BY <1>1, <1>2, <1>4, <2>1, ConflictGoesOn
<1> QED
  BY <1>3, <1>4 DEF BuildUi

LEMMA ConflictMakeBundle ==
  ASSUME ConflictInv, IInv, DraftsAssumption, MakeBundle
  PROVE  ConflictInv'
<1>1. IsCommand(cmd) /\ cmd.step = "bundle" /\ report = None /\ cmd # NoCommand
  BY AtWork DEF MakeBundle, Step
<1>2. UNCHANGED <<source, registry>>
  BY DEF MakeBundle
<1>3. CASE Failed("failed")
  BY <1>1, <1>2, <1>3, ConflictEnded DEF Failed, ConflictInv, ArchivesInv
<1>4. CASE ~Failed("failed")
  <2> DEFINE last == cmd.at = Len(Seen.matrices)
             s == IF last THEN "archive" ELSE "ui"
             a == IF last THEN cmd.at ELSE cmd.at + 1
             d == cmd.of
             i == cmd.at
  <2>1. PICK order \in Orders(Seen, i) :
           bundles' = [bundles EXCEPT ![At.out] = Bundle(Seen, i, parts[At.out], order)]
    BY <1>4 DEF MakeBundle
  <2>2. report' = None
    BY <1>1, <1>4 DEF MakeBundle
  <2>3. cmd' = [cmd EXCEPT !.step = s, !.at = a, !.named = @ \cup (Named(Seen) \cap {cmd.at})]
    BY <1>4 DEF MakeBundle
  <2>4. cmd'.step = s /\ cmd'.edited = cmd.edited /\ cmd'.at = a /\ cmd'.of = d
    BY <1>1, <2>3 DEF IsCommand
  <2>5. /\ source \in Draft /\ d \in Draft /\ i \in DOMAIN Drafts[d].matrices
        /\ ~cmd.edited => source = d
    BY <1>1 DEF IInv, TypeInv, ConflictInv, AtConflict
  <2>6. /\ DOMAIN Seen.matrices = DOMAIN Drafts[d].matrices
        /\ DOMAIN Drafts[source].matrices = DOMAIN Drafts[d].matrices
        /\ DOMAIN Seen.matrices = 1..Len(Seen.matrices) /\ Len(Seen.matrices) \in Nat
        /\ At.out = OutOf(d, i)
        /\ \A j \in DOMAIN Seen.matrices :
             /\ OutOf(d, j) \in Out
             /\ Contents(Seen, Discovered(Seen, j)) = Contents(Drafts[source], Discovered(Drafts[source], j))
             /\ Orders(Seen, j) = Orders(Drafts[source], j)
    BY <2>5, ConfiguredLike DEF Seen, Here, At
  <2> DEFINE new == Bundle(Seen, i, parts[At.out], order)
  <2>7. BundleOf(new, source)
    BY <2>1, <2>5, <2>6 DEF BundleOf, Bundle
  <2> HIDE DEF new
  <2>8. Own1(new)
    BY <2>5, <2>7 DEF Own1, IsBundle
  <2>9. \A j \in DOMAIN Drafts[d].matrices :
          bundles'[OutOf(d, j)] = IF OutOf(d, j) = OutOf(d, i) THEN new ELSE bundles[OutOf(d, j)]
    BY <2>1, <2>6 DEF IInv, TypeInv, new
  <2>10. \A j \in DOMAIN Drafts[d].matrices : j < i \/ j = i => Own1(bundles'[OutOf(d, j)])
    BY <1>1, <2>8, <2>9 DEF ConflictInv, AtConflict
  <2>11. \A b : Own1(b) => Own1(b)'
    BY <2>4 DEF Own1
  <2>12. AtConflict'
    BY <1>2, <2>4, <2>5, <2>6, <2>10, <2>11 DEF AtConflict
  <2> QED
    BY <1>2, <2>2, <2>12 DEF ConflictInv, ArchivesInv, Refused, ConflictIsReal
<1> QED
  BY <1>3, <1>4

LEMMA ConflictMakeArchive ==
  ASSUME ConflictInv, IInv, DraftsAssumption, MakeArchive
  PROVE  ConflictInv'
<1> DEFINE new == Archive(Seen, cmd.version, bundles, cmd.named, cmd.run)
           d == cmd.of
<1>1. IsCommand(cmd) /\ cmd.step = "archive" /\ report = None /\ cmd # NoCommand
  BY AtWork DEF MakeArchive, Step
<1>2. UNCHANGED <<source, bundles, registry>>
  BY DEF MakeArchive
<1>3. /\ source \in Draft /\ d \in Draft /\ cmd.at \in DOMAIN Drafts[d].matrices
      /\ ~cmd.edited => source = d
      /\ \A j \in DOMAIN Drafts[d].matrices : Own1(bundles[OutOf(d, j)])
  BY <1>1 DEF IInv, TypeInv, ConflictInv, AtConflict
<1>4. /\ DOMAIN Seen.matrices = DOMAIN Drafts[d].matrices
      /\ \A j \in DOMAIN Seen.matrices : Seen.matrices[j].out = OutOf(d, j)
  BY <1>3, ConfiguredLike DEF Seen, Here
<1>5. IsArchive(new, new.version) /\ \A j \in DOMAIN new.contents : Own1(new.contents[j])
  <2>1. DOMAIN new.contents = DOMAIN Seen.matrices
        /\ \A j \in DOMAIN new.contents : new.contents[j] = bundles[OutOf(d, j)]
    BY <1>4 DEF Archive
  <2>2. \A j \in DOMAIN new.contents : Own1(new.contents[j])
    BY <1>3, <1>4, <2>1
  <2> QED
    BY <2>2 DEF IsArchive, Archive, Own1, Stamp
<1> HIDE DEF new
<1>6. CASE Ended(0, "built", new)
  BY <1>1, <1>2, <1>6, ConflictEnded DEF ConflictInv, ArchivesInv
<1>7. CASE /\ cmd' = [cmd EXCEPT !.step = "identify", !.made = new] /\ UNCHANGED report
  <2>1. cmd'.step = "identify" /\ cmd'.edited = cmd.edited /\ cmd'.at = cmd.at /\ cmd'.of = d
        /\ cmd'.made = new
    BY <1>1, <1>7 DEF IsCommand
  <2>2. \A b : Own1(b) => Own1(b)'
    BY <2>1 DEF Own1
  <2>3. AtConflict'
    BY <1>2, <1>3, <1>5, <2>1, <2>2 DEF AtConflict
  <2> QED
    BY <1>2, <1>7, <2>3 DEF ConflictInv, ArchivesInv, Refused, ConflictIsReal
<1>8. CASE Failed("failed")
  BY <1>1, <1>2, <1>8, ConflictEnded DEF Failed, ConflictInv, ArchivesInv
<1> QED
  BY <1>6, <1>7, <1>8 DEF MakeArchive, new

LEMMA ConflictIdentify ==
  ASSUME ConflictInv, IInv, Identify
  PROVE  ConflictInv'
<1>1. cmd.step = "identify" /\ IsCommand(cmd) /\ report = None /\ cmd # NoCommand
  BY AtWork DEF Identify, Step
<1>2. UNCHANGED <<source, bundles, registry>>
  BY DEF Identify, disk
<1>3. CASE Goto("upload") /\ UNCHANGED report
  BY <1>1, <1>2, <1>3, ConflictGoesOn, FieldsSet DEF Goto, Steps
<1>4. CASE Failed("refused")
  BY <1>1, <1>2, <1>4, ConflictEnded DEF Failed, ConflictInv, ArchivesInv
<1> QED
  BY <1>3, <1>4 DEF Identify

LEMMA ConflictUpload ==
  ASSUME ConflictInv, IInv, DraftsAssumption, Upload
  PROVE  ConflictInv'
<1> DEFINE v == cmd.made.version
<1>1. cmd.step = "upload" /\ IsCommand(cmd) /\ cmd # NoCommand /\ report = None
      /\ package = cmd.made /\ v \in 1..MaxVersion
  BY AtWork DEF Upload, Step, Built
<1>2. /\ cmd.of \in Draft /\ IsArchive(cmd.made, v)
      /\ \A j \in DOMAIN cmd.made.contents : Own1(cmd.made.contents[j])
  BY <1>1 DEF ConflictInv, AtConflict
<1>3. UNCHANGED <<source, bundles>>
  BY DEF Upload, disk
<1>4. registry' = Stored(package, cmd.dry) => ArchivesInv'
  BY <1>1, <1>2 DEF Stored, ConflictInv, ArchivesInv, IInv, TypeInv
<1>5. UNCHANGED registry => ArchivesInv'
  BY DEF ConflictInv, ArchivesInv
<1>6. CASE Failed("lost") \/ Failed("refused")
  <2>1. ArchivesInv'
    BY <1>4, <1>5 DEF Upload
  <2> QED
    BY <1>1, <1>6, <2>1, ConflictEnded DEF Failed
<1>7. CASE Answered(Verdict(None)) /\ UNCHANGED registry
  <2>1. Verdict(None) # "conflict"
    BY DEF Verdict
  <2> QED
    BY <1>1, <1>5, <1>7, <2>1, ConflictEnded DEF Answered
<1>8. CASE Answered(Verdict(package)) /\ registry' = Stored(package, cmd.dry)
  <2>1. CASE Verdict(package) # "conflict"
    BY <1>1, <1>4, <1>8, <2>1, ConflictEnded DEF Answered
  <2>2. CASE Verdict(package) = "conflict"
    <3>1. registry[v] # None /\ registry[v] # cmd.made /\ registry' = registry
      BY <1>1, <1>8, <2>2 DEF Verdict, Stored
    <3>2. cmd' = NoCommand /\ report'.made = cmd.made /\ report'.of = cmd.of
          /\ report'.edited = cmd.edited
      BY <1>8 DEF Answered, Ended
    <3>3. IsArchive(registry[v], v)
      BY <1>1, <3>1 DEF ConflictInv, ArchivesInv
    <3>4. ASSUME ~cmd.edited,
                 \A i \in DOMAIN Drafts[cmd.of].matrices : ~Drafts[cmd.of].matrices[i].siblings,
                 SameSources(registry[v], cmd.made)
          PROVE  FALSE
      <4>1. \A j \in DOMAIN cmd.made.contents : BundleOf(cmd.made.contents[j], cmd.of)
        BY <1>2, <3>4 DEF Own1
      <4> QED
        BY <1>2, <3>1, <3>3, <3>4, <4>1, SameArchive
    <3>5. ConflictIsReal'
      BY <3>1, <3>2, <3>4 DEF ConflictIsReal
    <3>6. Refused'
      BY <1>1, <3>1, <3>2 DEF Refused
    <3> QED
      BY <1>5, <3>1, <3>2, <3>5, <3>6 DEF ConflictInv, AtConflict
  <2> QED
    BY <2>1, <2>2
<1> QED
  BY <1>6, <1>7, <1>8 DEF Upload

LEMMA ConflictKill ==
  ASSUME ConflictInv, Kill
  PROVE  ConflictInv'
BY DEF Kill, ConflictInv, AtConflict, ArchivesInv, Refused, ConflictIsReal

\* What another checkout publishes is an archive of a draft's own bundles.
LEMMA ConflictRival ==
  ASSUME ConflictInv, IInv, DraftsAssumption, TornAssumption, Rival
  PROVE  ConflictInv'
<1> DEFINE Built1(p) == [o \in Out |-> LET i == CHOOSE j \in DOMAIN p.matrices : p.matrices[j].out = o
                                  IN  Bundle(p, i, Components(p, i, "built", NoParts), 1)]
<1>1. PICK v \in 1..MaxVersion, d \in First :
        registry[v] = None
        /\ registry' = [registry EXCEPT ![v] = Archive(Drafts[d], v, Built1(Drafts[d]), Named(Drafts[d]), 0)]
  BY DEF Rival
<1> DEFINE p == Drafts[d]
           new == Archive(p, v, Built1(p), Named(p), 0)
<1>2. d \in Draft
  BY DEF TornAssumption, Draft
<1>3. UNCHANGED <<source, version, disk, cmd, report>>
  BY DEF Rival
<1>4. ASSUME NEW k \in DOMAIN p.matrices
      PROVE  BundleOf(new.contents[k], d)
  <2> DEFINE o == p.matrices[k].out
             i == CHOOSE j \in DOMAIN p.matrices : p.matrices[j].out = o
  <2>1. i \in DOMAIN p.matrices /\ o \in Out
    BY <1>2 DEF Out
  <2>2. new.contents[k] = Bundle(p, i, Components(p, i, "built", NoParts), 1)
    BY <2>1 DEF Archive
  <2>3. 1 \in Orders(p, i)
    BY DEF Orders
  <2> HIDE DEF i, new
  <2> QED
    BY <2>1, <2>2, <2>3 DEF BundleOf, Bundle
<1>5. IsArchive(new, v)
  <2>1. DOMAIN new.contents = DOMAIN p.matrices
        /\ new.contents = [i \in DOMAIN p.matrices |-> Built1(p)[p.matrices[i].out]]
    BY DEF Archive
  <2>2. \A i \in DOMAIN new.contents : IsBundle(new.contents[i])
    BY <1>2, <1>4, <2>1 DEF IsBundle
  <2>3. new = [version |-> v, named |-> new.named, stamp |-> Stamp(0), contents |-> new.contents]
    BY DEF Archive
  <2> HIDE DEF new
  <2> QED
    BY <2>1, <2>2, <2>3 DEF IsArchive
<1> HIDE DEF new
<1>6. ArchivesInv'
  BY <1>1, <1>5 DEF ConflictInv, ArchivesInv, IInv, TypeInv, new
<1>7. AtConflict'
  BY <1>3 DEF ConflictInv, AtConflict, Own1, disk
<1>8. Refused' /\ ConflictIsReal'
  BY <1>1, <1>3 DEF ConflictInv, Refused, ConflictIsReal, IInv, TypeInv
<1> QED
  BY <1>6, <1>7, <1>8 DEF ConflictInv

LEMMA InitConflict ==
  ASSUME Init
  PROVE  ConflictInv
BY DEF Init, ConflictInv, AtConflict, ArchivesInv, Refused, ConflictIsReal

LEMMA StepConflict ==
  ASSUME ConflictInv, IInv, [Next]_vars, DraftsAssumption, TornAssumption
  PROVE  ConflictInv'
<1>1. CASE Edit \/ Bump
  <2>1. cmd = NoCommand \/ IsCommand(cmd)
    BY DEF IInv, TypeInv
  <2>2. CASE cmd = NoCommand
    BY <1>1, <2>2, ConflictFrame DEF Edit, Bump, Edited
  <2>3. CASE cmd # NoCommand
    BY <1>1, <2>1, <2>3, ConflictFrame DEF Edit, Bump, Edited
  <2> QED
    BY <2>2, <2>3
<1>2. CASE Start
  BY <1>2, ConflictStart
<1>3. CASE Advance
  BY <1>3, ConflictGate, ConflictBuildUi, ConflictMakeBundle, ConflictMakeArchive, ConflictIdentify,
     ConflictUpload DEF Advance
<1>4. CASE Kill
  BY <1>4, ConflictKill
<1>5. CASE Rival
  BY <1>5, ConflictRival
<1>6. CASE Expire \/ UNCHANGED vars
  BY <1>6, ConflictFrame DEF Expire, vars
<1> QED
  BY <1>1, <1>2, <1>3, <1>4, <1>5, <1>6 DEF Next

\* A conflict is reported only when the registry holds other sources under the
\* version (publish_client.publish, archive_service.create_package_archive).
THEOREM ConflictsAreReal ==
  ASSUME DraftsAssumption, TornAssumption, MarksAssumption
  PROVE  Spec => []ConflictIsReal
<1>1. Init => IInv /\ ConflictInv
  BY InitInv, InitConflict
<1>2. (IInv /\ ConflictInv) /\ [Next]_vars => (IInv /\ ConflictInv)'
  BY StepInv, StepConflict
<1>3. ConflictInv => ConflictIsReal
  BY DEF ConflictInv
<1> QED
  BY <1>1, <1>2, <1>3, PTL DEF Spec

-----------------------------------------------------------------------------
(* Every command comes to an end *)

\* A command is at one of its package's matrices.
Counted ==
  cmd # NoCommand =>
    /\ cmd.of \in Draft /\ cmd.at \in 1..Len(Here.matrices)
    /\ cmd.step = "gate" => cmd.at = 1

\* All drafts have the same number of matrices, whoever reads them.
LEMMA SameNumber ==
  ASSUME DraftsAssumption, NEW d \in Draft, NEW e \in Draft
  PROVE  /\ Len(Drafts[d].matrices) \in Nat /\ Len(Drafts[d].matrices) # 0
         /\ Len(Drafts[d].matrices) = Len(Drafts[e].matrices)
         /\ Len(Configured(Drafts[d], Drafts[e]).matrices) = Len(Drafts[d].matrices)
<1>1. /\ Drafts[d].matrices \in Seq(Matrix) /\ Drafts[e].matrices \in Seq(Matrix)
      /\ Len(Drafts[d].matrices) # 0 /\ Len(Drafts[d].matrices) = Len(Drafts[e].matrices)
  BY DEF DraftsAssumption, Draft, Project
<1>2. Len(Drafts[d].matrices) \in Nat
  BY <1>1
<1> DEFINE p == Configured(Drafts[d], Drafts[e])
<1>3. DOMAIN p.matrices = DOMAIN Drafts[e].matrices /\ DOMAIN p.matrices = 1..Len(p.matrices)
      /\ Len(p.matrices) \in Nat
  BY ConfiguredLike
<1>4. DOMAIN Drafts[e].matrices = 1..Len(Drafts[e].matrices)
  BY <1>1
<1> HIDE DEF p
<1>5. 1..Len(p.matrices) = 1..Len(Drafts[d].matrices)
  BY <1>1, <1>3, <1>4
<1>6. Len(p.matrices) = Len(Drafts[d].matrices)
  <2>1. Len(p.matrices) \in 1..Len(Drafts[d].matrices)
    <3>1. 1 \in 1..Len(p.matrices)
      BY <1>1, <1>2, <1>5
    <3> QED
      BY <1>3, <1>5, <3>1
  <2>2. Len(Drafts[d].matrices) \in 1..Len(p.matrices)
    BY <1>1, <1>2, <1>5
  <2> QED
    BY <1>2, <1>3, <2>1, <2>2
<1> QED
  BY <1>1, <1>2, <1>6 DEF p

\* What a command sees has as many matrices as there are.
LEMMA SeenNumber ==
  ASSUME DraftsAssumption, TypeInv, Counted, cmd # NoCommand
  PROVE  /\ IsCommand(cmd) /\ cmd.at \in 1..Len(Here.matrices)
         /\ Len(Here.matrices) \in Nat /\ Len(Seen.matrices) = Len(Here.matrices)
<1>1. source \in Draft /\ cmd.of \in Draft /\ IsCommand(cmd)
  BY DEF TypeInv, Counted
<1> QED
  BY <1>1, SameNumber DEF Counted, Here, Seen

\* A step below the one before: what Remaining says of a command.
LEMMA RemainingIs ==
  ASSUME DraftsAssumption, TypeInv, Counted
  PROVE  LET n == Len(Here.matrices) IN
         /\ Remaining \in Nat /\ (Remaining = 0 <=> cmd = NoCommand)
         /\ cmd = NoCommand => Remaining = 0
         /\ cmd # NoCommand =>
              /\ cmd.step = "gate" => Remaining = 2 * n + 4
              /\ cmd.step = "ui" => Remaining = 2 * (n - cmd.at) + 5
              /\ cmd.step = "bundle" => Remaining = 2 * (n - cmd.at) + 4
              /\ cmd.step = "archive" => Remaining = 3
              /\ cmd.step = "identify" => Remaining = 2
              /\ cmd.step = "upload" => Remaining = 1
<1>1. CASE cmd = NoCommand
  BY <1>1 DEF Remaining, Step, NoCommand
<1>2. CASE cmd # NoCommand
  <2>1. /\ cmd.step \in Steps /\ cmd.at \in 1..Len(Here.matrices) /\ Len(Here.matrices) \in Nat
    BY <1>2, SeenNumber DEF IsCommand
  <2> QED
    BY <1>2, <2>1 DEF Remaining, Step, Steps
<1> QED
  BY <1>1, <1>2

\* A command keeps its place among the matrices, or has ended.
LEMMA Placed ==
  ASSUME DraftsAssumption, TypeInv, Counted, TypeInv', [Next]_vars
  PROVE  Counted'
<1>0. source \in Draft /\ source' \in Draft
  BY DEF TypeInv
<1>1. Len(Here.matrices)' = Len(Here.matrices) /\ Len(Here.matrices) \in Nat /\ Len(Here.matrices) # 0
  BY <1>0, SameNumber DEF Here
<1>2. CASE cmd' = NoCommand
  BY <1>2 DEF Counted
<1>3. CASE cmd' = cmd
  BY <1>1, <1>3 DEF Counted
<1>4. CASE Edited /\ cmd # NoCommand
  <2>1. /\ cmd' = [cmd EXCEPT !.edited = TRUE] /\ IsCommand(cmd)
    BY <1>4 DEF Edited, TypeInv
  <2>2. cmd'.of = cmd.of /\ cmd'.at = cmd.at /\ cmd'.step = cmd.step
    BY <2>1 DEF IsCommand
  <2> QED
    BY <1>1, <1>4, <2>2 DEF Counted
<1>5. CASE Start
  <2>1. cmd'.of = source /\ cmd'.at = 1
    BY <1>5 DEF Start
  <2> QED
    BY <1>0, <1>1, <2>1 DEF Counted
<1>6. ASSUME cmd # NoCommand, NEW s \in {"ui", "upload"}, Goto(s)
      PROVE  Counted'
  <2>1. IsCommand(cmd)
    BY <1>6 DEF TypeInv
  <2>2. cmd'.of = cmd.of /\ cmd'.at = cmd.at /\ cmd'.step = s
    BY <1>6, <2>1 DEF Goto, IsCommand
  <2> QED
    BY <1>1, <1>6, <2>2 DEF Counted
<1>7. CASE BuildUi /\ cmd' # NoCommand
  <2>1. cmd # NoCommand
    <3>1. cmd.step = "ui"
      BY <1>7 DEF BuildUi, Step
    <3> QED
      BY <3>1 DEF NoCommand
  <2>2. PICK ui : cmd' = [cmd EXCEPT !.step = "bundle", !.ui = @ /\ ui = "built"]
    BY <1>7 DEF BuildUi, Failed, Ended
  <2>3. IsCommand(cmd)
    BY <2>1 DEF TypeInv
  <2>4. cmd'.of = cmd.of /\ cmd'.at = cmd.at /\ cmd'.step = "bundle"
    BY <2>2, <2>3 DEF IsCommand
  <2> QED
    BY <1>1, <2>1, <2>4 DEF Counted
<1>8. CASE MakeBundle /\ cmd' # NoCommand
  <2>1. cmd # NoCommand
    <3>1. cmd.step = "bundle"
      BY <1>8 DEF MakeBundle, Step
    <3> QED
      BY <3>1 DEF NoCommand
  <2>2. /\ IsCommand(cmd) /\ cmd.at \in 1..Len(Here.matrices) /\ Len(Seen.matrices) = Len(Here.matrices)
    BY <2>1, SeenNumber
  <2>3. LET last == cmd.at = Len(Seen.matrices) IN
        cmd' = [cmd EXCEPT !.step = IF last THEN "archive" ELSE "ui",
                           !.at = IF last THEN @ ELSE @ + 1,
                           !.named = @ \cup (Named(Seen) \cap {cmd.at})]
    BY <1>8 DEF MakeBundle, Failed, Ended
  <2>4. /\ cmd'.of = cmd.of /\ cmd'.at = IF cmd.at = Len(Seen.matrices) THEN cmd.at ELSE cmd.at + 1
        /\ cmd'.step \in {"archive", "ui"}
    BY <2>2, <2>3 DEF IsCommand
  <2>5. cmd'.at \in 1..Len(Here.matrices)
    BY <1>1, <2>2, <2>4
  <2> QED
    BY <1>1, <2>1, <2>4, <2>5 DEF Counted
<1>9. CASE MakeArchive /\ cmd' # NoCommand
  <2>1. cmd # NoCommand
    <3>1. cmd.step = "archive"
      BY <1>9 DEF MakeArchive, Step
    <3> QED
      BY <3>1 DEF NoCommand
  <2>2. PICK made : cmd' = [cmd EXCEPT !.step = "identify", !.made = made]
    BY <1>9 DEF MakeArchive, Failed, Ended
  <2>3. IsCommand(cmd)
    BY <2>1 DEF TypeInv
  <2>4. cmd'.of = cmd.of /\ cmd'.at = cmd.at /\ cmd'.step = "identify"
    BY <2>2, <2>3 DEF IsCommand
  <2> QED
    BY <1>1, <2>1, <2>4 DEF Counted
<1>10. CASE (Gate \/ Identify) /\ cmd' # NoCommand
  <2>1. cmd # NoCommand
    <3>1. cmd.step \in {"gate", "identify"}
      BY <1>10 DEF Gate, Identify, Step
    <3> QED
      BY <3>1 DEF NoCommand
  <2>2. Goto("ui") \/ Goto("upload")
    BY <1>10 DEF Gate, Identify, Failed, Ended
  <2> QED
    BY <1>6, <2>1, <2>2
<1>11. CASE Upload
  <2>1. cmd' = NoCommand
    BY <1>11 DEF Upload, Answered, Failed, Ended
  <2> QED
    BY <1>2, <2>1
<1>12. Edited /\ cmd = NoCommand => cmd' = NoCommand
  BY DEF Edited
<1>13. Kill => cmd' = NoCommand
  BY DEF Kill
<1>14. Expire \/ Rival \/ UNCHANGED vars => cmd' = cmd
  BY DEF Expire, Rival, vars
<1>15. Edit \/ Bump => Edited
  BY DEF Edit, Bump
<1> QED
  BY <1>2, <1>3, <1>4, <1>5, <1>7, <1>8, <1>9, <1>10, <1>11, <1>12, <1>13, <1>14, <1>15 DEF Next, Advance

\* A step that ends a command leaves it nothing.
LEMMA EndLowers ==
  ASSUME DraftsAssumption, TypeInv, Counted, TypeInv', Counted', cmd # NoCommand, cmd' = NoCommand
  PROVE  Remaining' < Remaining
<1>1. Remaining \in Nat /\ Remaining # 0
  BY RemainingIs
<1>2. Remaining' = 0
  BY DEF Remaining, Step, NoCommand
<1> QED
  BY <1>1, <1>2

\* Each step of a command is one less to take.
LEMMA CommandLowers ==
  ASSUME DraftsAssumption, TypeInv, Counted, TypeInv', Counted', Advance \/ Kill
  PROVE  Remaining' < Remaining
<1>0. cmd # NoCommand
  <2>1. cmd.step # "none"
    <3>1. Advance => cmd.step \in Steps
      BY DEF Advance, Gate, BuildUi, MakeBundle, MakeArchive, Identify, Upload, Step, Steps
    <3> QED
      BY <3>1 DEF Kill, Step, Steps
  <2> QED
    BY <2>1 DEF NoCommand
<1>1. CASE cmd' = NoCommand
  BY <1>0, <1>1, EndLowers
<1>2. CASE cmd' # NoCommand
  <2>0. /\ IsCommand(cmd) /\ cmd.at \in 1..Len(Here.matrices)
        /\ Len(Here.matrices) \in Nat /\ Len(Seen.matrices) = Len(Here.matrices)
    BY <1>0, SeenNumber
  <2>1. Here' = Here
    <3>1. source' = source
      BY DEF Advance, Kill, Gate, BuildUi, MakeBundle, MakeArchive, Identify, Upload
    <3> QED
      BY <3>1 DEF Here
  <2> DEFINE n == Len(Here.matrices)
  <2>2. /\ cmd'.step = "ui" => Remaining' = 2 * (n - cmd'.at) + 5
        /\ cmd'.step = "bundle" => Remaining' = 2 * (n - cmd'.at) + 4
        /\ cmd'.step = "archive" => Remaining' = 3
        /\ cmd'.step = "identify" => Remaining' = 2
        /\ cmd'.step = "upload" => Remaining' = 1
    BY <2>1 DEF Remaining, Step
  <2>3. /\ cmd.step = "gate" => Remaining = 2 * n + 4
        /\ cmd.step = "ui" => Remaining = 2 * (n - cmd.at) + 5
        /\ cmd.step = "bundle" => Remaining = 2 * (n - cmd.at) + 4
        /\ cmd.step = "archive" => Remaining = 3
        /\ cmd.step = "identify" => Remaining = 2
    BY <1>0, RemainingIs
  <2> HIDE DEF n
  <2>4. n \in Nat /\ cmd.at \in 1..n
    BY <2>0 DEF n
  <2>5. CASE Gate
    <3>1. Goto("ui") /\ cmd.step = "gate"
      BY <1>2, <2>5 DEF Gate, Failed, Ended, Step
    <3>2. cmd'.step = "ui" /\ cmd'.at = cmd.at /\ cmd.at = 1
      BY <1>0, <2>0, <3>1 DEF Goto, IsCommand, Counted
    <3> QED
      BY <2>2, <2>3, <2>4, <3>1, <3>2
  <2>6. CASE BuildUi
    <3>1. PICK ui : cmd' = [cmd EXCEPT !.step = "bundle", !.ui = @ /\ ui = "built"]
      BY <1>2, <2>6 DEF BuildUi, Failed, Ended
    <3>2. cmd'.step = "bundle" /\ cmd'.at = cmd.at /\ cmd.step = "ui"
      BY <2>0, <2>6, <3>1 DEF BuildUi, Step, IsCommand
    <3> QED
      BY <2>2, <2>3, <2>4, <3>2
  <2>7. CASE MakeBundle
    <3>1. LET last == cmd.at = Len(Seen.matrices) IN
          cmd' = [cmd EXCEPT !.step = IF last THEN "archive" ELSE "ui",
                             !.at = IF last THEN @ ELSE @ + 1,
                             !.named = @ \cup (Named(Seen) \cap {cmd.at})]
      BY <1>2, <2>7 DEF MakeBundle, Failed, Ended
    <3>2. cmd.step = "bundle"
      BY <2>7 DEF MakeBundle, Step
    <3>3. CASE cmd.at = n
      <4>1. cmd'.step = "archive"
        BY <2>0, <3>1, <3>3 DEF IsCommand, n
      <4> QED
        BY <2>2, <2>3, <2>4, <3>2, <4>1
    <3>4. CASE cmd.at # n
      <4>1. cmd'.step = "ui" /\ cmd'.at = cmd.at + 1
        BY <2>0, <3>1, <3>4 DEF IsCommand, n
      <4> QED
        BY <2>2, <2>3, <2>4, <3>2, <4>1
    <3> QED
      BY <3>3, <3>4
  <2>8. CASE MakeArchive
    <3>1. PICK made : cmd' = [cmd EXCEPT !.step = "identify", !.made = made]
      BY <1>2, <2>8 DEF MakeArchive, Failed, Ended
    <3>2. cmd'.step = "identify" /\ cmd.step = "archive"
      BY <2>0, <2>8, <3>1 DEF MakeArchive, Step, IsCommand
    <3> QED
      BY <2>2, <2>3, <1>0, <3>2, RemainingIs
  <2>9. CASE Identify
    <3>1. Goto("upload") /\ cmd.step = "identify"
      BY <1>2, <2>9 DEF Identify, Failed, Ended, Step
    <3>2. cmd'.step = "upload"
      BY <2>0, <3>1 DEF Goto, IsCommand
    <3> QED
      BY <2>2, <2>3, <3>1, <3>2
  <2>10. CASE Upload \/ Kill
    BY <1>2, <2>10 DEF Upload, Answered, Failed, Ended, Kill
  <2> QED
    BY <2>5, <2>6, <2>7, <2>8, <2>9, <2>10 DEF Advance
<1> QED
  BY <1>1, <1>2

\* What others do meanwhile gives it no more to do.
LEMMA OthersKeepRemaining ==
  ASSUME DraftsAssumption, TypeInv, Counted, TypeInv', [Next]_vars, cmd # NoCommand, ~(Advance \/ Kill)
  PROVE  Remaining' = Remaining
<1>1. Len(Here.matrices)' = Len(Here.matrices)
  <2>1. source \in Draft /\ source' \in Draft
    BY DEF TypeInv
  <2> QED
    BY <2>1, SameNumber DEF Here
<1>2. IsCommand(cmd)
  BY DEF TypeInv
<1>3. ~Start
  BY <1>2, FieldsSet DEF Start, Step
<1>4. cmd' = cmd \/ cmd' = [cmd EXCEPT !.edited = TRUE]
  BY <1>3 DEF Next, Edit, Bump, Edited, Expire, Rival, vars
<1>5. cmd'.step = cmd.step /\ cmd'.at = cmd.at
  BY <1>2, <1>4 DEF IsCommand
<1> QED
  BY <1>1, <1>5 DEF Remaining, Step

\* No build and no publish runs forever, whatever the drafts, the registry's
\* answers and the edits made meanwhile: its steps are counted when it starts
\* (cmd/lifecycle.py build, cmd/publish.py).
THEOREM CommandsRunOut ==
  ASSUME DraftsAssumption, TornAssumption, MarksAssumption
  PROVE  Spec => CommandsDescend
<1> DEFINE Number == Remaining \in Nat /\ (Remaining = 0 <=> cmd = NoCommand)
           Less == /\ Advance \/ Kill => Remaining' < Remaining
                   /\ cmd # NoCommand /\ ~(Advance \/ Kill) => Remaining' = Remaining
<1>1. Init => Counted
  BY DEF Init, Counted
<1>2. IInv /\ IInv' /\ Counted /\ [Next]_vars => Counted'
  BY Placed DEF IInv
<1>3. IInv /\ Counted => Number
  BY RemainingIs DEF IInv
<1>4. IInv /\ IInv' /\ Counted /\ Counted' /\ [Next]_vars => [Less]_vars
  BY CommandLowers, OthersKeepRemaining DEF IInv
<1> QED
  BY <1>1, <1>2, <1>3, <1>4, ReleaseInvariant, PTL DEF Spec, CommandsDescend

=============================================================================
