-------------------------- MODULE LspServer_proofs --------------------------
(***************************************************************************)
(* Proofs about LspServer, for all folders, documents, projects, contents  *)
(* and bounds that satisfy its assumptions.                                *)
(*                                                                         *)
(* Squiggles holds at each refresh because the projects' documents are     *)
(* apart; Current says what LastIsCurrent leaves open while a save is in   *)
(* the inbox or a task waits.                                              *)
(***************************************************************************)
EXTENDS LspServer, WellFoundedInduction, TLAPS

\* What is published of p is what content r has, and that is the content of the
\* kept result or could not be replaced by it.
PublishedOf(p, r) ==
  /\ published[p] = IF r = 0 THEN {} ELSE Findings[p][r]
  /\ \A f \in published[p] : shown[f] = r
  /\ r = cached[p] \/ (cached[p] # 0 /\ Unreadable[p][cached[p]])

\* What the editor shows is what each project has published.
Squiggles ==
  /\ \A p \in Folder : \E r \in Contents : PublishedOf(p, r)
  /\ \A f \in File : shown[f] # 0 => \E p \in Folder : f \in published[p]

SavesHandled == \A i \in DOMAIN inbox : inbox[i].kind # "save"

\* The task that waits is for the last file, and without one that file's
\* project is as it was last saved.
Current ==
  last # None =>
    /\ task # "none" => pending = last
    /\ task = "none" /\ SavesHandled /\ Nearest(last) # None =>
         LET p == Nearest(last)
         IN  Breaks[p][disk[p]] \/ (cached[p] = disk[p] /\ projectFor[last] = p)

\* The part of the types that a refresh changes.
Results ==
  /\ cached \in [Folder -> Contents] /\ published \in [Folder -> SUBSET File]
  /\ warned \subseteq Folder /\ shown \in [File -> Contents]

Inbox ==
  inbox \in Seq([kind : {"initialized", "save", "open", "hover"}, file : File \cup {None}])

IInv == TypeOK /\ Inbox /\ Squiggles /\ Current

-----------------------------------------------------------------------------
(* Lemmas about the folders *)

\* The nearest project of a document is one of the folders that have a
\* poliglot.yml (_find_project_root).
LEMMA NearestIsProject ==
  ASSUME NEW f \in File, NEW Y \in SUBSET Folder, ymls = Y
  PROVE  Nearest(f) \in Folder \cup {None} /\ (Nearest(f) # None => Nearest(f) \in ymls)
<1> DEFINE holds == {i \in DOMAIN Chain[f] : Chain[f][i] \in ymls}
<1>1. Chain[f] \in Seq(Folder)
  BY LspFolderAssumption
<1>2. DOMAIN Chain[f] = 1 .. Len(Chain[f]) /\ Len(Chain[f]) \in Nat
  BY <1>1
<1>3. CASE holds = {}
  BY <1>3 DEF Nearest
<1>4. CASE holds # {}
  <2>1. PICK n \in holds : TRUE
    BY <1>4
  <2>2. holds \subseteq Nat
    BY <1>2
  <2>3. \E i \in holds : \A j \in holds : i <= j
    <3>1. \E i \in holds : \A j \in holds : ~ (<<j, i>> \in OpToRel(<, Nat))
      BY <1>4, <2>2, WFMin, NatLessThanWellFounded, Zenon
    <3>2. \A i, j \in Nat : ~ (<<j, i>> \in OpToRel(<, Nat)) => i <= j
      BY DEF OpToRel
    <3> QED
      BY <2>2, <3>1, <3>2
  <2>4. DEFINE first == CHOOSE i \in holds : \A j \in holds : i <= j
  <2>5. first \in holds
    BY <2>3
  <2>6. Nearest(f) = Chain[f][first]
    BY <1>4 DEF Nearest
  <2> QED
    BY <2>5, <2>6
<1> QED
  BY <1>3, <1>4

\* The documents of two projects are apart.
LEMMA ScopesAreApart ==
  ASSUME NEW p \in Folder, NEW q \in Folder, p # q, NEW r \in Rev, NEW s \in Rev
  PROVE  Findings[p][r] \cap Findings[q][s] = {} /\ Findings[p][r] \subseteq File
BY LspScopeAssumption, LspContentAssumption

-----------------------------------------------------------------------------
(* Refreshes *)

\* What publishes nothing leaves the squiggles as they are.
LEMMA SquigglesStay ==
  ASSUME Squiggles, UNCHANGED <<cached, published, shown>>
  PROVE  Squiggles'
<1>1. \A p \in Folder, r \in Contents : PublishedOf(p, r)' <=> PublishedOf(p, r)
  BY DEF PublishedOf
<1> QED
  BY <1>1 DEF Squiggles, Contents

\* A refresh of one project keeps the squiggles true, its own and the others'.
LEMMA RefreshKeeps ==
  ASSUME TypeOK, Squiggles, NEW p \in Folder, Refresh(p)
  PROVE  /\ Results' /\ Squiggles'
         /\ \A q \in Folder : cached[q] = disk[q] => cached'[q] = disk[q]
         /\ Breaks[p][disk[p]] \/ cached'[p] = disk[p]
<1>1. CASE Breaks[p][disk[p]]
  <2>1. UNCHANGED <<cached, published, warned, shown>>
    BY <1>1 DEF Refresh
  <2> QED
    BY <1>1, <2>1, SquigglesStay DEF TypeOK, Results
<1>2. CASE ~Breaks[p][disk[p]] /\ Unreadable[p][disk[p]]
  <2>1. /\ cached' = [cached EXCEPT ![p] = disk[p]]
        /\ warned' \subseteq warned \cup {p}
        /\ UNCHANGED <<published, shown>>
    BY <1>2 DEF Refresh
  <2>2. disk[p] \in Contents /\ disk[p] # 0
    BY LspContentAssumption DEF TypeOK, Rev, Contents
  <2>3. Results'
    BY <2>1, <2>2 DEF TypeOK, Results
  <2>4. cached'[p] = disk[p] /\ \A q \in Folder : q # p => cached'[q] = cached[q]
    BY <2>1 DEF TypeOK
  <2>5. ASSUME NEW q \in Folder
        PROVE  \E r \in Contents : PublishedOf(q, r)'
    <3>1. PICK r \in Contents : PublishedOf(q, r)
      BY DEF Squiggles
    <3>2. r = cached'[q] \/ (cached'[q] # 0 /\ Unreadable[q][cached'[q]])
      BY <1>2, <2>2, <2>4, <3>1 DEF PublishedOf
    <3>3. PublishedOf(q, r)'
      BY <2>1, <3>1, <3>2 DEF PublishedOf
    <3> QED
      BY <3>3
  <2>6. Squiggles'
    BY <2>1, <2>5 DEF Squiggles, Contents
  <2> QED
    BY <2>3, <2>4, <2>6
<1>3. CASE ~Breaks[p][disk[p]] /\ ~Unreadable[p][disk[p]]
  <2> DEFINE found == Findings[p][disk[p]]
  <2>1. /\ cached' = [cached EXCEPT ![p] = disk[p]]
        /\ warned' \subseteq warned \cup {p}
        /\ shown' = [f \in File |-> IF f \in found THEN disk[p]
                                    ELSE IF f \in published[p] THEN 0 ELSE shown[f]]
        /\ published' = [published EXCEPT ![p] = found]
    BY <1>3 DEF Refresh, Publish
  <2>2. disk[p] \in Rev /\ disk[p] # 0 /\ Rev \subseteq Contents /\ 0 \in Contents
    BY LspContentAssumption DEF TypeOK, Rev, Contents
  <2>3. found \subseteq File
    BY <2>2, LspContentAssumption
  <2> HIDE DEF found
  <2>4. Results'
    BY <2>1, <2>2, <2>3 DEF TypeOK, Results
  <2>5. ASSUME NEW q \in Folder, q # p
        PROVE  published[q] \cap found = {} /\ published[q] \cap published[p] = {}
    <3>1. PICK r \in Contents : PublishedOf(q, r)
      BY DEF Squiggles
    <3>2. PICK s \in Contents : PublishedOf(p, s)
      BY DEF Squiggles
    <3>3. (r # 0 => r \in Rev) /\ (s # 0 => s \in Rev)
      BY DEF Contents, Rev
    <3>4. published[q] \cap found = {}
      BY <2>2, <2>5, <3>1, <3>3, ScopesAreApart DEF PublishedOf, found
    <3>5. published[q] \cap published[p] = {}
      BY <2>5, <3>1, <3>2, <3>3, ScopesAreApart DEF PublishedOf
    <3> QED
      BY <3>4, <3>5
  <2>6. PICK d \in Rev : d = disk[p]
    BY <2>2
  <2>7. PublishedOf(p, d)'
    <3>1. published'[p] = Findings[p][d] /\ cached'[p] = d
      BY <2>1, <2>6 DEF TypeOK, found
    <3>2. \A f \in Findings[p][d] : shown'[f] = d
      BY <2>1, <2>3, <2>6 DEF found
    <3> QED
      BY <2>2, <2>6, <3>1, <3>2 DEF PublishedOf
  <2>8. ASSUME NEW q \in Folder, q # p
        PROVE  \E r \in Contents : PublishedOf(q, r)'
    <3>1. PICK r \in Contents : PublishedOf(q, r)
      BY DEF Squiggles
    <3>2. published'[q] = published[q] /\ cached'[q] = cached[q]
      BY <2>1, <2>8 DEF TypeOK
    <3>3. \A f \in published[q] : f \in File /\ f \notin found /\ f \notin published[p]
      BY <2>5, <2>8 DEF TypeOK
    <3>4. \A f \in published[q] : shown'[f] = shown[f]
      BY <2>1, <3>3
    <3>5. PublishedOf(q, r)'
      BY <3>1, <3>2, <3>4 DEF PublishedOf
    <3> QED
      BY <3>5
  <2>9. ASSUME NEW f \in File, shown'[f] # 0
        PROVE  \E q \in Folder : f \in published'[q]
    <3>1. CASE f \in found
      BY <2>1, <3>1 DEF TypeOK
    <3>2. CASE f \notin found
      <4>1. f \notin published[p] /\ shown[f] # 0
        BY <2>1, <2>9, <3>2
      <4>2. PICK q \in Folder : f \in published[q]
        BY <4>1 DEF Squiggles
      <4>3. q # p
        BY <4>1, <4>2
      <4> QED
        BY <2>1, <4>2, <4>3 DEF TypeOK
    <3> QED
      BY <3>1, <3>2
  <2>10. Squiggles'
    BY <2>2, <2>7, <2>8, <2>9 DEF Squiggles, Contents
  <2>11. \A q \in Folder : cached[q] = disk[q] => cached'[q] = disk[q]
    BY <2>1 DEF TypeOK
  <2>12. cached'[p] = disk[p]
    BY <2>1 DEF TypeOK
  <2> QED
    BY <2>4, <2>10, <2>11, <2>12
<1> QED
  BY <1>1, <1>2, <1>3

\* So does whatever a handler may do about one project.
LEMMA RefreshesKeep ==
  ASSUME TypeOK, Squiggles, RefreshNothing \/ \E p \in Folder : Refresh(p)
  PROVE  /\ Results' /\ Squiggles'
         /\ \A q \in Folder : cached[q] = disk[q] => cached'[q] = disk[q]
<1>1. CASE RefreshNothing
  BY <1>1, SquigglesStay DEF RefreshNothing, TypeOK, Results
<1>2. CASE \E p \in Folder : Refresh(p)
  BY <1>2, RefreshKeeps
<1> QED
  BY <1>1, <1>2

\* The refresh of the workspace folder is one of these.
LEMMA RootIsOne ==
  ASSUME RefreshRoot
  PROVE  RefreshNothing \/ \E p \in Folder : Refresh(p)
BY LspFolderAssumption DEF RefreshRoot

-----------------------------------------------------------------------------
(* The invariant *)

LEMMA InitInv ==
  ASSUME Init PROVE IInv
<1>1. 1 \in Rev /\ 0 \in Contents
  BY LspContentAssumption DEF Rev, Contents
<1>2. TypeOK
  BY <1>1, LspFolderAssumption DEF Init, TypeOK
<1>3. Inbox
  BY DEF Init, Inbox
<1>4. Squiggles
  <2>1. \A p \in Folder : PublishedOf(p, 0)
    BY DEF Init, PublishedOf
  <2>2. \A f \in File : shown[f] = 0
    BY DEF Init
  <2> QED
    BY <1>1, <2>1, <2>2 DEF Squiggles
<1>5. Current
  BY DEF Init, Current
<1> QED
  BY <1>2, <1>3, <1>4, <1>5 DEF IInv

\* A message of the editor: the saves handled were so before it.
LEMMA MessageKeeps ==
  ASSUME Inbox, NEW k \in {"save", "open", "hover"}, NEW f \in File, Message(k, f)
  PROVE  Inbox' /\ (SavesHandled' => SavesHandled /\ k # "save")
<1> DEFINE m == [kind |-> k, file |-> f]
<1>1. inbox' = Append(inbox, m)
  BY DEF Message
<1>2. Inbox'
  BY <1>1 DEF Inbox
<1>3. ASSUME SavesHandled'
      PROVE  SavesHandled /\ k # "save"
  <2>1. Len(inbox) \in Nat /\ DOMAIN inbox = 1 .. Len(inbox)
    BY DEF Inbox
  <2>2. DOMAIN inbox' = 1 .. Len(inbox) + 1 /\ inbox'[Len(inbox) + 1] = m
    BY <1>1 DEF Inbox
  <2>3. \A i \in DOMAIN inbox : inbox'[i] = inbox[i]
    BY <1>1, <2>1 DEF Inbox
  <2>4. inbox'[Len(inbox) + 1].kind # "save"
    BY <1>3, <2>1, <2>2 DEF SavesHandled
  <2>5. \A i \in DOMAIN inbox : inbox[i].kind # "save"
    BY <1>3, <2>1, <2>2, <2>3 DEF SavesHandled
  <2> QED
    BY <2>2, <2>4, <2>5 DEF SavesHandled
<1> QED
  BY <1>2, <1>3

\* A message is taken: a save that waited may be the one taken, no other goes.
LEMMA TakeKeeps ==
  ASSUME Inbox, NEW k, Take(k)
  PROVE  Inbox' /\ (SavesHandled' /\ k # "save" => SavesHandled)
<1>1. inbox # <<>> /\ inbox' = Tail(inbox) /\ Head(inbox).kind = k
  BY DEF Take
<1>2. Inbox'
  BY <1>1 DEF Inbox
<1>3. ASSUME SavesHandled', k # "save", NEW i \in DOMAIN inbox
      PROVE  inbox[i].kind # "save"
  <2>1. Len(inbox) \in Nat \ {0} /\ DOMAIN inbox = 1 .. Len(inbox)
    BY <1>1 DEF Inbox
  <2>2. CASE i = 1
    BY <1>1, <1>3, <2>2 DEF Inbox
  <2>3. CASE i # 1
    <3>1. i - 1 \in DOMAIN inbox' /\ inbox'[i - 1] = inbox[i]
      BY <1>1, <1>3, <2>1, <2>3 DEF Inbox
    <3> QED
      BY <1>3, <3>1 DEF SavesHandled
  <2> QED
    BY <2>2, <2>3
<1> QED
  BY <1>2, <1>3 DEF SavesHandled

LEMMA SaveFileKeeps ==
  ASSUME IInv, NEW f \in File, SaveFile(f)
  PROVE  IInv'
<1>1. Message("save", f) /\ UNCHANGED <<ymls, moves, server, shown, served, last>>
  BY DEF SaveFile
<1>2. Inbox' /\ ~SavesHandled'
  BY <1>1, MessageKeeps DEF IInv
<1>3. disk' \in [Folder -> Rev]
  <2> DEFINE p == Nearest(f)
  <2>1. CASE p # None /\ disk[p] < MaxRev
    <3>1. p \in Folder
      BY <2>1, NearestIsProject DEF IInv, TypeOK
    <3>2. disk[p] + 1 \in Rev
      BY <2>1, <3>1, LspContentAssumption DEF IInv, TypeOK, Rev
    <3>3. disk' = [disk EXCEPT ![p] = disk[p] + 1]
      BY <2>1 DEF SaveFile
    <3> QED
      BY <3>2, <3>3 DEF IInv, TypeOK
  <2>2. CASE ~(p # None /\ disk[p] < MaxRev)
    BY <2>2 DEF SaveFile, IInv, TypeOK
  <2> QED
    BY <2>1, <2>2
<1>4. TypeOK'
  BY <1>1, <1>3 DEF IInv, TypeOK, server
<1>5. Squiggles'
  BY <1>1, SquigglesStay DEF IInv, server
<1>6. Current'
  BY <1>1, <1>2 DEF IInv, Current, server
<1> QED
  BY <1>2, <1>4, <1>5, <1>6 DEF IInv

LEMMA AskKeeps ==
  ASSUME IInv, NEW f \in File, OpenFile(f) \/ Ask(f)
  PROVE  IInv'
<1>1. PICK k \in {"open", "hover"} : Message(k, f)
  BY DEF OpenFile, Ask
<1>2. UNCHANGED <<ymls, disk, moves, server, shown, served, last>>
  BY DEF OpenFile, Ask
<1>3. Inbox' /\ (SavesHandled' => SavesHandled)
  BY <1>1, MessageKeeps DEF IInv
<1>4. TypeOK' /\ Squiggles'
  BY <1>2, SquigglesStay DEF IInv, TypeOK, server
<1>5. Current'
  BY <1>2, <1>3 DEF IInv, Current, Nearest, server
<1> QED
  BY <1>3, <1>4, <1>5 DEF IInv

LEMMA MoveYmlKeeps ==
  ASSUME IInv, NEW p \in Folder, MoveYml(p)
  PROVE  IInv'
<1>1. ymls' \subseteq Folder /\ last' = None
  BY DEF MoveYml, IInv, TypeOK
<1>2. UNCHANGED <<disk, inbox, sent, server, shown, served>>
  BY DEF MoveYml
<1>3. Squiggles'
  BY <1>2, SquigglesStay DEF IInv, server
<1> QED
  BY <1>1, <1>2, <1>3 DEF IInv, TypeOK, Inbox, Contents, Current, server

LEMMA OnInitializedKeeps ==
  ASSUME IInv, OnInitialized
  PROVE  IInv'
<1>1. /\ Take("initialized") /\ RefreshRoot
      /\ UNCHANGED <<ymls, disk, projectFor, task, pending, served, last>>
  BY DEF OnInitialized, Take
<1>2. Inbox' /\ (SavesHandled' => SavesHandled)
  BY <1>1, TakeKeeps DEF IInv
<1>3. /\ Results' /\ Squiggles'
      /\ \A q \in Folder : cached[q] = disk[q] => cached'[q] = disk[q]
  BY <1>1, RootIsOne, RefreshesKeep DEF IInv
<1>4. TypeOK'
  BY <1>1, <1>3 DEF IInv, TypeOK, Results
<1>5. \A f \in File : Nearest(f)' = Nearest(f) /\ Nearest(f) \in Folder \cup {None}
  <2>1. \A f \in File : Nearest(f)' = Nearest(f)
    BY <1>1 DEF Nearest
  <2>2. \A f \in File : Nearest(f) \in Folder \cup {None}
    BY NearestIsProject DEF IInv, TypeOK
  <2> QED
    BY <2>1, <2>2
<1>6. Current'
  BY <1>1, <1>2, <1>3, <1>5 DEF IInv, TypeOK, Current
<1> QED
  BY <1>2, <1>3, <1>4, <1>6 DEF IInv

LEMMA ScheduleKeeps ==
  ASSUME IInv, OnSave \/ OnOpen
  PROVE  IInv'
<1>1. PICK k \in {"save", "open"}, f \in File : Take(k) /\ Schedule(f)
  BY DEF OnSave, OnOpen
<1>2. /\ pending' = f /\ task' = "sleeping" /\ last' = f
      /\ UNCHANGED <<ymls, disk, projectFor, cached, published, warned, shown, served>>
  BY <1>1 DEF Schedule, Take
<1>3. Inbox'
  BY <1>1, TakeKeeps DEF IInv
<1>4. TypeOK' /\ Squiggles'
  BY <1>2, SquigglesStay DEF IInv, TypeOK
<1>5. Current'
  BY <1>2 DEF Current
<1> QED
  BY <1>3, <1>4, <1>5 DEF IInv

LEMMA OnHoverKeeps ==
  ASSUME IInv, OnHover
  PROVE  IInv'
<1>1. PICK f \in File : /\ Take("hover")
                       /\ LET p == IF projectFor[f] # None THEN projectFor[f] ELSE Nearest(f)
                              cold == IF p # None THEN cached[p] = 0 ELSE \A q \in Folder : cached[q] = 0
                          IN  /\ projectFor' = [projectFor EXCEPT ![f] = p]
                              /\ CASE cold /\ p # None -> Refresh(p)
                                   [] cold /\ p = None -> RefreshRoot
                                   [] OTHER -> RefreshNothing
  BY DEF OnHover
<1> DEFINE p == IF projectFor[f] # None THEN projectFor[f] ELSE Nearest(f)
           cold == IF p # None THEN cached[p] = 0 ELSE \A q \in Folder : cached[q] = 0
<1>2. p \in Folder \cup {None} /\ projectFor' = [projectFor EXCEPT ![f] = p]
  BY <1>1, NearestIsProject DEF IInv, TypeOK
<1>3. RefreshNothing \/ \E q \in Folder : Refresh(q)
  <2>1. CASE cold /\ p # None
    BY <1>1, <1>2, <2>1
  <2>2. CASE cold /\ p = None
    BY <1>1, <2>2, RootIsOne
  <2>3. CASE ~cold
    BY <1>1, <2>3
  <2> QED
    BY <2>1, <2>2, <2>3
<1>4. UNCHANGED <<ymls, disk, task, pending, last>>
  BY DEF OnHover, Take
<1>5. Inbox' /\ (SavesHandled' => SavesHandled)
  BY <1>1, TakeKeeps DEF IInv
<1>6. /\ Results' /\ Squiggles'
      /\ \A q \in Folder : cached[q] = disk[q] => cached'[q] = disk[q]
  BY <1>3, RefreshesKeep DEF IInv
<1>7. TypeOK'
  BY <1>2, <1>4, <1>6 DEF IInv, TypeOK, Results
<1>8. \A g \in File : Nearest(g)' = Nearest(g) /\ Nearest(g) \in Folder \cup {None}
  <2>1. \A g \in File : Nearest(g)' = Nearest(g)
    BY <1>4 DEF Nearest
  <2>2. \A g \in File : Nearest(g) \in Folder \cup {None}
    BY NearestIsProject DEF IInv, TypeOK
  <2> QED
    BY <2>1, <2>2
<1>9. \A g \in File : projectFor[g] # None => projectFor'[g] = projectFor[g]
  BY <1>2 DEF IInv, TypeOK
<1>10. Current'
  BY <1>4, <1>5, <1>6, <1>8, <1>9 DEF IInv, TypeOK, Current
<1> QED
  BY <1>5, <1>6, <1>7, <1>10 DEF IInv

LEMMA ElapseKeeps ==
  ASSUME IInv, Elapse
  PROVE  IInv'
<1>1. UNCHANGED <<cached, published, shown>>
  BY DEF Elapse
<1>2. Squiggles'
  BY <1>1, SquigglesStay DEF IInv
<1>3. TypeOK' /\ Inbox'
  BY DEF Elapse, IInv, TypeOK, Inbox
<1>4. Current'
  BY DEF Elapse, IInv, Current
<1> QED
  BY <1>2, <1>3, <1>4 DEF IInv

LEMMA FireKeeps ==
  ASSUME IInv, Fire
  PROVE  IInv'
<1>1. /\ task = "due" /\ task' = "none" /\ pending' = None
      /\ UNCHANGED <<ymls, disk, inbox, sent, moves, served, last>>
  BY DEF Fire
<1>2. \A g \in File : Nearest(g)' = Nearest(g) /\ Nearest(g) \in Folder \cup {None}
  <2>1. \A g \in File : Nearest(g)' = Nearest(g)
    BY <1>1 DEF Nearest
  <2>2. \A g \in File : Nearest(g) \in Folder \cup {None}
    BY NearestIsProject DEF IInv, TypeOK
  <2> QED
    BY <2>1, <2>2
<1>3. CASE pending = None
  <2>1. RefreshRoot /\ UNCHANGED projectFor
    BY <1>3 DEF Fire
  <2>2. Results' /\ Squiggles'
    BY <2>1, RootIsOne, RefreshesKeep DEF IInv
  <2>3. TypeOK' /\ Inbox'
    BY <1>1, <2>1, <2>2 DEF IInv, TypeOK, Results, Inbox
  <2>4. last' = None
    BY <1>1, <1>3 DEF IInv, Current
  <2> QED
    BY <2>2, <2>3, <2>4 DEF IInv, Current
<1>4. CASE pending # None
  <2> DEFINE f == pending
             p == Nearest(f)
  <2>1. f \in File /\ RefreshFor(f) /\ p \in Folder \cup {None}
    BY <1>2, <1>4 DEF Fire, IInv, TypeOK
  <2>2. CASE p = None
    <3>1. RefreshNothing /\ UNCHANGED projectFor
      BY <2>1, <2>2 DEF RefreshFor
    <3>2. Results' /\ Squiggles'
      BY <3>1, RefreshesKeep DEF IInv
    <3>3. TypeOK' /\ Inbox'
      BY <1>1, <3>1, <3>2 DEF IInv, TypeOK, Results, Inbox
    <3>4. last' # None => last' = f
      BY <1>1 DEF IInv, Current
    <3>5. Current'
      BY <1>1, <1>2, <2>1, <2>2, <3>4 DEF Current
    <3> QED
      BY <3>2, <3>3, <3>5 DEF IInv
  <2>3. CASE p # None
    <3>1. Refresh(p) /\ projectFor' = [projectFor EXCEPT ![f] = p]
      BY <2>1, <2>3 DEF RefreshFor
    <3>2. Results' /\ Squiggles' /\ (Breaks[p][disk[p]] \/ cached'[p] = disk[p])
      BY <2>1, <2>3, <3>1, RefreshKeeps DEF IInv
    <3>3. TypeOK' /\ Inbox'
      BY <1>1, <2>1, <2>3, <3>1, <3>2 DEF IInv, TypeOK, Results, Inbox
    <3>4. last' # None => last' = f
      BY <1>1 DEF IInv, Current
    <3>5. projectFor'[f] = p
      BY <2>1, <3>1 DEF IInv, TypeOK
    <3>6. Current'
      BY <1>1, <1>2, <2>1, <3>2, <3>4, <3>5 DEF Current
    <3> QED
      BY <3>2, <3>3, <3>6 DEF IInv
  <2> QED
    BY <2>1, <2>2, <2>3
<1> QED
  BY <1>3, <1>4

LEMMA StepInv ==
  ASSUME IInv, [Next]_vars
  PROVE  IInv'
<1>1. CASE \E f \in File : SaveFile(f) \/ OpenFile(f) \/ Ask(f)
  BY <1>1, SaveFileKeeps, AskKeeps
<1>2. CASE \E p \in Folder : MoveYml(p)
  BY <1>2, MoveYmlKeeps
<1>3. CASE OnInitialized
  BY <1>3, OnInitializedKeeps
<1>4. CASE OnSave \/ OnOpen
  BY <1>4, ScheduleKeeps
<1>5. CASE OnHover
  BY <1>5, OnHoverKeeps
<1>6. CASE Elapse
  BY <1>6, ElapseKeeps
<1>7. CASE Fire
  BY <1>7, FireKeeps
<1>8. CASE UNCHANGED vars
  <2>1. Squiggles'
    BY <1>8, SquigglesStay DEF vars, server, IInv
  <2>2. TypeOK' /\ Inbox' /\ Current'
    BY <1>8 DEF vars, server, IInv, TypeOK, Inbox, Current, SavesHandled, Nearest
  <2> QED
    BY <2>1, <2>2 DEF IInv
<1> QED
  BY <1>1, <1>2, <1>3, <1>4, <1>5, <1>6, <1>7, <1>8 DEF Next, Author, Server

\* The invariant holds of every reachable state of the server and its editor.
THEOREM Invariant == Spec => []IInv
<1>1. Init => IInv
  BY InitInv
<1>2. IInv /\ [Next]_vars => IInv'
  BY StepInv
<1> QED
  BY <1>1, <1>2, PTL DEF Spec

-----------------------------------------------------------------------------
(* The properties *)

\* Type correctness of the language server.
THEOREM TypeCorrect == Spec => []TypeOK
<1>1. IInv => TypeOK
  BY DEF IInv
<1> QED
  BY <1>1, Invariant, PTL

\* What is marked for a project is published by it, for no other could.
LEMMA MarkedIsPublished ==
  ASSUME TypeOK, Squiggles, NEW p \in Folder
  PROVE  Marked(p) = published[p]
<1>1. ASSUME NEW q \in Folder, NEW f \in published[q]
      PROVE  \E r \in Rev : f \in Findings[q][r] /\ shown[f] = r
  <2>1. PICK r \in Contents : PublishedOf(q, r)
    BY DEF Squiggles
  <2>2. r # 0 /\ f \in Findings[q][r] /\ shown[f] = r
    BY <1>1, <2>1 DEF PublishedOf
  <2> QED
    BY <2>2 DEF Contents, Rev
<1>2. ASSUME NEW f \in published[p]
      PROVE  f \in Marked(p)
  <2>1. PICK r \in Rev : f \in Findings[p][r] /\ shown[f] = r
    BY <1>1, <1>2
  <2> QED
    BY <2>1 DEF Marked, Rev
<1>3. ASSUME NEW f \in Marked(p)
      PROVE  f \in published[p]
  <2>1. PICK r \in Rev : f \in Findings[p][r]
    BY <1>3 DEF Marked
  <2>2. f \in File /\ shown[f] # 0
    BY <1>3, <2>1, LspContentAssumption DEF Marked
  <2>3. PICK q \in Folder : f \in published[q]
    BY <2>2 DEF Squiggles
  <2>4. \E s \in Rev : f \in Findings[q][s]
    BY <1>1, <2>3
  <2>5. q = p
    BY <2>1, <2>4, ScopesAreApart
  <2> QED
    BY <2>3, <2>5
<1> QED
  BY <1>2, <1>3

LEMMA SquigglesHold == IInv => SquigglesMatchResult
<1>1. ASSUME TypeOK, Squiggles, NEW p \in Folder
      PROVE  \E r \in Contents : Reports(p, r)
  <2>1. PICK r \in Contents : PublishedOf(p, r)
    BY <1>1 DEF Squiggles
  <2>2. Marked(p) = published[p]
    BY <1>1, MarkedIsPublished
  <2>3. Reports(p, r)
    BY <2>1, <2>2 DEF Reports, PublishedOf
  <2> QED
    BY <2>3
<1> QED
  BY <1>1 DEF IInv, SquigglesMatchResult

\* The squiggles of a project are those of one content as a whole, the one its
\* hovers are answered from unless publishing that one raised, whatever
\* refreshes came in whatever order (_refresh_project).
THEOREM SquigglesAreCurrent == Spec => []SquigglesMatchResult
BY SquigglesHold, Invariant, PTL

\* At rest no save is left to handle.
LEMMA LastHolds == IInv => LastIsCurrent
<1>1. ASSUME Current, Idle
      PROVE  LastIsCurrent
  <2>1. SavesHandled
    BY <1>1 DEF Idle, SavesHandled
  <2> QED
    BY <1>1, <2>1 DEF Current, Idle, LastIsCurrent
<1> QED
  BY <1>1 DEF IInv, LastIsCurrent

\* Once nothing is waiting, the last file opened or saved has been validated
\* with what is on disk, as part of the project it lies in
\* (_schedule_debounced_refresh, _refresh_validation_for_uri).
THEOREM LastWins == Spec => []LastIsCurrent
BY LastHolds, Invariant, PTL

-----------------------------------------------------------------------------
(* The server comes to rest *)

\* A backlog is a number, and none when nothing waits.
LEMMA BacklogType ==
  ASSUME IInv
  PROVE  Backlog \in Nat /\ (Backlog = 0 <=> Idle)
<1>1. Len(inbox) \in Nat /\ (Len(inbox) = 0 <=> inbox = <<>>)
  BY DEF IInv, Inbox
<1>2. task \in {"none", "sleeping", "due"}
  BY DEF IInv, TypeOK
<1> QED
  BY <1>1, <1>2 DEF Backlog, Idle

\* A message that is handled is no longer waiting.
LEMMA TakenIsGone ==
  ASSUME IInv, NEW kind, Take(kind)
  PROVE  Len(inbox)' = Len(inbox) - 1 /\ Len(inbox) \in Nat
<1>1. inbox \in Seq([kind : {"initialized", "save", "open", "hover"}, file : File \cup {None}])
  BY DEF IInv, Inbox
<1>2. inbox # <<>> /\ inbox' = Tail(inbox)
  BY DEF Take
<1> QED
  BY <1>1, <1>2

\* What the server does leaves it less to do.
LEMMA ServerLowers ==
  ASSUME IInv, Server
  PROVE  Backlog' < Backlog
<1>1. task \in {"none", "sleeping", "due"} /\ Len(inbox) \in Nat
  BY DEF IInv, TypeOK, Inbox
<1>2. CASE OnInitialized \/ OnHover
  <2>1. Len(inbox)' = Len(inbox) - 1 /\ task' = task
    BY <1>2, TakenIsGone DEF OnInitialized, OnHover
  <2> QED
    BY <1>1, <2>1 DEF Backlog
<1>3. CASE OnSave \/ OnOpen
  <2>1. Len(inbox)' = Len(inbox) - 1 /\ task' = "sleeping"
    BY <1>3, TakenIsGone DEF OnSave, OnOpen, Schedule
  <2> QED
    BY <1>1, <2>1 DEF Backlog
<1>4. CASE Elapse
  BY <1>1, <1>4 DEF Elapse, Backlog
<1>5. CASE Fire
  BY <1>1, <1>5 DEF Fire, Backlog
<1> QED
  BY <1>2, <1>3, <1>4, <1>5 DEF Server

\* Only a message gives it more to do.
LEMMA AuthorAdds ==
  ASSUME IInv, Author
  PROVE  Backlog' = Backlog \/ (Backlog' = Backlog + 3 /\ sent < MaxMessages /\ sent' = sent + 1)
<1>1. task' = task /\ task \in {"none", "sleeping", "due"} /\ Len(inbox) \in Nat
  BY DEF IInv, TypeOK, Inbox, Author, SaveFile, OpenFile, Ask, MoveYml, server
<1>2. CASE \E p \in Folder : MoveYml(p)
  BY <1>1, <1>2 DEF MoveYml, Backlog
<1>3. CASE \E f \in File : SaveFile(f) \/ OpenFile(f) \/ Ask(f)
  <2>1. PICK kind \in {"save", "open", "hover"}, f \in File : Message(kind, f)
    <3>1. PICK f \in File : SaveFile(f) \/ OpenFile(f) \/ Ask(f)
      BY <1>3
    <3>2. Message("save", f) \/ Message("open", f) \/ Message("hover", f)
      BY <3>1 DEF SaveFile, OpenFile, Ask
    <3> QED
      BY <3>2
  <2>2. Len(inbox)' = Len(inbox) + 1
    BY <2>1 DEF Message, IInv, Inbox
  <2> QED
    BY <1>1, <2>1, <2>2 DEF Message, Backlog
<1> QED
  BY <1>2, <1>3 DEF Author

\* Between two messages the server takes finitely many steps: the loop does not
\* run on by itself, also when a refresh raises, and the messages are all that
\* keeps it busy (_schedule_debounced_refresh, _refresh_validation_for_uri).
THEOREM ServerComesToRest == Spec => ServerDescends
<1> DEFINE Less == /\ Server => Backlog' < Backlog
                   /\ ~Server => \/ Backlog' = Backlog
                                 \/ Backlog' = Backlog + 3 /\ sent < MaxMessages /\ sent' = sent + 1
<1>1. IInv => Backlog \in Nat /\ (Backlog = 0 <=> Idle)
  BY BacklogType
<1>2. IInv /\ [Next]_vars => [Less]_vars
  BY ServerLowers, AuthorAdds DEF Next
<1> QED
  BY <1>1, <1>2, Invariant, PTL DEF Spec, ServerDescends
=============================================================================
