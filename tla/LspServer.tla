----------------------------- MODULE LspServer -----------------------------
(***************************************************************************)
(* `plgt lsp`, the language server: services/lsp_server.py.                *)
(*                                                                         *)
(* One event loop handles the editor's messages in the order they arrive,  *)
(* and runs one debounced task: an open or a save cancels the task that    *)
(* waits and starts another, for the file of the last message only.  A     *)
(* refresh validates the project the file belongs to, keeps the result and *)
(* publishes its diagnostics; hover, definition and completion are         *)
(* answered from the kept result.  Handlers and refreshes never overlap,   *)
(* but a timer may have elapsed, and its task be due, when a message is    *)
(* handled first.                                                          *)
(***************************************************************************)
EXTENDS Naturals, Sequences, FiniteSets

CONSTANTS
  Folder,      \* directories that may hold a poliglot.yml
  Root,        \* the editor's workspace folder, one of them
  File,        \* documents of the editor
  Chain,       \* Chain[f]: the folders from f's own up to Root
  MaxRev,      \* contents of a project are numbered 1..MaxRev
  Findings,    \* Findings[p][r]: the files content r of p has diagnostics on
  Assembles,   \* Assembles[p][r]: validation of that content gets to a graph
  Breaks,      \* Breaks[p][r]: validation of that content raises
  Unreadable,  \* Unreadable[p][r]: it has a finding on a file that is not UTF-8
  Locked,      \* Locked[p][r]: that content has a lockfile
  Projects,    \* the folders with a poliglot.yml at the start
  MaxMessages, \* messages the editor sends
  MaxMoves,    \* poliglot.yml files that appear or vanish
  None         \* "no value"

Rev == 1 .. MaxRev

ASSUME LspFolderAssumption == /\ Projects \subseteq Folder /\ Root \in Folder
                              /\ None \notin Folder \cup File
                              /\ Chain \in [File -> Seq(Folder)]
ASSUME LspContentAssumption == /\ MaxRev \in Nat \ {0}
                               /\ Findings \in [Folder -> [Rev -> SUBSET File]]
                               /\ Assembles \in [Folder -> [Rev -> BOOLEAN]]
                               /\ Breaks \in [Folder -> [Rev -> BOOLEAN]]
                               /\ Unreadable \in [Folder -> [Rev -> BOOLEAN]]
                               /\ Locked \in [Folder -> [Rev -> BOOLEAN]]
                               /\ \A p \in Folder, r \in Rev : Unreadable[p][r] => Findings[p][r] # {}
\* A project reports on the files below its own spec directories.
ASSUME LspScopeAssumption ==
  \A p, q \in Folder, r, s \in Rev : p # q => Findings[p][r] \cap Findings[q][s] = {}

VARIABLES
  ymls,        \* folders that hold a poliglot.yml
  disk,        \* disk[p]: the content of p's files
  inbox,       \* messages the server has not handled
  sent, moves, \* how many messages and moves there were
  projectFor,  \* project_for_uri
  cached,      \* cached[p]: the content whose result is kept, or 0
  published,   \* published_diag_uris_by_project
  warned,      \* warned_missing_lockfile
  task,        \* the pending task: "none", "sleeping", "due"
  pending,     \* pending_refresh_uri
  shown,       \* shown[f]: content whose diagnostics the editor shows, or 0
  served,      \* history: what the last hover was answered from
  last         \* history: the file of the last open or save handled

server == <<projectFor, cached, published, warned, task, pending>>
vars == <<ymls, disk, inbox, sent, moves, server, shown, served, last>>

NoAnswer == [file |-> None, project |-> None, graph |-> 0]

\* _find_project_root: the nearest folder above f that has a poliglot.yml.
Nearest(f) ==
  LET holds == {i \in DOMAIN Chain[f] : Chain[f][i] \in ymls}
  IN  IF holds = {} THEN None
      ELSE Chain[f][CHOOSE i \in holds : \A j \in holds : i <= j]

Init ==
  /\ ymls = Projects
  /\ disk = [p \in Folder |-> 1]
  /\ inbox = <<[kind |-> "initialized", file |-> None]>>
  /\ sent = 0 /\ moves = 0
  /\ projectFor = [f \in File |-> None]
  /\ cached = [p \in Folder |-> 0]
  /\ published = [p \in Folder |-> {}]
  /\ warned = {}
  /\ task = "none" /\ pending = None
  /\ shown = [f \in File |-> 0]
  /\ served = NoAnswer /\ last = None

-----------------------------------------------------------------------------
(* The author *)

Message(kind, f) ==
  /\ sent < MaxMessages
  /\ sent' = sent + 1
  /\ inbox' = Append(inbox, [kind |-> kind, file |-> f])

\* The editor writes a file and then tells the server.
SaveFile(f) ==
  /\ Message("save", f)
  /\ LET p == Nearest(f)
     IN  IF p # None /\ disk[p] < MaxRev
         THEN disk' = [disk EXCEPT ![p] = @ + 1]
         ELSE UNCHANGED disk
  /\ UNCHANGED <<ymls, moves, server, shown, served, last>>

OpenFile(f) ==
  Message("open", f) /\ UNCHANGED <<ymls, disk, moves, server, shown, served, last>>

Ask(f) ==
  Message("hover", f) /\ UNCHANGED <<ymls, disk, moves, server, shown, served, last>>

\* A poliglot.yml appears or vanishes; no message tells the server.
MoveYml(p) ==
  /\ moves < MaxMoves
  /\ moves' = moves + 1
  /\ ymls' = IF p \in ymls THEN ymls \ {p} ELSE ymls \cup {p}
  /\ last' = None
  /\ UNCHANGED <<disk, inbox, sent, server, shown, served>>

-----------------------------------------------------------------------------
(* The server *)

\* A mutation: diagnostics that are gone are not cleared.
PublishForgetful(p) ==
  LET found == Findings[p][disk[p]]
  IN  /\ shown' = [f \in File |-> IF f \in found THEN disk[p] ELSE shown[f]]
      /\ published' = [published EXCEPT ![p] = found]

\* This project's former diagnostics are cleared where it has none any more,
\* and the new ones are published.
Publish(p) ==
  LET found == Findings[p][disk[p]]
  IN  /\ shown' = [f \in File |-> IF f \in found THEN disk[p]
                                  ELSE IF f \in published[p] THEN 0
                                  ELSE shown[f]]
      /\ published' = [published EXCEPT ![p] = found]

\* _refresh_project: the result is kept, then published.  The diagnostics are
\* made first, each with the length of the token in its file: one on a file
\* that is not UTF-8 raises, after the result is kept and before anything is
\* published (_token_length_at).
Refresh(p) ==
  IF Breaks[p][disk[p]]
  THEN UNCHANGED <<cached, published, warned, shown>>
  ELSE /\ cached' = [cached EXCEPT ![p] = disk[p]]
       /\ warned' = IF Assembles[p][disk[p]] \/ Locked[p][disk[p]] THEN warned ELSE warned \cup {p}
       /\ IF Unreadable[p][disk[p]] THEN UNCHANGED <<published, shown>> ELSE Publish(p)

\* A refresh of p ends in an exception, which a task logs and a request reports.
Raises(p) == Breaks[p][disk[p]] \/ Unreadable[p][disk[p]]

RefreshNothing == UNCHANGED <<cached, published, warned, shown>>

\* _refresh_validation: the workspace folder itself, when it is a project.
RefreshRoot == IF Root \in ymls THEN Refresh(Root) ELSE RefreshNothing

\* _refresh_validation_for_uri
RefreshFor(f) ==
  LET p == Nearest(f)
  IN  IF p = None THEN RefreshNothing /\ UNCHANGED projectFor
      ELSE projectFor' = [projectFor EXCEPT ![f] = p] /\ Refresh(p)

Take(kind) ==
  /\ inbox # <<>> /\ Head(inbox).kind = kind
  /\ inbox' = Tail(inbox)
  /\ UNCHANGED <<ymls, disk, sent, moves>>

OnInitialized ==
  Take("initialized") /\ RefreshRoot
  /\ UNCHANGED <<projectFor, task, pending, served, last>>

\* A mutation: a task that waits is kept, with its file.
ScheduleOnce(f) ==
  /\ pending' = IF task = "none" THEN f ELSE pending
  /\ task' = "sleeping"
  /\ last' = f
  /\ UNCHANGED <<projectFor, cached, published, warned, shown, served>>

\* _schedule_debounced_refresh: the task that waits, or is due, is cancelled
\* and never runs; the new one is for this file.
Schedule(f) ==
  /\ pending' = f
  /\ task' = "sleeping"
  /\ last' = f
  /\ UNCHANGED <<projectFor, cached, published, warned, shown, served>>

OnSave == \E f \in File : Take("save") /\ Head(inbox).file = f /\ Schedule(f)
OnOpen == \E f \in File : Take("open") /\ Head(inbox).file = f /\ Schedule(f)

\* _assembled_graph_for: the project of a file is looked up once and
\* remembered; a project that has no result yet is validated now, and the
\* request fails when that raises.
GraphOf(p, kept) == IF kept[p] # 0 /\ Assembles[p][kept[p]] THEN kept[p] ELSE 0

OnHover ==
  \E f \in File :
    /\ Take("hover") /\ Head(inbox).file = f
    /\ LET p == IF projectFor[f] # None THEN projectFor[f] ELSE Nearest(f)
           cold == IF p # None THEN cached[p] = 0 ELSE \A q \in Folder : cached[q] = 0
           fails == cold /\ IF p # None THEN Raises(p) ELSE Root \in ymls /\ Raises(Root)
       IN  /\ projectFor' = [projectFor EXCEPT ![f] = p]
           /\ CASE cold /\ p # None -> Refresh(p)
                [] cold /\ p = None -> RefreshRoot
                [] OTHER -> RefreshNothing
           /\ \/ /\ ~fails /\ p # None
                 /\ served' = [file |-> f, project |-> p, graph |-> GraphOf(p, cached')]
              \/ /\ ~fails /\ p = None
                 /\ \E q \in Folder :
                      /\ cached'[q] # 0 /\ (cached'[Root] # 0 => q = Root)
                      /\ served' = [file |-> f, project |-> q, graph |-> GraphOf(q, cached')]
              \/ /\ fails \/ (p = None /\ \A q \in Folder : cached'[q] = 0)
                 /\ served' = NoAnswer
    /\ UNCHANGED <<task, pending, last>>

Elapse ==
  /\ task = "sleeping" /\ task' = "due"
  /\ UNCHANGED <<ymls, disk, inbox, sent, moves, projectFor, cached, published, warned, pending, shown, served, last>>

\* A mutation: a refresh that raises is tried again.
FireAgain ==
  /\ task = "due"
  /\ LET p == IF pending = None THEN Root ELSE Nearest(pending)
     IN  IF p # None /\ p \in ymls /\ Raises(p)
         THEN task' = "sleeping" /\ UNCHANGED pending
         ELSE task' = "none" /\ pending' = None
  /\ IF pending # None THEN RefreshFor(pending) ELSE RefreshRoot /\ UNCHANGED projectFor
  /\ UNCHANGED <<ymls, disk, inbox, sent, moves, served, last>>

\* The task runs; an exception of the refresh is logged and the task ends.
Fire ==
  /\ task = "due" /\ task' = "none"
  /\ pending' = None
  /\ IF pending # None THEN RefreshFor(pending) ELSE RefreshRoot /\ UNCHANGED projectFor
  /\ UNCHANGED <<ymls, disk, inbox, sent, moves, served, last>>

Server == OnInitialized \/ OnSave \/ OnOpen \/ OnHover \/ Elapse \/ Fire
Author == \/ \E f \in File : SaveFile(f) \/ OpenFile(f) \/ Ask(f)
          \/ \E p \in Folder : MoveYml(p)

Next == Author \/ Server

Spec == Init /\ [][Next]_vars

\* The editor delivers its messages and the event loop runs what is ready.
Fairness == WF_vars(Server)
FairSpec == Spec /\ Fairness

-----------------------------------------------------------------------------
Contents == 0 .. MaxRev

TypeOK ==
  /\ ymls \subseteq Folder /\ disk \in [Folder -> Rev]
  /\ projectFor \in [File -> Folder \cup {None}]
  /\ cached \in [Folder -> Contents] /\ published \in [Folder -> SUBSET File]
  /\ warned \subseteq Folder /\ task \in {"none", "sleeping", "due"}
  /\ pending \in File \cup {None} /\ last \in File \cup {None}
  /\ shown \in [File -> Contents]

\* The files an editor shows diagnostics on for project p.
Marked(p) == {f \in UNION {Findings[p][r] : r \in Rev} : shown[f] # 0}

\* What the editor shows of p is what content r has, and r is the content of
\* the kept result, unless that one could not be published.
Reports(p, r) ==
  /\ Marked(p) = IF r = 0 THEN {} ELSE Findings[p][r]
  /\ \A f \in Marked(p) : shown[f] = r
  /\ r = cached[p] \/ (cached[p] # 0 /\ Unreadable[p][cached[p]])

(* The squiggles of a project are those of one content as a whole, never of    *)
(* two mixed, and it is the content hovers are answered from unless publishing *)
(* that one raised: a refresh leaves none of the former ones and touches none  *)
(* of another project's, in whatever order opens, saves and hovers of several  *)
(* projects cause refreshes, and refreshes that raise half way                 *)
(* (_refresh_project).                                                         *)
SquigglesMatchResult == \A p \in Folder : \E r \in Contents : Reports(p, r)

Idle == inbox = <<>> /\ task = "none"

(* Once nothing is waiting, the last file opened or saved has been validated   *)
(* with what is on disk, as part of the project it lies in now, and hovers on  *)
(* it are answered from there: debouncing drops tasks, never the last one, and *)
(* what a hover had remembered of the file is put right                        *)
(* (_schedule_debounced_refresh, _refresh_validation_for_uri).                 *)
LastIsCurrent ==
  Idle /\ last # None /\ Nearest(last) # None =>
    LET p == Nearest(last)
    IN  Breaks[p][disk[p]] \/ (cached[p] = disk[p] /\ projectFor[last] = p)

(* When the author pauses, the server comes to rest: no task is cancelled for  *)
(* ever and none is lost between the timer and the refresh.                    *)
ServerSettles == <>[](sent = MaxMessages) => <>[]Idle

\* What the server still has to do: a message may set a timer, and a timer has
\* to elapse before the task runs.
Backlog == 3 * Len(inbox) + (CASE task = "sleeping" -> 2 [] task = "due" -> 1 [] task = "none" -> 0)

(* Whatever the server does leaves it less to do, a refresh that raises        *)
(* included; only a message gives it more, and it rests when it has nothing to *)
(* do.                                                                         *)
ServerDescends ==
  /\ [](Backlog \in Nat /\ (Backlog = 0 <=> Idle))
  /\ [][/\ Server => Backlog' < Backlog
        /\ ~Server => \/ Backlog' = Backlog
                      \/ Backlog' = Backlog + 3 /\ sent < MaxMessages /\ sent' = sent + 1]_vars
=============================================================================
