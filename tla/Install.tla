------------------------------ MODULE Install ------------------------------
(***************************************************************************)
(* `plgt install` of a local build or of a registry package, and `plgt     *)
(* uninstall`: services/install_service.py, services/command_monitor.py,   *)
(* clients/lifecycle_command_client.py and the commands of                 *)
(* cmd/lifecycle.py.                                                       *)
(*                                                                         *)
(* Several runs of the CLI act on one package of one workspace.  A run     *)
(* asks the platform for a lifecycle command, or attaches to the one that  *)
(* is active, and follows it until it ends or the run's patience does.     *)
(* Runs, the platform and the registry move in any order.                  *)
(***************************************************************************)
EXTENDS Naturals, Sequences, FiniteSets, Session

CONSTANTS
  Client,        \* runs of the CLI, each a process of its own
  Version,       \* versions of the package
  Published,     \* those in the registry at the start, latest publication first
  Requests,      \* what the user may ask each of them for
  MaxCommands,   \* commands the platform makes, in all
  MaxEvents,     \* events a command emits at most
  None           \* "no value"

Kind == {"local", "registry", "uninstall"}

Request == [kind: Kind, version: Version \cup {None}, noAttach: BOOLEAN]

ASSUME RequestsAssumption == Requests \in [Client -> SUBSET Request]
ASSUME LocalAssumption ==
  \A c \in Client : \A r \in Requests[c] : r.kind = "local" => r.version \in Version
ASSUME PublishedAssumption == Published \in Seq(Version)
ASSUME BoundAssumption == MaxCommands \in Nat /\ MaxEvents \in Nat
ASSUME SentinelAssumption == None \notin Version

Status == {"PENDING", "IN_PROGRESS", "COMPLETED", "FAILED"}
TERMINAL_STATUSES == {"COMPLETED", "FAILED"}

\* A lifecycle command of the platform; an uninstall has no version.
Command == [version: Version \cup {None}, status: Status, events: 0 .. MaxEvents]

VARIABLES
  commands,      \* the platform's commands, oldest first
  published,     \* the registry's versions, latest publication first
  \* each client's run
  pc, req,
  version,       \* the version resolved for a registry install
  tries,         \* how often the session sent the install or uninstall request
  command,       \* the command the run follows
  reported,      \* InstallResult.version
  status,        \* the status get_command returned last
  shown,         \* how many events are on display
  late,          \* the monitor's time is over
  result,        \* how the run ended: the exit code and InstallResult.success
  \* history
  made,          \* the versions of the commands the platform made for the run
  guessed        \* the 409 did not say which version is being installed

platform == <<commands, published>>
outcome  == <<command, reported, result>>
locals   == <<tries, status, shown, late>>
history  == <<made, guessed>>
vars == <<platform, pc, req, version, outcome, locals, history>>

Points == {"idle", "resolve", "declare", "post", "poll", "events", "report", "done"}
Results == [exit: {0, 1}, success: BOOLEAN]

TypeOK ==
  /\ commands \in Seq(Command)
  /\ published \in Seq(Version)
  /\ pc \in [Client -> Points]
  /\ req \in [Client -> Request \cup {None}]
  /\ version \in [Client -> Version \cup {None}]
  /\ tries \in [Client -> 1 .. 2]
  /\ command \in [Client -> 0 .. Len(commands)]
  /\ reported \in [Client -> Version \cup {None}]
  /\ status \in [Client -> Status \cup {None}]
  /\ shown \in [Client -> 0 .. MaxEvents]
  /\ late \in [Client -> BOOLEAN]
  /\ result \in [Client -> Results \cup {None}]
  /\ made \in [Client -> Seq(Version \cup {None})]
  /\ guessed \in [Client -> BOOLEAN]

Goto(c, point) == pc' = [pc EXCEPT ![c] = point]

\* The commands the platform has not finished; it makes a new one only when
\* there is none.
Active == {i \in DOMAIN commands : commands[i].status \notin TERMINAL_STATUSES}
-----------------------------------------------------------------------------
(* How a run ends: the counters and flags of what it was doing are gone.   *)

End(c, exit, success) ==
  /\ Goto(c, "done")
  /\ result' = [result EXCEPT ![c] = [exit |-> exit, success |-> success]]
  /\ tries' = [tries EXCEPT ![c] = 1]
  /\ status' = [status EXCEPT ![c] = None]
  /\ shown' = [shown EXCEPT ![c] = 0]
  /\ late' = [late EXCEPT ![c] = FALSE]

\* An exception after the request is prepared.  The clients turn those of
\* `requests` into a ServiceError.  A local build's _install_package lets
\* ValidationErrors through, which exit 1, and makes a failed InstallResult of
\* the others, with which `plgt install` exits 0; every other run exits 1.
Fails(c, e) ==
  End(c, IF req[c].kind = "local" /\ e \notin Catches("ValidationError") THEN 0 ELSE 1, FALSE)

\* monitor_command_events returned `final`.
Ends(c, final) ==
  End(c, CASE req[c].kind = "local" -> 0
           [] req[c].kind = "registry" -> IF final = "COMPLETED" THEN 0 ELSE 1
           [] req[c].kind = "uninstall" -> IF final = "FAILED" THEN 1 ELSE 0,
      final = "COMPLETED")
-----------------------------------------------------------------------------
(* Until the request.                                                      *)

\* The command line is entered.  A local package is built and its bindings are
\* collected; an uninstall is confirmed.
Run(c) ==
  /\ pc[c] = "idle"
  /\ \E r \in Requests[c] :
       /\ req' = [req EXCEPT ![c] = r]
       /\ Goto(c, IF r.kind = "registry" THEN "resolve" ELSE "post")
       /\ version' = [version EXCEPT ![c] = r.version]
  /\ UNCHANGED <<platform, outcome, locals, history>>

\* What comes before the request fails, or there is nobody signed in: exit 1.
GivesUp(c) ==
  /\ pc[c] \in {"resolve", "declare"} \/ (pc[c] = "post" /\ tries[c] = 1)
  /\ End(c, 1, FALSE)
  /\ UNCHANGED <<platform, req, version, command, reported, history>>

\* execute_registry_install_workflow: without a pin, the version that was
\* published last.
Resolve(c) ==
  /\ pc[c] = "resolve"
  /\ IF req[c].version # None
     THEN Goto(c, "declare") /\ UNCHANGED version
     ELSE /\ published # <<>>
          /\ version' = [version EXCEPT ![c] = Head(published)]
          /\ Goto(c, "declare")
  /\ UNCHANGED <<platform, req, outcome, locals, history>>

\* The declarations of that version are read, and the bindings collected and
\* checked against them.
Declare(c) ==
  /\ pc[c] = "declare"
  /\ \E i \in DOMAIN published : published[i] = version[c]
  /\ Goto(c, "post")
  /\ UNCHANGED <<platform, req, version, outcome, locals, history>>
-----------------------------------------------------------------------------
(* The request.                                                            *)

\* The run follows command i, and will report version v.
Follow(c, i, v) ==
  /\ command' = [command EXCEPT ![c] = i]
  /\ reported' = [reported EXCEPT ![c] = v]
  /\ Goto(c, "poll")
  /\ tries' = [tries EXCEPT ![c] = 1]
  /\ UNCHANGED <<result, status, shown, late>>

\* A variant: the request carries the user's pin only.
PinOfUser(c) == req[c].version

\* The version a registry install asks for: the one whose declarations were read.
Pin(c) == version[c]

\* The versions the platform may choose for that request.
Choices(pin) == IF pin # None THEN {pin} ELSE {published[i] : i \in DOMAIN published}

\* A variant that sends the request again when its answer is lost.
CreatedAgain(c) ==
  /\ pc[c] = "post"
  /\ Active = {} /\ Len(commands) < MaxCommands
  /\ \E v \in IF req[c].kind = "uninstall" THEN {None} ELSE Choices(Pin(c)) :
       /\ commands' = Append(commands, [version |-> v, status |-> "PENDING", events |-> 0])
       /\ made' = [made EXCEPT ![c] = Append(@, v)]
       /\ \/ Follow(c, Len(commands) + 1, v)
          \/ UNCHANGED <<pc, outcome, locals>>
  /\ UNCHANGED <<published, req, version, guessed>>

\* The platform makes a command.  Its answer may be lost.
Created(c) ==
  /\ pc[c] = "post"
  /\ Active = {} /\ Len(commands) < MaxCommands
  /\ \E v \in IF req[c].kind = "uninstall" THEN {None} ELSE Choices(Pin(c)) :
       /\ commands' = Append(commands, [version |-> v, status |-> "PENDING", events |-> 0])
       /\ made' = [made EXCEPT ![c] = Append(@, v)]
       /\ \/ Follow(c, Len(commands) + 1, v)
          \/ Fails(c, "ServiceError") /\ UNCHANGED <<command, reported>>
  /\ UNCHANGED <<published, req, version, guessed>>

\* A variant that keeps the run's own version when it attaches.
ConflictOwnVersion(c, i, named, versioned) ==
  /\ pc[c] = "post"
  /\ i \in Active
  /\ versioned => commands[i].version # None
  /\ IF tries[c] = 2 THEN Fails(c, "ServiceError") /\ UNCHANGED <<command, reported, guessed>>
     ELSE IF req[c].kind = "uninstall" \/ ~named \/ req[c].noAttach
     THEN Fails(c, "ConflictError") /\ UNCHANGED <<command, reported, guessed>>
     ELSE /\ Follow(c, i, version[c])
          /\ guessed' = [guessed EXCEPT ![c] = ~versioned]
  /\ UNCHANGED <<platform, req, version, made>>

\* 409, because command i is active; the answer may not name it, nor its version.
\* On the session's first attempt it is a ConflictError, which an install answers
\* by attaching to the command, if it is named and --no-attach was not given; the
\* version is the one in the answer, or else the run's own.  On the attempt after
\* a refresh it is the bare error of `requests`.
Conflict(c, i, named, versioned) ==
  /\ pc[c] = "post"
  /\ i \in Active
  /\ versioned => commands[i].version # None
  /\ IF tries[c] = 2 THEN Fails(c, "ServiceError") /\ UNCHANGED <<command, reported, guessed>>
     ELSE IF req[c].kind = "uninstall" \/ ~named \/ req[c].noAttach
     THEN Fails(c, "ConflictError") /\ UNCHANGED <<command, reported, guessed>>
     ELSE /\ Follow(c, i, IF versioned THEN commands[i].version ELSE version[c])
          /\ guessed' = [guessed EXCEPT ![c] = ~versioned]
  /\ UNCHANGED <<platform, req, version, made>>

\* A variant that renews and sends again at every 401.
UnauthorizedEndless(c) ==
  /\ pc[c] = "post"
  /\ \/ /\ tries' = [tries EXCEPT ![c] = @ + 1]
        /\ UNCHANGED <<pc, result, status, shown, late>>
     \/ Fails(c, "AuthenticationError")
  /\ UNCHANGED <<platform, req, version, command, reported, history>>

\* 401: the session renews its token and sends the request again, once.
Unauthorized(c) ==
  /\ pc[c] = "post"
  /\ \/ /\ tries[c] = 1
        /\ tries' = [tries EXCEPT ![c] = 2]
        /\ UNCHANGED <<pc, result, status, shown, late>>
     \/ Fails(c, IF tries[c] = 1 THEN "AuthenticationError" ELSE "ServiceError")
  /\ UNCHANGED <<platform, req, version, command, reported, history>>

\* The platform turns the request down, or never gets it.
Rejected(c) ==
  /\ pc[c] = "post"
  /\ \E answer \in Answers \ {"ok", "401", "409"} :
       \E e \in IF tries[c] = 1 THEN Raised(answer) ELSE RaisedAgain(answer) : Fails(c, e)
  /\ UNCHANGED <<platform, req, version, command, reported, history>>
-----------------------------------------------------------------------------
(* monitor_command_events.                                                 *)

\* Variants: the loop ends as soon as the status is terminal; the time is not looked at.
PollStopsAtOnce(c) ==
  /\ pc[c] = "poll"
  /\ \/ late[c] /\ Ends(c, "TIMEOUT")
     \/ /\ ~late[c]
        /\ status' = [status EXCEPT ![c] = commands[command[c]].status]
        /\ Goto(c, IF status'[c] \in TERMINAL_STATUSES THEN "report" ELSE "events")
        /\ UNCHANGED <<result, tries, shown, late>>
     \/ ~late[c] /\ Ends(c, "UNKNOWN")
  /\ UNCHANGED <<platform, req, version, command, reported, history>>

PollForever(c) ==
  /\ pc[c] = "poll"
  /\ \/ /\ status' = [status EXCEPT ![c] = commands[command[c]].status]
        /\ Goto(c, "events")
        /\ UNCHANGED <<result, tries, shown, late>>
     \/ Ends(c, "UNKNOWN")
  /\ UNCHANGED <<platform, req, version, command, reported, history>>

\* A turn of the loop: out of time, or the command's status, or an error that
\* ends the monitoring.
Poll(c) ==
  /\ pc[c] = "poll"
  /\ \/ late[c] /\ Ends(c, "TIMEOUT")
     \/ /\ ~late[c]
        /\ status' = [status EXCEPT ![c] = commands[command[c]].status]
        /\ Goto(c, "events")
        /\ UNCHANGED <<result, tries, shown, late>>
     \/ ~late[c] /\ Ends(c, "UNKNOWN")
  /\ UNCHANGED <<platform, req, version, command, reported, history>>

\* Then its events; the loop ends when the status was terminal.
Events(c) ==
  /\ pc[c] = "events"
  /\ \/ /\ shown' = [shown EXCEPT ![c] = commands[command[c]].events]
        /\ Goto(c, IF status[c] \in TERMINAL_STATUSES THEN "report" ELSE "poll")
        /\ UNCHANGED <<result, tries, status, late>>
     \/ Ends(c, "UNKNOWN")
  /\ UNCHANGED <<platform, req, version, command, reported, history>>

\* _handle_terminal_status: the validation report is shown; a missing one and a
\* ServiceError are passed over, any other error is not.
Report(c) ==
  /\ pc[c] = "report"
  /\ \/ Ends(c, status[c])
     \/ \E answer \in {"400", "403", "409", "4xx"} :
          \E e \in Raised(answer) \ {"RequestException"} : Fails(c, e)
  /\ UNCHANGED <<platform, req, version, command, reported, history>>
-----------------------------------------------------------------------------
(* The platform and the clock.                                             *)

Late(c) ==
  /\ pc[c] \in {"poll", "events"}
  /\ ~late[c]
  /\ late' = [late EXCEPT ![c] = TRUE]
  /\ UNCHANGED <<platform, pc, req, version, outcome, tries, status, shown, history>>

\* A command starts, emits an event, ends.
Work ==
  /\ \E i \in Active :
       \/ /\ commands[i].status = "PENDING"
          /\ commands' = [commands EXCEPT ![i].status = "IN_PROGRESS"]
       \/ /\ commands[i].events < MaxEvents
          /\ commands' = [commands EXCEPT ![i].events = @ + 1]
       \/ \E s \in TERMINAL_STATUSES :
            /\ commands[i].status = "IN_PROGRESS"
            /\ commands' = [commands EXCEPT ![i].status = s]
  /\ UNCHANGED <<published, pc, req, version, outcome, locals, history>>

\* Somebody publishes a version, or yanks one.
Publish ==
  /\ \/ \E v \in Version : /\ \A i \in DOMAIN published : published[i] # v
                           /\ published' = <<v>> \o published
     \/ published # <<>> /\ published' = Tail(published)
  /\ UNCHANGED <<commands, pc, req, version, outcome, locals, history>>
-----------------------------------------------------------------------------
Init ==
  /\ commands = <<>>
  /\ published = Published
  /\ pc = [c \in Client |-> "idle"]
  /\ req = [c \in Client |-> None]
  /\ version = [c \in Client |-> None]
  /\ tries = [c \in Client |-> 1]
  /\ command = [c \in Client |-> 0]
  /\ reported = [c \in Client |-> None]
  /\ status = [c \in Client |-> None]
  /\ shown = [c \in Client |-> 0]
  /\ late = [c \in Client |-> FALSE]
  /\ result = [c \in Client |-> None]
  /\ made = [c \in Client |-> <<>>]
  /\ guessed = [c \in Client |-> FALSE]

\* What a run does by itself once it is under way.
Step(c) ==
  \/ GivesUp(c) \/ Resolve(c) \/ Declare(c)
  \/ Created(c) \/ Unauthorized(c) \/ Rejected(c)
  \/ \E i \in DOMAIN commands, named, versioned \in BOOLEAN : Conflict(c, i, named, versioned)
  \/ Poll(c) \/ Events(c) \/ Report(c)

Next ==
  \/ \E c \in Client : Run(c) \/ Step(c) \/ Late(c)
  \/ Work
  \/ Publish

Spec == Init /\ [][Next]_vars

\* A run's process is scheduled, every exchange of the monitor is answered or
\* breaks, and time passes.  The platform need not finish a command.
FairSpec == Spec /\ \A c \in Client : WF_vars(Step(c)) /\ WF_vars(Late(c))
-----------------------------------------------------------------------------
(* Properties.                                                             *)

\* A run makes the platform start at most one command, whatever is refused, sent
\* again or lost on the way.
OneCommandPerRun == \A c \in Client : Len(made[c]) <= 1

\* What a registry install starts is the version whose declarations its bindings
\* were checked against, whatever is published or yanked in between
\* (install_service.py:514-523).
BoundAgainstInstalled ==
  \A c \in Client :
    req[c] # None /\ req[c].kind = "registry" => \A i \in DOMAIN made[c] : made[c][i] = version[c]

\* A run that reports success followed a command that completed, and reports the
\* version that command installed, its own or the one it attached to; a registry
\* install exits 0 only then.
SuccessIsReal ==
  \A c \in Client : pc[c] = "done" =>
    /\ result[c].success =>
         /\ commands[command[c]].status = "COMPLETED"
         /\ guessed[c] \/ commands[command[c]].version = reported[c]
    /\ req[c].kind = "registry" => (result[c].exit = 0 <=> result[c].success)

\* When the monitor finds the command ended, it has every event on display: the
\* status is read before the events.
AllEventsShown ==
  \A c \in Client : pc[c] = "report" => shown[c] = commands[command[c]].events

\* Every run ends, even if the platform never finishes the command.
RunsEnd == \A c \in Client : pc[c] \notin {"idle", "done"} ~> pc[c] = "done"

\* install_service.py:314: "silent attach on same-version conflicts,
\* warn-and-attach on version mismatch, exit on no_attach=True": an install that
\* is told of the active command goes on to follow it.
ConflictAttaches ==
  [][\A c \in Client, i \in DOMAIN commands, versioned \in BOOLEAN :
       Conflict(c, i, TRUE, versioned) /\ req[c].kind # "uninstall" /\ ~req[c].noAttach =>
         command'[c] = i]_vars
=============================================================================
