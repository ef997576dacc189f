----------------------------- MODULE InstallInv -----------------------------
(***************************************************************************)
(* The inductive invariant of Install: what a run knows, at each point,    *)
(* of the command it asked for or follows.                                 *)
(***************************************************************************)
EXTENDS Install

\* The run serves a request of its user.
Asked(c) == pc[c] # "idle" => req[c] \in Requests[c]

\* Until the platform answers, it has made no command for the run.
NotMade(c) == pc[c] \in {"idle", "resolve", "declare", "post"} => made[c] = <<>>

\* A registry install sends its request with the version it has resolved.
Pinned(c) ==
  pc[c] \in {"declare", "post"} /\ req[c].kind = "registry" => version[c] # None

\* A pin the user gave is the run's version from the start.
Carried(c) == pc[c] = "resolve" => version[c] = req[c].version

\* The run follows a command of the platform and reports that command's version.
Following(c) ==
  pc[c] \in {"poll", "events", "report"} =>
    /\ command[c] # 0
    /\ guessed[c] \/ commands[command[c]].version = reported[c]

\* A terminal status that was read is still the command's, and the monitor's loop
\* ends with one only.
Read(c) ==
  /\ pc[c] \in {"events", "report"} =>
       /\ status[c] \in Status
       /\ status[c] \in TERMINAL_STATUSES => commands[command[c]].status = status[c]
  /\ pc[c] = "report" => status[c] \in TERMINAL_STATUSES

\* A run that is over has a result, and a command if it is a success.
Ended(c) ==
  pc[c] = "done" =>
    /\ result[c] \in Results
    /\ result[c].success => command[c] # 0

RunOK(c) ==
  Asked(c) /\ NotMade(c) /\ Pinned(c) /\ Carried(c) /\ Following(c) /\ Read(c) /\ Ended(c)

\* The inductive invariant: types, what each run knows, and the properties that
\* rest on it.
IInv ==
  /\ TypeOK
  /\ \A c \in Client : RunOK(c)
  /\ OneCommandPerRun /\ BoundAgainstInstalled /\ SuccessIsReal /\ AllEventsShown
-----------------------------------------------------------------------------
(* How far a run is from its end *)

\* The monitor's turns count double until its time is over.
Remaining(c) ==
  CASE pc[c] = "resolve" -> 9
    [] pc[c] = "declare" -> 8
    [] pc[c] = "post"    -> 8 - tries[c]
    [] pc[c] = "events"  -> IF late[c] THEN 3 ELSE 5
    [] pc[c] = "poll"    -> IF late[c] THEN 2 ELSE 4
    [] pc[c] = "report"  -> 1
    [] OTHER             -> 0

(* A run gets nearer its end with every step and with the time it has, but for *)
(* one: while there is time, the monitor may ask for the status once more.     *)
(* Nobody else's step takes it back.                                           *)
RunsDescend ==
  /\ [](\A c \in Client : Remaining(c) \in Nat /\ (Remaining(c) = 0 <=> pc[c] \in {"idle", "done"}))
  /\ [][\A c \in Client :
          /\ Step(c) \/ Late(c) =>
               Remaining(c)' < Remaining(c) \/ (pc[c] = "poll" /\ ~late[c] /\ Poll(c))
          /\ pc[c] # "idle" /\ ~(Step(c) \/ Late(c)) => Remaining(c)' = Remaining(c)]_vars
=============================================================================
