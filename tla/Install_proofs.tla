--------------------------- MODULE Install_proofs ---------------------------
(***************************************************************************)
(* Proofs about Install for any number of clients, versions, commands and  *)
(* events, and any requests.                                               *)
(***************************************************************************)
EXTENDS InstallInv, SequenceTheorems, TLAPS

\* What belongs to one run.
Local(c) == <<pc[c], req[c], version[c], tries[c], command[c], reported[c], status[c],
              shown[c], late[c], result[c], made[c], guessed[c]>>

\* A step takes no command from the platform, changes the version of none, and
\* changes nothing of one that has ended.
CommandsKept ==
  /\ Len(commands) <= Len(commands')
  /\ \A i \in 1 .. Len(commands) :
       /\ commands'[i].version = commands[i].version
       /\ commands[i].status \in TERMINAL_STATUSES => commands'[i] = commands[i]

\* The part of the invariant that is about one run.
Bound(c) == req[c] # None /\ req[c].kind = "registry" =>
              \A i \in DOMAIN made[c] : made[c][i] = version[c]
Real(c) ==
  pc[c] = "done" =>
    /\ result[c].success => /\ commands[command[c]].status = "COMPLETED"
                            /\ guessed[c] \/ commands[command[c]].version = reported[c]
    /\ req[c].kind = "registry" => (result[c].exit = 0 <=> result[c].success)
Shown(c) == pc[c] = "report" => shown[c] = commands[command[c]].events

Good(c) == RunOK(c) /\ Len(made[c]) <= 1 /\ Bound(c) /\ Real(c) /\ Shown(c)

(* The invariant, run by run.                                                  *)
LEMMA ByRun == IInv <=> TypeOK /\ \A c \in Client : Good(c)
BY DEF IInv, Good, Bound, Real, Shown, OneCommandPerRun, BoundAgainstInstalled, SuccessIsReal,
       AllEventsShown

(* The same in the next state.                                                 *)
LEMMA ByRunNext == IInv' <=> TypeOK' /\ \A c \in Client : Good(c)'
BY DEF IInv, Good, Bound, Real, Shown, OneCommandPerRun, BoundAgainstInstalled, SuccessIsReal,
       AllEventsShown

-----------------------------------------------------------------------------
(* Facts from the types                                                        *)

(* What the types say of one run and of the commands.                          *)
LEMMA Types ==
  ASSUME TypeOK
  PROVE  /\ Len(commands) \in Nat
         /\ DOMAIN commands = 1 .. Len(commands)
         /\ \A i \in 1 .. Len(commands) : commands[i] \in Command
         /\ \A c \in Client : command[c] \in 0 .. Len(commands)
<1>1. Len(commands) \in Nat /\ DOMAIN commands = 1 .. Len(commands)
  BY LenProperties DEF TypeOK
<1>2. \A i \in 1 .. Len(commands) : commands[i] \in Command
  BY ElementOfSeq DEF TypeOK
<1>3. \A c \in Client : command[c] \in 0 .. Len(commands)
  BY DEF TypeOK
<1> QED BY <1>1, <1>2, <1>3

(* A run that does not move keeps what it knows while the commands move on.    *)
LEMMA Frame ==
  ASSUME TypeOK, CommandsKept, NEW c \in Client, Good(c), Local(c)' = Local(c)
  PROVE  Good(c)'
<1>1. /\ pc'[c] = pc[c] /\ req'[c] = req[c] /\ version'[c] = version[c]
      /\ command'[c] = command[c] /\ reported'[c] = reported[c] /\ status'[c] = status[c]
      /\ shown'[c] = shown[c] /\ result'[c] = result[c] /\ made'[c] = made[c]
      /\ guessed'[c] = guessed[c]
  BY DEF Local
<1>2. ASSUME command[c] # 0
      PROVE  /\ commands'[command[c]].version = commands[command[c]].version
             /\ commands[command[c]].status \in TERMINAL_STATUSES =>
                  commands'[command[c]] = commands[command[c]]
  <2>1. command[c] \in 1 .. Len(commands)
    BY <1>2, Types
  <2> QED BY <2>1 DEF CommandsKept
<1>3. Asked(c)' /\ NotMade(c)' /\ Pinned(c)' /\ Carried(c)' /\ Ended(c)'
  BY <1>1 DEF Good, RunOK, Asked, NotMade, Pinned, Carried, Ended
<1>4. Following(c)'
  BY <1>1, <1>2 DEF Good, RunOK, Following
<1>5. Read(c)'
  BY <1>1, <1>2 DEF Good, RunOK, Read, Following
<1>6. (Len(made[c]) <= 1)' /\ Bound(c)'
  BY <1>1 DEF Good, Bound
<1>7. Real(c)'
  <2>1. ASSUME pc[c] = "done", result[c].success
        PROVE  command[c] # 0 /\ commands[command[c]].status = "COMPLETED"
    BY <2>1 DEF Good, Real, RunOK, Ended
  <2> QED BY <1>1, <1>2, <2>1 DEF Good, Real, TERMINAL_STATUSES
<1>8. Shown(c)'
  BY <1>1, <1>2 DEF Good, Shown, RunOK, Following, Read
<1> QED BY <1>3, <1>4, <1>5, <1>6, <1>7, <1>8 DEF Good, RunOK

(* Commands that stay as they are are kept.                                    *)
LEMMA SameCommands == ASSUME TypeOK, commands' = commands PROVE CommandsKept
BY Types DEF CommandsKept

-----------------------------------------------------------------------------
(* The platform and the registry                                               *)

(* What the platform does to its commands leaves those that ended alone.       *)
LEMMA WorkKeeps == ASSUME TypeOK, Work PROVE CommandsKept /\ commands' \in Seq(Command)
<1>1. PICK i \in Active :
         \/ /\ commands[i].status = "PENDING"
            /\ commands' = [commands EXCEPT ![i].status = "IN_PROGRESS"]
         \/ /\ commands[i].events < MaxEvents
            /\ commands' = [commands EXCEPT ![i].events = @ + 1]
         \/ \E s \in TERMINAL_STATUSES :
              /\ commands[i].status = "IN_PROGRESS"
              /\ commands' = [commands EXCEPT ![i].status = s]
  BY DEF Work
<1>2. i \in 1 .. Len(commands) /\ commands[i].status \notin TERMINAL_STATUSES
  BY Types DEF Active
<1>3. commands[i] \in Command
  BY <1>2, Types
<1>4. \E x \in Command : x.version = commands[i].version /\ commands' = [commands EXCEPT ![i] = x]
  <2>1. CASE commands' = [commands EXCEPT ![i].status = "IN_PROGRESS"]
    <3>1. [commands[i] EXCEPT !.status = "IN_PROGRESS"] \in Command
      BY <1>3 DEF Command, Status
    <3> WITNESS [commands[i] EXCEPT !.status = "IN_PROGRESS"] \in Command
    <3> QED BY <1>3, <2>1 DEF Command
  <2>2. CASE commands[i].events < MaxEvents /\ commands' = [commands EXCEPT ![i].events = @ + 1]
    <3>1. commands[i].events + 1 \in 0 .. MaxEvents
      BY <1>3, <2>2, BoundAssumption DEF Command
    <3>2. [commands[i] EXCEPT !.events = @ + 1] \in Command
      BY <1>3, <3>1 DEF Command
    <3> WITNESS [commands[i] EXCEPT !.events = @ + 1] \in Command
    <3> QED BY <1>3, <2>2 DEF Command
  <2>3. ASSUME NEW s \in TERMINAL_STATUSES, commands' = [commands EXCEPT ![i].status = s]
        PROVE  \E x \in Command : /\ x.version = commands[i].version
                                  /\ commands' = [commands EXCEPT ![i] = x]
    <3>1. [commands[i] EXCEPT !.status = s] \in Command
      BY <1>3 DEF Command, Status, TERMINAL_STATUSES
    <3> WITNESS [commands[i] EXCEPT !.status = s] \in Command
    <3> QED BY <1>3, <2>3 DEF Command
  <2> QED BY <1>1, <2>1, <2>2, <2>3
<1>5. PICK x \in Command :
        x.version = commands[i].version /\ commands' = [commands EXCEPT ![i] = x]
  BY <1>4
<1>6. commands' \in Seq(Command) /\ Len(commands') = Len(commands)
  BY <1>2, <1>5, ExceptSeq DEF TypeOK
<1>7. \A k \in 1 .. Len(commands) : commands'[k] = IF k = i THEN x ELSE commands[k]
  BY <1>2, <1>5, Types
<1> QED BY <1>2, <1>5, <1>6, <1>7, Types DEF CommandsKept

(* The steps that are not a run's.                                             *)
LEMMA OutsideStep == IInv /\ (Work \/ Publish \/ UNCHANGED vars) => IInv'
<1> SUFFICES ASSUME IInv, Work \/ Publish \/ UNCHANGED vars PROVE IInv'
  OBVIOUS
<1>0. TypeOK /\ \A c \in Client : Good(c)
  BY ByRun
<1>1. CommandsKept /\ commands' \in Seq(Command)
  BY <1>0, WorkKeeps, SameCommands DEF Publish, vars, platform, TypeOK
<1>2. published' \in Seq(Version)
  <2>1. CASE Work \/ UNCHANGED vars
    BY <1>0, <2>1 DEF Work, vars, platform, TypeOK
  <2>2. ASSUME NEW v \in Version, published' = <<v>> \o published PROVE published' \in Seq(Version)
    BY <1>0, <2>2 DEF TypeOK
  <2>3. CASE published # <<>> /\ published' = Tail(published)
    BY <1>0, <2>3, HeadTailProperties DEF TypeOK
  <2> QED BY <2>1, <2>2, <2>3 DEF Publish
<1>3. UNCHANGED <<pc, req, version, outcome, locals, history>>
  BY DEF Work, Publish, vars
<1>4. TypeOK'
  <2>1. \A c \in Client : command[c] \in 0 .. Len(commands')
    BY <1>0, <1>1, Types DEF CommandsKept
  <2> QED BY <1>0, <1>1, <1>2, <1>3, <2>1 DEF TypeOK, outcome, locals, history
<1>5. \A c \in Client : Good(c)'
  BY <1>0, <1>1, <1>3, Frame DEF Local, outcome, locals, history
<1> QED BY <1>4, <1>5, ByRunNext

-----------------------------------------------------------------------------
(* A run's own steps                                                           *)

(* A step of run c keeps the invariant if it keeps the types and what run c    *)
(* knows, and leaves the other runs and the commands that ended alone.         *)
LEMMA OneRun ==
  ASSUME IInv, NEW c \in Client, TypeOK', Good(c)', CommandsKept,
         \A q \in Client : q # c => Local(q)' = Local(q)
  PROVE  IInv'
<1>1. \A q \in Client : Good(q)'
  BY ByRun, Frame
<1> QED BY <1>1, ByRunNext

(* Ending a run keeps the types of what it resets, and leaves it with a result. *)
LEMMA EndFacts ==
  ASSUME TypeOK, NEW c \in Client, NEW exit \in {0, 1}, NEW success \in BOOLEAN,
         End(c, exit, success)
  PROVE  /\ pc' \in [Client -> Points] /\ pc'[c] = "done"
         /\ result' \in [Client -> Results \cup {None}]
         /\ result'[c] = [exit |-> exit, success |-> success]
         /\ result'[c] \in Results
         /\ tries' \in [Client -> 1 .. 2]
         /\ status' \in [Client -> Status \cup {None}]
         /\ shown' \in [Client -> 0 .. MaxEvents]
         /\ late' \in [Client -> BOOLEAN]
         /\ \A q \in Client : q # c =>
              /\ pc'[q] = pc[q] /\ result'[q] = result[q] /\ tries'[q] = tries[q]
              /\ status'[q] = status[q] /\ shown'[q] = shown[q] /\ late'[q] = late[q]
<1>1. [exit |-> exit, success |-> success] \in Results
  BY DEF Results
<1>2. 0 \in 0 .. MaxEvents
  BY BoundAssumption
<1> QED BY <1>1, <1>2 DEF TypeOK, End, Goto, Points

(* A step that ends run c without a success and changes nothing else of it.    *)
LEMMA EndWithout ==
  ASSUME IInv, NEW c \in Client, NEW exit \in {0, 1}, End(c, exit, FALSE),
         pc[c] # "idle", req[c].kind = "registry" => exit = 1,
         UNCHANGED <<platform, req, version, command, reported, history>>
  PROVE  IInv'
<1>0. TypeOK /\ Good(c)
  BY ByRun
<1> USE DEF platform, history
<1>1. TypeOK'
  BY <1>0, EndFacts DEF TypeOK
<1>2. Good(c)'
  <2>0. /\ pc'[c] = "done" /\ req'[c] = req[c] /\ result'[c] \in Results
        /\ result'[c].success = FALSE /\ result'[c].exit = exit
    <3>1. /\ pc'[c] = "done" /\ result'[c] = [exit |-> exit, success |-> FALSE]
          /\ result'[c] \in Results
      BY <1>0, EndFacts
    <3> QED BY <3>1
  <2>1. RunOK(c)'
    <3>1. Asked(c)' /\ NotMade(c)' /\ Pinned(c)'
      BY <1>0, <2>0 DEF Good, RunOK, Asked, NotMade, Pinned
    <3>2. Carried(c)' /\ Following(c)' /\ Read(c)' /\ Ended(c)'
      BY <2>0 DEF Carried, Following, Read, Ended
    <3> QED BY <3>1, <3>2 DEF RunOK
  <2>2. (Len(made[c]) <= 1)' /\ Bound(c)'
    BY <1>0 DEF Good, Bound
  <2>3. Real(c)' /\ Shown(c)'
    BY <2>0 DEF Real, Shown
  <2> QED BY <2>1, <2>2, <2>3 DEF Good
<1>3. \A q \in Client : q # c => Local(q)' = Local(q)
  BY <1>0, EndFacts DEF Local
<1> QED BY <1>0, <1>1, <1>2, <1>3, OneRun, SameCommands

(* Fails is such a step.                                                       *)
LEMMA FailWithout ==
  ASSUME IInv, NEW c \in Client, NEW e, Fails(c, e), pc[c] # "idle",
         UNCHANGED <<platform, req, version, command, reported, history>>
  PROVE  IInv'
<1>1. PICK exit \in {0, 1} : End(c, exit, FALSE) /\ (req[c].kind = "registry" => exit = 1)
  BY DEF Fails
<1> QED BY <1>1, EndWithout

(* What Ends does to run c, in terms of End.                                   *)
LEMMA EndsFacts ==
  ASSUME NEW c \in Client, req[c].kind \in Kind, NEW final, Ends(c, final)
  PROVE  \E exit \in {0, 1} :
           /\ End(c, exit, final = "COMPLETED")
           /\ req[c].kind = "registry" => (exit = 0 <=> final = "COMPLETED")
<1>1. CASE req[c].kind = "local"
  BY <1>1 DEF Ends
<1>2. CASE req[c].kind = "registry"
  BY <1>2 DEF Ends
<1>3. CASE req[c].kind = "uninstall"
  BY <1>3 DEF Ends
<1> QED BY <1>1, <1>2, <1>3 DEF Kind

(* A request has one of the three kinds.                                       *)
LEMMA KindOf ==
  ASSUME NEW c \in Client, NEW r \in Requests[c]
  PROVE  /\ r \in Request /\ r.kind \in Kind /\ r.version \in Version \cup {None}
BY RequestsAssumption DEF Request

(* A run under way serves a request.                                           *)
LEMMA KindOfRun ==
  ASSUME IInv, NEW c \in Client, pc[c] # "idle" PROVE req[c].kind \in Kind
BY ByRun, KindOf DEF Good, RunOK, Asked

-----------------------------------------------------------------------------
(* Before the request                                                          *)

(* The user starts a run.                                                      *)
LEMMA RunStep == ASSUME IInv, NEW c \in Client, Run(c) PROVE IInv'
<1>0. TypeOK /\ Good(c)
  BY ByRun
<1>1. PICK r \in Requests[c] :
        /\ req' = [req EXCEPT ![c] = r]
        /\ pc' = [pc EXCEPT ![c] = IF r.kind = "registry" THEN "resolve" ELSE "post"]
        /\ version' = [version EXCEPT ![c] = r.version]
  BY DEF Run, Goto
<1>2. r \in Request /\ r.kind \in Kind /\ r.version \in Version \cup {None}
  BY KindOf
<1> USE DEF platform, outcome, locals, history
<1>3. UNCHANGED <<platform, outcome, locals, history>> /\ pc[c] = "idle"
  BY DEF Run
<1>4. TypeOK'
  BY <1>0, <1>1, <1>2, <1>3 DEF TypeOK, Points
<1>5. /\ req'[c] = r /\ pc'[c] \in {"resolve", "post"} /\ version'[c] = r.version
      /\ r.kind = "registry" => pc'[c] = "resolve"
      /\ made'[c] = <<>>
  BY <1>0, <1>1, <1>3 DEF TypeOK, Good, RunOK, NotMade
<1>6. Good(c)'
  <2>1. Asked(c)' /\ NotMade(c)' /\ Pinned(c)' /\ Carried(c)' /\ Following(c)' /\ Read(c)' /\ Ended(c)'
    BY <1>5 DEF Asked, NotMade, Pinned, Carried, Following, Read, Ended
  <2>2. (Len(made[c]) <= 1)' /\ Bound(c)'
    BY <1>5 DEF Bound
  <2>3. Real(c)' /\ Shown(c)'
    BY <1>5 DEF Real, Shown
  <2> QED BY <2>1, <2>2, <2>3 DEF Good, RunOK
<1>7. \A q \in Client : q # c => Local(q)' = Local(q)
  BY <1>0, <1>1, <1>3 DEF TypeOK, Local
<1> QED BY <1>0, <1>3, <1>4, <1>6, <1>7, OneRun, SameCommands

(* It gives up before the request.                                             *)
LEMMA GivesUpStep == ASSUME IInv, NEW c \in Client, GivesUp(c) PROVE IInv'
BY EndWithout DEF GivesUp

(* It resolves the version of a registry install.                              *)
LEMMA ResolveStep == ASSUME IInv, NEW c \in Client, Resolve(c) PROVE IInv'
<1>0. TypeOK /\ Good(c)
  BY ByRun
<1> USE DEF platform, outcome, locals, history
<1>1. /\ pc[c] = "resolve" /\ pc' = [pc EXCEPT ![c] = "declare"]
      /\ UNCHANGED <<platform, req, outcome, locals, history>>
  BY DEF Resolve, Goto
<1>2. \E v \in Version \cup {None} :
        /\ version' = [version EXCEPT ![c] = v]
        /\ req[c].kind = "registry" => v # None
  <2>1. CASE req[c].version # None
    <3>1. version' = version
      BY <2>1 DEF Resolve
    <3>2. version[c] # None
      BY <1>0, <1>1, <2>1 DEF Good, RunOK, Carried
    <3> QED BY <1>0, <3>1, <3>2 DEF TypeOK
  <2>2. CASE req[c].version = None
    <3>1. published # <<>> /\ version' = [version EXCEPT ![c] = Head(published)]
      BY <2>2 DEF Resolve
    <3>2. Head(published) \in Version
      BY <1>0, <3>1, HeadTailProperties DEF TypeOK
    <3> QED BY <3>1, <3>2, SentinelAssumption
  <2> QED BY <2>1, <2>2
<1>3. PICK v \in Version \cup {None} :
        /\ version' = [version EXCEPT ![c] = v]
        /\ req[c].kind = "registry" => v # None
  BY <1>2
<1>4. TypeOK'
  BY <1>0, <1>1, <1>3 DEF TypeOK, Points
<1>5. /\ pc'[c] = "declare" /\ version'[c] = v /\ req'[c] = req[c] /\ made'[c] = <<>>
      /\ req[c] \in Requests[c]
  BY <1>0, <1>1, <1>3 DEF TypeOK, Good, RunOK, NotMade, Asked
<1>6. Good(c)'
  <2>1. Asked(c)' /\ NotMade(c)' /\ Pinned(c)' /\ Carried(c)' /\ Following(c)' /\ Read(c)' /\ Ended(c)'
    BY <1>3, <1>5 DEF Asked, NotMade, Pinned, Carried, Following, Read, Ended
  <2>2. (Len(made[c]) <= 1)' /\ Bound(c)'
    BY <1>5 DEF Bound
  <2>3. Real(c)' /\ Shown(c)'
    BY <1>5 DEF Real, Shown
  <2> QED BY <2>1, <2>2, <2>3 DEF Good, RunOK
<1>7. \A q \in Client : q # c => Local(q)' = Local(q)
  BY <1>0, <1>1, <1>3 DEF TypeOK, Local
<1> QED BY <1>0, <1>1, <1>4, <1>6, <1>7, OneRun, SameCommands

(* It reads the declarations.                                                  *)
LEMMA DeclareStep == ASSUME IInv, NEW c \in Client, Declare(c) PROVE IInv'
<1>0. TypeOK /\ Good(c)
  BY ByRun
<1> USE DEF platform, outcome, locals, history
<1>1. /\ pc[c] = "declare" /\ pc' = [pc EXCEPT ![c] = "post"]
      /\ UNCHANGED <<platform, req, version, outcome, locals, history>>
  BY DEF Declare, Goto
<1>2. TypeOK' /\ pc'[c] = "post"
  BY <1>0, <1>1 DEF TypeOK, Points
<1>3. Good(c)'
  <2>1. Asked(c)' /\ NotMade(c)' /\ Pinned(c)'
    BY <1>0, <1>1, <1>2 DEF Good, RunOK, Asked, NotMade, Pinned
  <2>2. Carried(c)' /\ Following(c)' /\ Read(c)' /\ Ended(c)'
    BY <1>2 DEF Carried, Following, Read, Ended
  <2>3. (Len(made[c]) <= 1)' /\ Bound(c)'
    BY <1>0, <1>1 DEF Good, Bound
  <2>4. Real(c)' /\ Shown(c)'
    BY <1>2 DEF Real, Shown
  <2> QED BY <2>1, <2>2, <2>3, <2>4 DEF Good, RunOK
<1>4. \A q \in Client : q # c => Local(q)' = Local(q)
  BY <1>0, <1>1 DEF TypeOK, Local
<1> QED BY <1>0, <1>1, <1>2, <1>3, <1>4, OneRun, SameCommands

-----------------------------------------------------------------------------
(* The request                                                                 *)

(* What Follow does, when i is a command of the next state.                    *)
LEMMA FollowFacts ==
  ASSUME TypeOK, NEW c \in Client, NEW i \in 1 .. Len(commands'),
         NEW v \in Version \cup {None}, Follow(c, i, v),
         Len(commands') \in Nat, Len(commands) <= Len(commands')
  PROVE  /\ pc' \in [Client -> Points] /\ pc'[c] = "poll"
         /\ command' \in [Client -> 0 .. Len(commands')] /\ command'[c] = i
         /\ reported' \in [Client -> Version \cup {None}] /\ reported'[c] = v
         /\ tries' \in [Client -> 1 .. 2]
         /\ UNCHANGED <<result, status, shown, late>>
         /\ \A q \in Client : q # c =>
              /\ pc'[q] = pc[q] /\ command'[q] = command[q]
              /\ reported'[q] = reported[q] /\ tries'[q] = tries[q]
<1>1. command \in [Client -> 0 .. Len(commands')]
  BY Types DEF TypeOK
<1> QED BY <1>1 DEF TypeOK, Follow, Goto, Points

(* The platform makes a command for the run.                                   *)
LEMMA CreatedStep == ASSUME IInv, NEW c \in Client, Created(c) PROVE IInv'
<1>0. TypeOK /\ Good(c)
  BY ByRun
<1>1. PICK v \in IF req[c].kind = "uninstall" THEN {None} ELSE Choices(Pin(c)) :
        /\ commands' = Append(commands, [version |-> v, status |-> "PENDING", events |-> 0])
        /\ made' = [made EXCEPT ![c] = Append(@, v)]
        /\ \/ Follow(c, Len(commands) + 1, v)
           \/ Fails(c, "ServiceError") /\ UNCHANGED <<command, reported>>
  BY DEF Created
<1>2. pc[c] = "post" /\ UNCHANGED <<published, req, version, guessed>>
  BY DEF Created
<1>3. v \in Version \cup {None}
  <2>1. \A i \in DOMAIN published : published[i] \in Version
    BY <1>0, ElementOfSeq, LenProperties DEF TypeOK
  <2> QED BY <1>0, <1>1, <2>1 DEF Choices, Pin, TypeOK
<1>4. req[c].kind = "registry" => v = version[c]
  BY <1>0, <1>1, <1>2 DEF Good, RunOK, Pinned, Choices, Pin
<1> DEFINE new == [version |-> v, status |-> "PENDING", events |-> 0]
<1>5. new \in Command
  BY <1>3, BoundAssumption DEF Command, Status
<1>6. /\ commands' \in Seq(Command) /\ Len(commands') = Len(commands) + 1
      /\ \A i \in 1 .. Len(commands) : commands'[i] = commands[i]
      /\ commands'[Len(commands) + 1] = new
  <2> HIDE DEF new
  <2>1. commands' = Append(commands, new)
    BY <1>1 DEF new
  <2> QED BY <1>0, <1>5, <2>1, AppendProperties DEF TypeOK
<1> HIDE DEF new
<1>7. CommandsKept
  BY <1>0, <1>6, Types DEF CommandsKept
<1>8. made[c] = <<>>
  BY <1>0, <1>2 DEF Good, RunOK, NotMade
<1>9. /\ made' \in [Client -> Seq(Version \cup {None})] /\ made'[c] = <<v>>
      /\ \A q \in Client : q # c => made'[q] = made[q]
  <2>1. made'[c] = <<v>> /\ <<v>> \in Seq(Version \cup {None})
    BY <1>0, <1>1, <1>3, <1>8 DEF TypeOK
  <2> QED BY <1>0, <1>1, <1>3, <1>8, <2>1 DEF TypeOK
<1>10. (Len(made[c]) <= 1)' /\ Bound(c)'
  BY <1>2, <1>4, <1>9 DEF Bound
<1>11. ASSUME Follow(c, Len(commands) + 1, v) PROVE IInv'
  <2>1. Len(commands) + 1 \in 1 .. Len(commands') /\ Len(commands') \in Nat
    BY <1>0, <1>6, Types
  <2>2. /\ pc' \in [Client -> Points] /\ pc'[c] = "poll"
        /\ command' \in [Client -> 0 .. Len(commands')] /\ command'[c] = Len(commands) + 1
        /\ reported' \in [Client -> Version \cup {None}] /\ reported'[c] = v
        /\ tries' \in [Client -> 1 .. 2]
        /\ UNCHANGED <<result, status, shown, late>>
        /\ \A q \in Client : q # c =>
             /\ pc'[q] = pc[q] /\ command'[q] = command[q]
             /\ reported'[q] = reported[q] /\ tries'[q] = tries[q]
    BY <1>0, <1>3, <1>6, <1>11, <2>1, FollowFacts, Types
  <2>3. TypeOK'
    BY <1>0, <1>2, <1>6, <1>9, <2>2 DEF TypeOK
  <2>4. RunOK(c)'
    <3>1. Asked(c)' /\ NotMade(c)' /\ Pinned(c)' /\ Carried(c)' /\ Read(c)' /\ Ended(c)'
      BY <1>0, <1>2, <2>2 DEF Good, RunOK, Asked, NotMade, Pinned, Carried, Read, Ended
    <3>2. commands'[command'[c]].version = reported'[c] /\ command'[c] # 0
      BY <1>0, <1>6, <2>2, Types DEF new
    <3> QED BY <3>1, <3>2 DEF RunOK, Following
  <2>5. Real(c)' /\ Shown(c)'
    BY <2>2 DEF Real, Shown
  <2>6. \A q \in Client : q # c => Local(q)' = Local(q)
    BY <1>2, <1>9, <2>2 DEF Local
  <2> QED BY <1>7, <1>10, <2>3, <2>4, <2>5, <2>6, OneRun DEF Good
<1>12. ASSUME Fails(c, "ServiceError"), UNCHANGED <<command, reported>> PROVE IInv'
  <2>1. PICK exit \in {0, 1} : End(c, exit, FALSE) /\ (req[c].kind = "registry" => exit = 1)
    BY <1>12 DEF Fails
  <2>2. /\ pc' \in [Client -> Points] /\ pc'[c] = "done"
        /\ result' \in [Client -> Results \cup {None}] /\ result'[c] \in Results
        /\ result'[c] = [exit |-> exit, success |-> FALSE]
        /\ tries' \in [Client -> 1 .. 2] /\ status' \in [Client -> Status \cup {None}]
        /\ shown' \in [Client -> 0 .. MaxEvents] /\ late' \in [Client -> BOOLEAN]
        /\ \A q \in Client : q # c =>
             /\ pc'[q] = pc[q] /\ result'[q] = result[q] /\ tries'[q] = tries[q]
             /\ status'[q] = status[q] /\ shown'[q] = shown[q] /\ late'[q] = late[q]
    BY <1>0, <2>1, EndFacts
  <2>3. command' \in [Client -> 0 .. Len(commands')]
    BY <1>0, <1>6, <1>12, Types DEF TypeOK
  <2>4. TypeOK'
    BY <1>0, <1>2, <1>6, <1>9, <1>12, <2>2, <2>3 DEF TypeOK
  <2>5. RunOK(c)'
    <3>1. Asked(c)' /\ NotMade(c)' /\ Pinned(c)' /\ Carried(c)'
      BY <1>0, <1>2, <2>2 DEF Good, RunOK, Asked, NotMade, Pinned, Carried
    <3>2. Following(c)' /\ Read(c)' /\ Ended(c)'
      BY <2>2 DEF Following, Read, Ended
    <3> QED BY <3>1, <3>2 DEF RunOK
  <2>6. Real(c)' /\ Shown(c)'
    BY <1>2, <2>1, <2>2 DEF Real, Shown
  <2>7. \A q \in Client : q # c => Local(q)' = Local(q)
    BY <1>2, <1>9, <1>12, <2>2 DEF Local
  <2> QED BY <1>7, <1>10, <2>4, <2>5, <2>6, <2>7, OneRun DEF Good
<1> QED BY <1>1, <1>11, <1>12

(* The request meets an active command.                                        *)
LEMMA ConflictStep ==
  ASSUME IInv, NEW c \in Client, NEW i \in DOMAIN commands, NEW named \in BOOLEAN,
         NEW versioned \in BOOLEAN, Conflict(c, i, named, versioned)
  PROVE  IInv'
<1>0. TypeOK /\ Good(c) /\ i \in 1 .. Len(commands)
  BY ByRun, Types
<1> USE DEF platform, history
<1>1. pc[c] = "post" /\ UNCHANGED <<platform, req, version, made>>
  BY DEF Conflict
<1>2. CASE /\ Fails(c, "ServiceError") \/ Fails(c, "ConflictError")
           /\ UNCHANGED <<command, reported, guessed>>
  BY <1>1, <1>2, FailWithout
<1> DEFINE v == IF versioned THEN commands[i].version ELSE version[c]
<1>3. CASE Follow(c, i, v) /\ guessed' = [guessed EXCEPT ![c] = ~versioned]
  <2>1. v \in Version \cup {None}
    BY <1>0, Types DEF TypeOK, Command
  <2> HIDE DEF v
  <2>2. /\ pc' \in [Client -> Points] /\ pc'[c] = "poll"
        /\ command' \in [Client -> 0 .. Len(commands')] /\ command'[c] = i
        /\ reported' \in [Client -> Version \cup {None}] /\ reported'[c] = v
        /\ tries' \in [Client -> 1 .. 2]
        /\ UNCHANGED <<result, status, shown, late>>
        /\ \A q \in Client : q # c =>
             /\ pc'[q] = pc[q] /\ command'[q] = command[q]
             /\ reported'[q] = reported[q] /\ tries'[q] = tries[q]
    BY <1>0, <1>1, <1>3, <2>1, FollowFacts, Types
  <2>3. /\ guessed' \in [Client -> BOOLEAN] /\ guessed'[c] = ~versioned
        /\ \A q \in Client : q # c => guessed'[q] = guessed[q]
    BY <1>0, <1>3 DEF TypeOK
  <2>4. TypeOK'
    BY <1>0, <1>1, <2>2, <2>3 DEF TypeOK
  <2>5. RunOK(c)'
    <3>1. Asked(c)' /\ NotMade(c)' /\ Pinned(c)' /\ Carried(c)' /\ Read(c)' /\ Ended(c)'
      BY <1>0, <1>1, <2>2 DEF Good, RunOK, Asked, NotMade, Pinned, Carried, Read, Ended
    <3>2. command'[c] # 0 /\ (guessed'[c] \/ commands'[command'[c]].version = reported'[c])
      BY <1>0, <1>1, <2>2, <2>3 DEF v
    <3> QED BY <3>1, <3>2 DEF RunOK, Following
  <2>6. (Len(made[c]) <= 1)' /\ Bound(c)'
    BY <1>0, <1>1 DEF Good, Bound
  <2>7. Real(c)' /\ Shown(c)'
    BY <2>2 DEF Real, Shown
  <2>8. \A q \in Client : q # c => Local(q)' = Local(q)
    BY <1>1, <2>2, <2>3 DEF Local
  <2> QED BY <1>0, <1>1, <2>4, <2>5, <2>6, <2>7, <2>8, OneRun, SameCommands DEF Good
<1> QED BY <1>2, <1>3 DEF Conflict

(* The request is refused for its token.                                       *)
LEMMA UnauthorizedStep == ASSUME IInv, NEW c \in Client, Unauthorized(c) PROVE IInv'
<1>0. TypeOK /\ Good(c)
  BY ByRun
<1> USE DEF platform, history
<1>1. pc[c] = "post" /\ UNCHANGED <<platform, req, version, command, reported, history>>
  BY DEF Unauthorized
<1>2. CASE \E e \in {"AuthenticationError", "ServiceError"} : Fails(c, e)
  BY <1>1, <1>2, FailWithout
<1>3. CASE /\ tries' = [tries EXCEPT ![c] = 2]
           /\ UNCHANGED <<pc, result, status, shown, late>>
  <2>1. TypeOK'
    BY <1>0, <1>1, <1>3 DEF TypeOK
  <2>2. Good(c)'
    BY <1>0, <1>1, <1>3 DEF Good, RunOK, Asked, NotMade, Pinned, Carried, Following, Read, Ended,
                            Bound, Real, Shown
  <2>3. \A q \in Client : q # c => Local(q)' = Local(q)
    BY <1>0, <1>1, <1>3 DEF TypeOK, Local
  <2> QED BY <1>0, <1>1, <2>1, <2>2, <2>3, OneRun, SameCommands
<1> QED BY <1>2, <1>3 DEF Unauthorized

(* The request is turned down or lost.                                         *)
LEMMA RejectedStep == ASSUME IInv, NEW c \in Client, Rejected(c) PROVE IInv'
<1>1. PICK e : Fails(c, e)
  BY DEF Rejected
<1>2. pc[c] = "post" /\ UNCHANGED <<platform, req, version, command, reported, history>>
  BY DEF Rejected
<1> QED BY <1>1, <1>2, FailWithout

-----------------------------------------------------------------------------
(* The monitor                                                                 *)

(* The monitoring ends without a status, or with the one that was read.        *)
LEMMA EndsStep ==
  ASSUME IInv, NEW c \in Client, NEW final, Ends(c, final), pc[c] # "idle",
         final = "COMPLETED" => pc[c] = "report" /\ status[c] = "COMPLETED",
         UNCHANGED <<platform, req, version, command, reported, history>>
  PROVE  IInv'
<1>0. TypeOK /\ Good(c)
  BY ByRun
<1>1. PICK exit \in {0, 1} :
        /\ End(c, exit, final = "COMPLETED")
        /\ req[c].kind = "registry" => (exit = 0 <=> final = "COMPLETED")
  BY EndsFacts, KindOfRun
<1>2. CASE final # "COMPLETED"
  <2>1. End(c, exit, FALSE) /\ (req[c].kind = "registry" => exit = 1)
    BY <1>1, <1>2
  <2> QED BY <2>1, EndWithout
<1>3. CASE final = "COMPLETED"
  <2> USE DEF platform, history
  <2>1. End(c, exit, TRUE) /\ (req[c].kind = "registry" => exit = 0)
    BY <1>1, <1>3
  <2>2. /\ pc' \in [Client -> Points] /\ pc'[c] = "done"
        /\ result' \in [Client -> Results \cup {None}] /\ result'[c] \in Results
        /\ result'[c] = [exit |-> exit, success |-> TRUE]
        /\ tries' \in [Client -> 1 .. 2] /\ status' \in [Client -> Status \cup {None}]
        /\ shown' \in [Client -> 0 .. MaxEvents] /\ late' \in [Client -> BOOLEAN]
        /\ \A q \in Client : q # c =>
             /\ pc'[q] = pc[q] /\ result'[q] = result[q] /\ tries'[q] = tries[q]
             /\ status'[q] = status[q] /\ shown'[q] = shown[q] /\ late'[q] = late[q]
    BY <1>0, <2>1, EndFacts
  <2>3. TypeOK'
    BY <1>0, <2>2 DEF TypeOK
  <2>4. /\ command[c] # 0 /\ commands[command[c]].status = "COMPLETED"
        /\ guessed[c] \/ commands[command[c]].version = reported[c]
    BY <1>0, <1>3 DEF Good, RunOK, Following, Read, TERMINAL_STATUSES
  <2>5. RunOK(c)'
    <3>1. Asked(c)' /\ NotMade(c)' /\ Pinned(c)' /\ Carried(c)'
      BY <1>0, <2>2 DEF Good, RunOK, Asked, NotMade, Pinned, Carried
    <3>2. Following(c)' /\ Read(c)' /\ Ended(c)'
      BY <2>2, <2>4 DEF Following, Read, Ended
    <3> QED BY <3>1, <3>2 DEF RunOK
  <2>6. (Len(made[c]) <= 1)' /\ Bound(c)'
    BY <1>0 DEF Good, Bound
  <2>7. Real(c)' /\ Shown(c)'
    BY <2>1, <2>2, <2>4 DEF Real, Shown
  <2>8. \A q \in Client : q # c => Local(q)' = Local(q)
    BY <2>2 DEF Local
  <2> QED BY <1>0, <2>3, <2>5, <2>6, <2>7, <2>8, OneRun, SameCommands DEF Good
<1> QED BY <1>2, <1>3

(* A turn of the loop reads the status.                                        *)
LEMMA PollStep == ASSUME IInv, NEW c \in Client, Poll(c) PROVE IInv'
<1>0. TypeOK /\ Good(c)
  BY ByRun
<1> USE DEF platform, history
<1>1. pc[c] = "poll" /\ UNCHANGED <<platform, req, version, command, reported, history>>
  BY DEF Poll
<1>2. CASE Ends(c, "TIMEOUT") \/ Ends(c, "UNKNOWN")
  BY <1>1, <1>2, EndsStep
<1>3. CASE /\ status' = [status EXCEPT ![c] = commands[command[c]].status]
           /\ Goto(c, "events")
           /\ UNCHANGED <<result, tries, shown, late>>
  <2>1. command[c] \in 1 .. Len(commands)
    BY <1>0, <1>1, Types DEF Good, RunOK, Following
  <2>2. commands[command[c]].status \in Status
    BY <1>0, <2>1, Types DEF Command
  <2>3. /\ TypeOK' /\ pc'[c] = "events"
        /\ status'[c] = commands[command[c]].status
    BY <1>0, <1>1, <1>3, <2>2 DEF TypeOK, Goto, Points
  <2>4. RunOK(c)'
    <3>1. Asked(c)' /\ NotMade(c)' /\ Pinned(c)' /\ Carried(c)' /\ Following(c)'
      BY <1>0, <1>1, <2>3 DEF Good, RunOK, Asked, NotMade, Pinned, Carried, Following
    <3>2. Read(c)' /\ Ended(c)'
      BY <1>1, <2>2, <2>3 DEF Read, Ended
    <3> QED BY <3>1, <3>2 DEF RunOK
  <2>5. (Len(made[c]) <= 1)' /\ Bound(c)'
    BY <1>0, <1>1 DEF Good, Bound
  <2>6. Real(c)' /\ Shown(c)'
    BY <2>3 DEF Real, Shown
  <2>7. \A q \in Client : q # c => Local(q)' = Local(q)
    BY <1>0, <1>1, <1>3 DEF TypeOK, Goto, Local
  <2> QED BY <1>0, <1>1, <2>3, <2>4, <2>5, <2>6, <2>7, OneRun, SameCommands DEF Good
<1> QED BY <1>2, <1>3 DEF Poll

(* Then it reads the events.                                                   *)
LEMMA EventsStep == ASSUME IInv, NEW c \in Client, Events(c) PROVE IInv'
<1>0. TypeOK /\ Good(c)
  BY ByRun
<1> USE DEF platform, history
<1>1. pc[c] = "events" /\ UNCHANGED <<platform, req, version, command, reported, history>>
  BY DEF Events
<1>2. CASE Ends(c, "UNKNOWN")
  BY <1>1, <1>2, EndsStep
<1>3. CASE /\ shown' = [shown EXCEPT ![c] = commands[command[c]].events]
           /\ Goto(c, IF status[c] \in TERMINAL_STATUSES THEN "report" ELSE "poll")
           /\ UNCHANGED <<result, tries, status, late>>
  <2>1. command[c] \in 1 .. Len(commands)
    BY <1>0, <1>1, Types DEF Good, RunOK, Following
  <2>2. commands[command[c]].events \in 0 .. MaxEvents
    BY <1>0, <2>1, Types DEF Command
  <2>3. /\ TypeOK' /\ shown'[c] = commands[command[c]].events
        /\ pc'[c] = IF status[c] \in TERMINAL_STATUSES THEN "report" ELSE "poll"
    BY <1>0, <1>1, <1>3, <2>2 DEF TypeOK, Goto, Points
  <2>4. RunOK(c)'
    <3>1. Asked(c)' /\ NotMade(c)' /\ Pinned(c)' /\ Carried(c)' /\ Following(c)'
      BY <1>0, <1>1, <2>3 DEF Good, RunOK, Asked, NotMade, Pinned, Carried, Following
    <3>2. Read(c)' /\ Ended(c)'
      BY <1>0, <1>1, <1>3, <2>3 DEF Good, RunOK, Read, Ended
    <3> QED BY <3>1, <3>2 DEF RunOK
  <2>5. (Len(made[c]) <= 1)' /\ Bound(c)'
    BY <1>0, <1>1 DEF Good, Bound
  <2>6. Real(c)' /\ Shown(c)'
    BY <1>1, <2>3 DEF Real, Shown
  <2>7. \A q \in Client : q # c => Local(q)' = Local(q)
    BY <1>0, <1>1, <1>3 DEF TypeOK, Goto, Local
  <2> QED BY <1>0, <1>1, <2>3, <2>4, <2>5, <2>6, <2>7, OneRun, SameCommands DEF Good
<1> QED BY <1>2, <1>3 DEF Events

(* And the run ends with the status it read.                                   *)
LEMMA ReportStep == ASSUME IInv, NEW c \in Client, Report(c) PROVE IInv'
<1>1. pc[c] = "report" /\ UNCHANGED <<platform, req, version, command, reported, history>>
  BY DEF Report
<1>2. CASE Ends(c, status[c])
  BY <1>1, <1>2, EndsStep
<1>3. CASE \E e : Fails(c, e)
  BY <1>1, <1>3, FailWithout
<1> QED BY <1>2, <1>3 DEF Report

(* Time passes.                                                                *)
LEMMA LateStep == ASSUME IInv, NEW c \in Client, Late(c) PROVE IInv'
<1>0. TypeOK /\ Good(c)
  BY ByRun
<1> USE DEF Late, platform, outcome, history
<1>1. TypeOK'
  BY <1>0 DEF TypeOK
<1>2. Good(c)'
  BY <1>0 DEF Good, RunOK, Asked, NotMade, Pinned, Carried, Following, Read, Ended, Bound, Real, Shown
<1>3. \A q \in Client : q # c => Local(q)' = Local(q)
  BY <1>0 DEF TypeOK, Local
<1> QED BY <1>0, <1>1, <1>2, <1>3, OneRun, SameCommands

-----------------------------------------------------------------------------
(* The theorems                                                                *)

(* The initial states.                                                         *)
LEMMA InitInv == Init => IInv
<1> SUFFICES ASSUME Init PROVE IInv
  OBVIOUS
<1>1. commands \in Seq(Command) /\ Len(commands) = 0 /\ \A c \in Client : made[c] = <<>>
  BY DEF Init
<1>2. 0 \in 0 .. MaxEvents
  BY BoundAssumption
<1>3. TypeOK
  BY <1>1, <1>2, PublishedAssumption DEF Init, TypeOK, Points
<1>4. \A c \in Client : Good(c)
  BY <1>1 DEF Init, Good, RunOK, Asked, NotMade, Pinned, Carried, Following, Read, Ended, Bound,
              Real, Shown
<1> QED BY <1>3, <1>4, ByRun

(* Every step.                                                                 *)
LEMMA StepInv == IInv /\ [Next]_vars => IInv'
<1> SUFFICES ASSUME IInv, [Next]_vars PROVE IInv'
  OBVIOUS
<1>1. CASE Work \/ Publish \/ UNCHANGED vars
  BY <1>1, OutsideStep
<1>2. ASSUME NEW c \in Client, Run(c) \/ Step(c) \/ Late(c) PROVE IInv'
  <2>1. CASE Run(c) \/ Late(c)
    BY <2>1, RunStep, LateStep
  <2>2. CASE GivesUp(c) \/ Resolve(c) \/ Declare(c)
    BY <2>2, GivesUpStep, ResolveStep, DeclareStep
  <2>3. CASE Created(c) \/ Unauthorized(c) \/ Rejected(c)
    BY <2>3, CreatedStep, UnauthorizedStep, RejectedStep
  <2>4. CASE \E i \in DOMAIN commands, named, versioned \in BOOLEAN :
               Conflict(c, i, named, versioned)
    BY <2>4, ConflictStep
  <2>5. CASE Poll(c) \/ Events(c) \/ Report(c)
    BY <2>5, PollStep, EventsStep, ReportStep
  <2> QED BY <1>2, <2>1, <2>2, <2>3, <2>4, <2>5 DEF Step
<1> QED BY <1>1, <1>2 DEF Next

(* The inductive invariant holds in every reachable state, for any clients,    *)
(* versions, requests and bounds.                                              *)
THEOREM Invariant == Spec => []IInv
BY InitInv, StepInv, PTL DEF Spec

(* Type correctness.                                                           *)
THEOREM TypeCorrect == Spec => []TypeOK
<1>1. IInv => TypeOK
  BY DEF IInv
<1> QED BY <1>1, Invariant, PTL

(* No run makes the platform start two commands.                               *)
THEOREM RunsStartOneCommand == Spec => []OneCommandPerRun
<1>1. IInv => OneCommandPerRun
  BY DEF IInv
<1> QED BY <1>1, Invariant, PTL

(* A registry install starts the version its bindings were checked against.    *)
THEOREM InstallsWhatWasBound == Spec => []BoundAgainstInstalled
<1>1. IInv => BoundAgainstInstalled
  BY DEF IInv
<1> QED BY <1>1, Invariant, PTL

(* A success is a command that completed, under the version it installed.      *)
THEOREM SuccessesAreReal == Spec => []SuccessIsReal
<1>1. IInv => SuccessIsReal
  BY DEF IInv
<1> QED BY <1>1, Invariant, PTL

(* A run that reports a terminal status has shown all the command's events.    *)
THEOREM EventsAreComplete == Spec => []AllEventsShown
<1>1. IInv => AllEventsShown
  BY DEF IInv
<1> QED BY <1>1, Invariant, PTL

-----------------------------------------------------------------------------
(* How far a run is from its end                                               *)

(* What is left is a number, and none is left of a run that has not begun or   *)
(* is over.                                                                    *)
LEMMA RemainingIs ==
  ASSUME TypeOK, NEW c \in Client
  PROVE  Remaining(c) \in Nat /\ (Remaining(c) = 0 <=> pc[c] \in {"idle", "done"})
<1>1. pc[c] \in Points /\ tries[c] \in 1 .. 2 /\ late[c] \in BOOLEAN
  BY DEF TypeOK
<1>2. 8 - tries[c] \in 6 .. 7
  BY <1>1
<1> DEFINE answer == 8 - tries[c]
<1>3. answer \in 6 .. 7 /\ Remaining(c) = CASE pc[c] = "resolve" -> 9 [] pc[c] = "declare" -> 8
                                            [] pc[c] = "post" -> answer
                                            [] pc[c] = "events" -> (IF late[c] THEN 3 ELSE 5)
                                            [] pc[c] = "poll" -> (IF late[c] THEN 2 ELSE 4)
                                            [] pc[c] = "report" -> 1 [] OTHER -> 0
  BY <1>2 DEF Remaining
<1> HIDE DEF answer
<1> QED BY <1>1, <1>3 DEF Points

(* A run that is under way and then over is nearer its end.                    *)
LEMMA OverIsNearer ==
  ASSUME TypeOK, NEW c \in Client, pc[c] \notin {"idle", "done"}, pc'[c] = "done"
  PROVE  Remaining(c)' < Remaining(c)
<1>1. Remaining(c) \in Nat /\ Remaining(c) # 0
  BY RemainingIs
<1>2. Remaining(c)' = 0
  BY DEF Remaining
<1> QED BY <1>1, <1>2

(* However a run ends, it is over.                                             *)
LEMMA EndIsOver ==
  ASSUME TypeOK, NEW c \in Client, NEW exit, NEW success, End(c, exit, success)
  PROVE  pc'[c] = "done"
BY DEF End, Goto, TypeOK

LEMMA FailIsOver == ASSUME TypeOK, NEW c \in Client, NEW e, Fails(c, e) PROVE pc'[c] = "done"
BY EndIsOver DEF Fails

LEMMA EndsIsOver == ASSUME TypeOK, NEW c \in Client, NEW final, Ends(c, final) PROVE pc'[c] = "done"
BY EndIsOver DEF Ends

(* A run that follows a command has its request behind it.                     *)
LEMMA FollowIsNearer ==
  ASSUME TypeOK, NEW c \in Client, NEW i, NEW v, Follow(c, i, v), pc[c] = "post"
  PROVE  Remaining(c)' < Remaining(c)
<1>1. pc'[c] = "poll" /\ late'[c] = late[c]
  BY DEF Follow, Goto, TypeOK
<1>2. Remaining(c)' <= 4 /\ Remaining(c)' \in Nat
  BY <1>1 DEF Remaining
<1>3. Remaining(c) = 8 - tries[c] /\ tries[c] \in 1 .. 2
  BY DEF Remaining, TypeOK
<1> QED BY <1>2, <1>3

(* A request that is sent again is not sent a third time.                      *)
LEMMA AgainIsNearer ==
  ASSUME TypeOK, NEW c \in Client, pc[c] = "post", pc'[c] = "post", tries[c] = 1, tries'[c] = 2
  PROVE  Remaining(c)' < Remaining(c)
BY DEF Remaining

(* Every step of a run but one takes it nearer its end.                        *)
LEMMA StepIsNearer ==
  ASSUME TypeOK, NEW c \in Client, Step(c)
  PROVE  Remaining(c)' < Remaining(c) \/ (pc[c] = "poll" /\ ~late[c] /\ Poll(c))
<1>0. pc[c] \in Points /\ tries[c] \in 1 .. 2 /\ late[c] \in BOOLEAN
  BY DEF TypeOK
<1>1. CASE GivesUp(c)
  BY <1>1, EndIsOver, OverIsNearer DEF GivesUp
<1>2. CASE Resolve(c)
  <2>1. pc[c] = "resolve" /\ pc'[c] = "declare"
    BY <1>2 DEF Resolve, Goto, TypeOK
  <2> QED BY <2>1 DEF Remaining
<1>3. CASE Declare(c)
  <2>1. pc[c] = "declare" /\ pc'[c] = "post" /\ tries'[c] = tries[c]
    BY <1>3 DEF Declare, Goto, TypeOK, locals
  <2>2. Remaining(c) = 8 /\ Remaining(c)' = 8 - tries[c]
    BY <2>1 DEF Remaining
  <2> QED BY <1>0, <2>2
<1>4. CASE Created(c)
  <2>1. pc[c] = "post"
    BY <1>4 DEF Created
  <2>2. (\E v : Follow(c, Len(commands) + 1, v)) \/ Fails(c, "ServiceError")
    BY <1>4 DEF Created
  <2> QED BY <2>1, <2>2, FollowIsNearer, FailIsOver, OverIsNearer
<1>5. CASE Unauthorized(c)
  <2>1. pc[c] = "post"
    BY <1>5 DEF Unauthorized
  <2>2. CASE tries[c] = 1 /\ tries' = [tries EXCEPT ![c] = 2] /\ UNCHANGED pc
    <3>1. tries'[c] = 2 /\ pc'[c] = "post"
      BY <2>1, <2>2 DEF TypeOK
    <3> QED BY <2>1, <2>2, <3>1, AgainIsNearer
  <2>3. CASE Fails(c, IF tries[c] = 1 THEN "AuthenticationError" ELSE "ServiceError")
    BY <2>1, <2>3, FailIsOver, OverIsNearer
  <2> QED BY <1>5, <2>2, <2>3 DEF Unauthorized
<1>6. CASE Rejected(c)
  <2>1. pc[c] = "post" /\ \E e : Fails(c, e)
    BY <1>6 DEF Rejected
  <2> QED BY <2>1, FailIsOver, OverIsNearer
<1>7. ASSUME NEW i \in DOMAIN commands, NEW named \in BOOLEAN, NEW versioned \in BOOLEAN,
             Conflict(c, i, named, versioned)
      PROVE  Remaining(c)' < Remaining(c)
  <2>1. pc[c] = "post"
    BY <1>7 DEF Conflict
  <2>2. (\E v : Follow(c, i, v)) \/ (\E e : Fails(c, e))
    BY <1>7 DEF Conflict
  <2> QED BY <2>1, <2>2, FollowIsNearer, FailIsOver, OverIsNearer
<1>8. CASE Poll(c)
  <2>1. pc[c] = "poll"
    BY <1>8 DEF Poll
  <2>2. CASE late[c]
    <3>1. Ends(c, "TIMEOUT")
      BY <1>8, <2>2 DEF Poll
    <3> QED BY <2>1, <3>1, EndsIsOver, OverIsNearer
  <2> QED BY <1>8, <2>1, <2>2
<1>9. CASE Events(c)
  <2>1. pc[c] = "events"
    BY <1>9 DEF Events
  <2>2. CASE Ends(c, "UNKNOWN")
    BY <2>1, <2>2, EndsIsOver, OverIsNearer
  <2>3. CASE /\ Goto(c, IF status[c] \in TERMINAL_STATUSES THEN "report" ELSE "poll")
             /\ UNCHANGED late
    <3>1. pc'[c] \in {"report", "poll"} /\ late'[c] = late[c]
      BY <2>3 DEF Goto, TypeOK
    <3> QED BY <1>0, <2>1, <3>1 DEF Remaining
  <2> QED BY <1>9, <2>2, <2>3 DEF Events
<1>10. CASE Report(c)
  <2>1. pc[c] = "report" /\ (Ends(c, status[c]) \/ \E e : Fails(c, e))
    BY <1>10 DEF Report
  <2> QED BY <2>1, EndsIsOver, FailIsOver, OverIsNearer
<1> QED BY <1>1, <1>2, <1>3, <1>4, <1>5, <1>6, <1>7, <1>8, <1>9, <1>10 DEF Step

(* So does its time, when it is over.                                          *)
LEMMA TimeIsNearer ==
  ASSUME TypeOK, NEW c \in Client, Late(c)
  PROVE  Remaining(c)' < Remaining(c)
<1>1. pc[c] \in {"poll", "events"} /\ ~late[c] /\ pc'[c] = pc[c] /\ late'[c]
  BY DEF Late, TypeOK
<1> QED BY <1>1 DEF Remaining

(* What the monitor and the request keep of a run is the run's own.            *)
LEMMA OthersKeepRemaining ==
  ASSUME TypeOK, NEW c \in Client, [Next]_vars, pc[c] # "idle", ~(Step(c) \/ Late(c))
  PROVE  Remaining(c)' = Remaining(c)
<1> DEFINE Kept == pc'[c] = pc[c] /\ tries'[c] = tries[c] /\ late'[c] = late[c]
<1>1. ASSUME Work \/ Publish \/ UNCHANGED vars PROVE Kept
  BY <1>1 DEF Work, Publish, vars, locals
<1>2. ASSUME NEW q \in Client, Run(q) \/ Step(q) \/ Late(q)
      PROVE  Kept
  <2>1. q # c
    BY <1>2 DEF Run
  <2>2. \A exit, success : End(q, exit, success) => Kept
    BY <2>1 DEF End, Goto, TypeOK
  <2>3. (\A e : Fails(q, e) => Kept) /\ (\A final : Ends(q, final) => Kept)
    BY <2>2 DEF Fails, Ends
  <2>4. \A i, v : Follow(q, i, v) => Kept
    BY <2>1 DEF Follow, Goto, TypeOK
  <2>5. \A point : Goto(q, point) => pc'[c] = pc[c]
    BY <2>1 DEF Goto, TypeOK
  <2>6. CASE Run(q) \/ Resolve(q) \/ Declare(q) \/ Late(q)
    BY <2>1, <2>5, <2>6 DEF Run, Resolve, Declare, Late, locals, TypeOK
  <2>7. CASE GivesUp(q) \/ Rejected(q) \/ Report(q)
    BY <2>2, <2>3, <2>7 DEF GivesUp, Rejected, Report
  <2>8. CASE Created(q)
    BY <2>3, <2>4, <2>8 DEF Created
  <2>9. CASE Unauthorized(q)
    <3>1. CASE tries' = [tries EXCEPT ![q] = 2] /\ UNCHANGED <<pc, late>>
      BY <2>1, <3>1 DEF TypeOK
    <3> QED BY <2>3, <2>9, <3>1 DEF Unauthorized
  <2>10. ASSUME NEW i \in DOMAIN commands, NEW named \in BOOLEAN, NEW versioned \in BOOLEAN,
                Conflict(q, i, named, versioned)
         PROVE  Kept
    BY <2>3, <2>4, <2>10 DEF Conflict
  <2>11. CASE Poll(q) \/ Events(q)
    BY <2>3, <2>5, <2>11 DEF Poll, Events
  <2> QED BY <1>2, <2>6, <2>7, <2>8, <2>9, <2>10, <2>11 DEF Step
<1>3. Kept
  BY <1>1, <1>2 DEF Next
<1> QED BY <1>3 DEF Remaining

(* Whatever its user asked for, a run has finitely many steps before it, but   *)
(* for the turns that the monitor takes while it has time                      *)
(* (command_monitor.monitor_command_events).                                   *)
THEOREM RunsComeNearer == Spec => RunsDescend
<1> DEFINE Numbers == \A c \in Client :
                        Remaining(c) \in Nat /\ (Remaining(c) = 0 <=> pc[c] \in {"idle", "done"})
           Nearer == \A c \in Client :
             /\ Step(c) \/ Late(c) =>
                  Remaining(c)' < Remaining(c) \/ (pc[c] = "poll" /\ ~late[c] /\ Poll(c))
             /\ pc[c] # "idle" /\ ~(Step(c) \/ Late(c)) => Remaining(c)' = Remaining(c)
<1>1. TypeOK => Numbers
  BY RemainingIs
<1>2. TypeOK /\ [Next]_vars => [Nearer]_vars
  <2> SUFFICES ASSUME TypeOK, [Next]_vars PROVE Nearer
    OBVIOUS
  <2>1. \A c \in Client : Step(c) \/ Late(c) =>
          Remaining(c)' < Remaining(c) \/ (pc[c] = "poll" /\ ~late[c] /\ Poll(c))
    BY StepIsNearer, TimeIsNearer
  <2>2. \A c \in Client : pc[c] # "idle" /\ ~(Step(c) \/ Late(c)) => Remaining(c)' = Remaining(c)
    BY OthersKeepRemaining
  <2> QED BY <2>1, <2>2
<1>3. RunsDescend <=> []Numbers /\ [][Nearer]_vars
  BY DEF RunsDescend
<1> QED BY <1>1, <1>2, <1>3, TypeCorrect, PTL DEF Spec
=============================================================================
