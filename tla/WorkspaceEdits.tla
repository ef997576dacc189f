--------------------------- MODULE WorkspaceEdits ---------------------------
(***************************************************************************)
(* The commands that change one thing on the platform: `plgt variables`,   *)
(* `plgt secrets`, `plgt extensions`, `plgt set-auto-update`, `plgt yank`  *)
(* and `plgt unyank`, with the clients they call.                          *)
(*                                                                         *)
(* A command checks its arguments, may first read what it is about to      *)
(* change or ask the user, and sends one request.  Other users change the  *)
(* same things meanwhile, and any answer may be lost.                      *)
(***************************************************************************)
EXTENDS Naturals, Sequences, FiniteSets

CONSTANTS
  Requests,    \* the commands users give
  Beginning,   \* what the platform has at the start: a set of items
  Bare,        \* Bare[v]: the value v without the blanks around it
  MaxChanges,  \* bound: changes by others
  MaxCommands, \* bound: commands
  None         \* "no value"

\* An item has a kind, an identity the platform gave it, a namespace and a name,
\* and a value; required is of variables, and locked of versions an
\* administrator has yanked.
Kind == {"variable", "secret", "extension", "installation", "version"}

\* A request: kind; verb; form, how the item is named ("uri", "qname",
\* "malformed"), with ns and name; value, None to clear a variable; good,
\* whether the options go together; piped, whether the value is read from a
\* pipe (--from-stdin); tty, whether it can be typed; force.
\* The module of the runs assumes these; identities from 100 on are still free.
RequestsAssumption ==
  \A r \in Requests : r.kind \in Kind /\ (r.piped => r.kind = "secret" /\ r.value \in DOMAIN Bare)
BeginningAssumption ==
  /\ IsFiniteSet(Beginning)
  /\ \A i \in Beginning : /\ DOMAIN i = {"kind", "id", "ns", "name", "value", "required", "locked"}
                          /\ i.id \in 0..99
  /\ \A i, j \in Beginning : i.id = j.id => i = j

VARIABLES
  items,    \* what the platform has
  next,     \* the next identity it gives
  cmd,      \* the command at work: its request and its step
  listed,   \* the variables it has read
  target,   \* the identity it resolved its variable to
  applied,  \* history: the changes its requests made, in order
  report,   \* how the last command ended
  changes,  \* how many changes others made
  commands  \* how many commands there were
vars == <<items, next, cmd, listed, target, applied, report, changes, commands>>

Idle == [step |-> "none", req |-> None]

Init ==
  /\ items = Beginning /\ next = 100 /\ cmd = Idle /\ listed = {} /\ target = None
  /\ applied = <<>> /\ report = None /\ changes = 0 /\ commands = 0

Req == cmd.req
At(kind, step) == cmd.step = step /\ Req.kind = kind
Goto(s) == cmd' = [cmd EXCEPT !.step = s] /\ UNCHANGED report
End(how) == cmd' = Idle /\ report' = [req |-> Req, how |-> how]
Quiet == UNCHANGED <<items, next, applied, changes, commands>>
Begins == cmd = Idle /\ commands < MaxCommands /\ commands' = commands + 1

\* A value with nothing in it.
Blank == ""

\* The value to set: one that was piped is stripped.
Given(r) == IF r.piped THEN Bare[r.value] ELSE r.value

\* Local names are compared, whatever the prefix; a URI is compared whole.
Answers(r, i) == i.kind = r.kind /\ i.name = r.name /\ (r.form = "uri" => i.ns = r.ns)

-----------------------------------------------------------------------------
(* What others do *)

\* An install declares something anew: the platform has it under a new identity.
Redeclare ==
  /\ changes < MaxChanges /\ changes' = changes + 1
  /\ \E i \in {j \in items : j.kind \in {"variable", "secret"}} :
       items' = (items \ {i}) \cup {[i EXCEPT !.id = next, !.value = None]}
  /\ next' = next + 1
  /\ UNCHANGED <<cmd, listed, target, applied, report, commands>>

Remove ==
  /\ changes < MaxChanges /\ changes' = changes + 1
  /\ \E i \in items : i.kind # "version" /\ items' = items \ {i}
  /\ UNCHANGED <<next, cmd, listed, target, applied, report, commands>>

Overwrite ==
  /\ changes < MaxChanges /\ changes' = changes + 1
  /\ \E i \in {j \in items : j.kind \in {"variable", "secret", "extension"}} :
       items' = (items \ {i}) \cup {[i EXCEPT !.value = "theirs",
                                       !.required = IF i.kind = "variable" THEN ~@ ELSE @]}
  /\ UNCHANGED <<next, cmd, listed, target, applied, report, commands>>

-----------------------------------------------------------------------------
(* A command up to its request *)

\* The arguments: a reference has a form, a scope its entity, an update a file
\* or a label, a variable either a value or --clear.
Start ==
  /\ Begins
  /\ \E r \in Requests :
       /\ r.form # "malformed" /\ r.good
       /\ cmd' = [req |-> r, step |-> CASE r.kind = "variable" -> "list"
                                        [] r.kind = "secret" -> "exists"
                                        [] r.kind = "extension" /\ r.verb = "delete" -> "confirm"
                                        [] OTHER -> "write"]
  /\ applied' = <<>> /\ listed' = {} /\ target' = None /\ report' = None
  /\ UNCHANGED <<items, next, changes>>

Misused ==
  /\ Begins /\ \E r \in Requests :
       (r.form = "malformed" \/ ~r.good) /\ report' = [req |-> r, how |-> "refused"]
  /\ applied' = <<>> /\ listed' = {} /\ target' = None
  /\ UNCHANGED <<items, next, cmd, changes>>

\* VariablesClient.list_variables
List ==
  /\ At("variable", "list")
  /\ \/ listed' = {i \in items : i.kind = "variable"} /\ Goto("resolve")
     \/ UNCHANGED listed /\ End("failed")
  /\ UNCHANGED target /\ Quiet

\* _resolve_variable and the check before --clear; `get` shows and ends here.
Resolve ==
  LET found == {i \in listed : Answers(Req, i)} IN
  /\ At("variable", "resolve")
  /\ \/ Cardinality(found) # 1 /\ End("refused") /\ UNCHANGED target
     \/ /\ Cardinality(found) = 1
        /\ \E i \in found :
             IF Req.verb = "get" THEN End("shown") /\ UNCHANGED target
             ELSE IF Req.value = None /\ i.required THEN End("refused") /\ UNCHANGED target
             ELSE Goto("write") /\ target' = i.id
  /\ UNCHANGED listed /\ Quiet

\* secrets: the item must be there before a value is asked for; `get` ends with
\* what the platform answers, its value decrypted.
Exists ==
  /\ At("secret", "exists")
  /\ \/ End("failed")
     \/ (\A i \in items : ~Answers(Req, i)) /\ End("refused")
     \/ (\E i \in items : Answers(Req, i)) /\ IF Req.verb = "get" THEN End("shown") ELSE Goto("value")
  /\ UNCHANGED <<listed, target>> /\ Quiet

\* The value is typed, at a terminal only, or piped; none is sent that is empty.
Value ==
  /\ At("secret", "value")
  /\ \/ (Req.piped \/ Req.tty) /\ Given(Req) # Blank /\ Goto("key")
     \/ (~Req.piped \/ Given(Req) = Blank) /\ End("refused")
  /\ UNCHANGED <<listed, target>> /\ Quiet

\* The value is encrypted for a key that is asked for first, and sent with it.
FetchKey ==
  /\ At("secret", "key")
  /\ Goto("write") \/ End("failed")
  /\ UNCHANGED <<listed, target>> /\ Quiet

Confirm ==
  /\ At("extension", "confirm")
  /\ \/ Goto("write")
     \/ ~Req.force /\ End("cancelled")
  /\ UNCHANGED <<listed, target>> /\ Quiet

-----------------------------------------------------------------------------
(* The request *)

\* A mutation: a variable is looked up again by its name.
AddressedByName(r) == {i \in items : Answers(r, i)}

\* The item a request is for: by identity for a variable, by name otherwise.
Addressed(r) ==
  IF r.kind = "variable" THEN {i \in items : i.id = target} ELSE {i \in items : Answers(r, i)}

\* The platform: the only live version is not yanked unless forced, and what an
\* administrator yanked stays so.
Allowed(r, i) ==
  r.kind = "version" =>
    IF r.verb = "yank"
    THEN r.force \/ \E j \in items \ {i} : j.kind = "version" /\ j.value = "live"
    ELSE ~i.locked

Made(r, i) ==
  IF r.verb = "delete" THEN {} ELSE {[i EXCEPT !.value = Given(r)]}

Apply(i, changed) ==
  /\ items' = (items \ {i}) \cup changed
  /\ applied' = Append(applied, [kind |-> Req.kind, id |-> i.id, ns |-> i.ns, name |-> i.name, value |-> Given(Req)])

Sends(kind, verb) ==
  /\ At(kind, "write") /\ Req.verb = verb
  /\ \/ \E i \in Addressed(Req) :
          /\ Allowed(Req, i) /\ Apply(i, Made(Req, i))
          /\ End("done") \/ End("failed")
     \/ /\ \A i \in Addressed(Req) : ~Allowed(Req, i)
        /\ End("refused") /\ UNCHANGED <<items, applied>>
     \/ End("failed") /\ UNCHANGED <<items, applied>>
  /\ UNCHANGED <<next, listed, target, changes, commands>>

SetVariable == Sends("variable", "set")
SetSecret == Sends("secret", "set")
UpdateExtension == Sends("extension", "update")
DeleteExtension == Sends("extension", "delete")
SetAutoUpdate == Sends("installation", "set")
Yank == Sends("version", "yank")
Unyank == Sends("version", "unyank")

\* A mutation: a request whose answer is lost is sent again.
CreateAgain ==
  /\ At("extension", "write") /\ Req.verb = "create"
  /\ LET i == [kind |-> "extension", id |-> next, ns |-> Req.ns, name |-> Req.name,
               value |-> Req.value, required |-> FALSE, locked |-> FALSE]
     IN  Apply(i, {i}) /\ next' = next + 1 /\ (End("done") \/ UNCHANGED <<cmd, report>>)
  /\ UNCHANGED <<listed, target, changes, commands>>

\* create_extension: every request that arrives makes an extension.
Create ==
  /\ At("extension", "write") /\ Req.verb = "create"
  /\ \/ LET i == [kind |-> "extension", id |-> next, ns |-> Req.ns, name |-> Req.name,
                  value |-> Req.value, required |-> FALSE, locked |-> FALSE]
        IN  /\ Apply(i, {i}) /\ next' = next + 1
            /\ End("done") \/ End("failed")
     \/ End("failed") /\ UNCHANGED <<items, applied, next>>
  /\ UNCHANGED <<listed, target, changes, commands>>

Next ==
  \/ Redeclare \/ Remove \/ Overwrite
  \/ Start \/ Misused \/ List \/ Resolve \/ Exists \/ Value \/ FetchKey \/ Confirm
  \/ SetVariable \/ SetSecret \/ UpdateExtension \/ DeleteExtension \/ SetAutoUpdate
  \/ Yank \/ Unyank \/ Create
Spec == Init /\ [][Next]_vars

-----------------------------------------------------------------------------
(* Properties *)

\* What a command tells is what happened: with success, one change was made, to
\* the item it named with the value it was given, less the blanks around one that
\* was piped, and no secret is emptied; refused or only read, none; and a
\* failure leaves at most one.  A variable is changed only under the
\* identity that alone answered to the name when it was listed, never one
\* declared anew since, and is not cleared if it was listed as required.
ToldIsDone ==
  report # None =>
    LET r == report.req IN
    /\ Len(applied) <= 1
    /\ report.how = "done" => Len(applied) = 1
    /\ report.how \in {"refused", "shown", "cancelled"} => applied = <<>>
    /\ \A n \in DOMAIN applied :
         LET a == applied[n] IN
         /\ a.name = r.name /\ a.value = Given(r) /\ (r.form = "uri" => a.ns = r.ns)
         /\ r.kind = "secret" => a.value # Blank
         /\ r.kind = "variable" =>
              /\ {i.id : i \in {j \in listed : Answers(r, j)}} = {a.id}
              /\ r.value = None => \A i \in listed : i.id = a.id => ~i.required
=============================================================================
