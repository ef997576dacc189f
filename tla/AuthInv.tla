------------------------------ MODULE AuthInv ------------------------------
(***************************************************************************)
(* The inductive invariant of Auth: what a process knows, at each point of *)
(* a request, of its credentials and of the token it was refused with, and *)
(* where the stored login is.                                              *)
(***************************************************************************)
EXTENDS Auth

\* The process is at a point, or saves its config on the way there.
At(p, point) == pc[p] = point \/ (pc[p] \in {"save", "write"} /\ after[p] = point)

\* A save leads back to one of the places that ask for it.
SavesReturn(p) ==
  pc[p] \in {"save", "write"} =>
    after[p] \in {"connected", "ask", "reconnected", "check", "store", "landed", "listed", "answered"}

\* The headers carry the key, or the token of the session's profile.
HeaderOK(p) ==
  /\ keyed[p] => header[p] = Key /\ profile[p] = None
  /\ ~keyed[p] => header[p] = IF profile[p] = None THEN None ELSE profile[p].access

\* The session's profile is the config's, but for new tokens not yet in use.
ProfileOK(p) ==
  ~keyed[p] /\ ~At(p, "store") /\ ~At(p, "landed") => profile[p] = mem[p].profile

\* Only a session with a refresh token refreshes; what it gets is in the config,
\* as is what a login claimed.
GrantOK(p) ==
  /\ pc[p] = "connect" \/ At(p, "connected") \/ At(p, "ask") \/ At(p, "store") =>
       ~keyed[p] /\ profile[p] # None
  /\ At(p, "store") \/ (At(p, "landed") /\ ~keyed[p]) => mem[p].profile # None
  /\ pc[p] = "userinfo" => grant[p] # None

\* A command's request is applied when it is answered or has failed, and not before.
OnceOK(p) ==
  kind[p] = "api" =>
    /\ applied[p] <= 1
    /\ pc[p] \notin {"raise", "answered"} => applied[p] = 0

Known(t) == t \in Token => t <= issued
KnownCred(c) == c # None => Known(c.access)

\* Nobody holds a token that was not issued.
KnownOK(p) ==
  /\ Known(header[p]) /\ Known(refused[p])
  /\ KnownCred(mem[p].profile) /\ KnownCred(profile[p]) /\ KnownCred(grant[p])

Dead(t) == state[t] \in {"expired", "revoked"}

\* A token that was refused stays so, and what replaces it is another one.  An
\* API key is not replaced.
RetryOK(p) ==
  tries[p] = 2 =>
    /\ refused[p] \in Token => Dead(refused[p])
    /\ keyed[p] => pc[p] \in {"browser", "raise", "send"}
    /\ pc[p] = "api" => header[p] # refused[p]
    /\ At(p, "store") \/ At(p, "landed") => mem[p].profile.access # refused[p]
    /\ pc[p] = "userinfo" => grant[p].access # refused[p]

ProcOK(p) == /\ SavesReturn(p) /\ HeaderOK(p) /\ ProfileOK(p) /\ GrantOK(p)
             /\ OnceOK(p) /\ KnownOK(p) /\ RetryOK(p)

CredInv == TypeOK /\ KnownCred(file.profile) /\ \A p \in Proc : ProcOK(p)

Good(c) == c # None /\ c.refresh \in refreshable
Saving(p) == pc[p] \in {"save", "write"}

\* Who runs has the stored login in memory; while none is stored, only a process
\* that saves the first one has any, and then it runs alone.  What a callback
\* claimed is honoured until it is saved.
LoginOK(p) ==
  pc[p] # "off" =>
    /\ stored => Good(mem[p].profile)
    /\ ~stored /\ mem[p].profile # None => Saving(p) /\ Good(mem[p].profile) /\ ~Others(p)
    /\ pc[p] = "userinfo" => grant[p].refresh \in refreshable

LoginInv ==
  ~disturbed =>
    /\ file.profile # None => stored
    /\ stored /\ (\A p \in Proc : ~Saving(p)) => Good(file.profile)
    /\ \A p \in Proc : LoginOK(p)

\* The inductive invariant.
IInv == CredInv /\ LoginInv
-----------------------------------------------------------------------------
(* How far a process is from its end *)

\* The way of a request, and what is left of it from a point.
Way(point) ==
  CASE point = "connect"       -> 45
    [] point = "connected"     -> 42
    [] point = "ask"           -> 39
    [] point = "browser"       -> 36
    [] point = "reconnect"     -> 33
    [] point = "reconnected"   -> 30
    [] point = "check"         -> 27
    [] point = "wait"          -> 24
    [] point = "claim"         -> 21
    [] point = "userinfo"      -> 18
    [] point = "landed"        -> 15
    [] point = "store"         -> 12
    [] point = "api"           -> 9
    [] point = "listed"        -> 6
    [] OTHER                   -> 3

Left(p) == CASE pc[p] = "save"  -> Way(after[p]) + 2
             [] pc[p] = "write" -> Way(after[p]) + 1
             [] OTHER           -> Way(pc[p])

\* A login before its sync, the times the request may be sent, the workspaces to add.
Logins(p) == IF kind[p] = "login" THEN 1 ELSE 0
Sends(p) == IF pc[p] = "send" THEN 2 ELSE 2 - tries[p]
ToAdd(p) == Cardinality(left[p])

Distance(p) ==
  IF pc[p] = "off" THEN <<0, 0, 0, 0, 0>>
  ELSE <<Logins(p), MaxRetries - attempt[p], Sends(p), ToAdd(p), Left(p)>>

\* The lexicographic order of distances.
Nearer(m, n) == \E i \in 1 .. 5 : m[i] < n[i] /\ \A j \in 1 .. i - 1 : m[j] = n[j]

Proceeds(p) == Step(p) \/ Callback(p) \/ Declined(p) \/ Crash(p)

\* A callback that breaks sends the process back to wait for another one.
BackToWait(p) == pc[p] \in {"claim", "userinfo"} /\ pc'[p] = "wait"

(* A process comes nearer its end with every step it takes, refused tokens,    *)
(* lost answers and attempts that are made again included, unless it waits for *)
(* its user once more or has another request; nobody else's step takes it back. *)
ProcessesDescend ==
  /\ [](\A p \in Proc : \A i \in 1 .. 5 : Distance(p)[i] \in Nat)
  /\ [][\A p \in Proc :
          /\ Proceeds(p) => BackToWait(p) \/ Nearer(Distance(p)', Distance(p))
          /\ pc[p] # "off" /\ ~(Proceeds(p) \/ Again(p)) => Distance(p)' = Distance(p)]_vars
=============================================================================
