---------------------------- MODULE Auth_proofs ----------------------------
(***************************************************************************)
(* Proofs about Auth for any number of processes, workspaces, tokens and   *)
(* retries, and any commands.                                              *)
(***************************************************************************)
EXTENDS AuthInv, FiniteSetTheorems, TLAPS

\* What belongs to one process.
Local(p) == <<pc[p], kind[p], keyed[p], mem[p], profile[p], header[p], tries[p], refused[p],
              applied[p], grant[p], after[p]>>

\* A step takes no token back, revives none that is dead, and leaves the config
\* file without one that was not issued.
GlobalsKept ==
  /\ issued <= issued'
  /\ \A t \in 1 .. issued : Dead(t) => Dead(t)'
  /\ KnownCred(file.profile)'

-----------------------------------------------------------------------------
(* Facts from the types                                                        *)

(* What the types say of the tokens and of one process.                        *)
LEMMA Types ==
  ASSUME TypeOK, NEW p \in Proc
  PROVE  /\ issued \in Nat /\ MaxToken \in Nat /\ issued <= MaxToken
         /\ None \notin Token /\ Key \notin Token /\ Key # None
         /\ mem[p].profile \in Cred \cup {None} /\ mem[p].deployment \in BOOLEAN
         /\ mem[p] \in Config
         /\ profile[p] \in Cred \cup {None}
         /\ grant[p] \in Cred \cup {None}
         /\ header[p] \in Token \cup {Key, None}
         /\ refused[p] \in Token \cup {Key, None}
         /\ file \in Config /\ file.profile \in Cred \cup {None}
<1>1. issued \in Nat /\ MaxToken \in Nat /\ issued <= MaxToken
  BY BoundAssumption DEF TypeOK
<1>2. None \notin Token /\ Key \notin Token /\ Key # None
  BY BoundAssumption, SentinelAssumption DEF Token
<1>3. mem[p] \in Config /\ file \in Config
  BY DEF TypeOK
<1>4. /\ mem[p].profile \in Cred \cup {None} /\ mem[p].deployment \in BOOLEAN
      /\ file.profile \in Cred \cup {None}
  BY <1>3 DEF Config
<1>5. /\ profile[p] \in Cred \cup {None} /\ grant[p] \in Cred \cup {None}
      /\ header[p] \in Token \cup {Key, None} /\ refused[p] \in Token \cup {Key, None}
  BY DEF TypeOK
<1> QED BY <1>1, <1>2, <1>3, <1>4, <1>5

(* A process that does not move keeps what it knows while the tokens move on.  *)
LEMMA Frame ==
  ASSUME TypeOK, GlobalsKept, issued' \in Nat, NEW p \in Proc, ProcOK(p), Local(p)' = Local(p)
  PROVE  ProcOK(p)'
<1>1. /\ pc'[p] = pc[p] /\ kind'[p] = kind[p] /\ keyed'[p] = keyed[p] /\ mem'[p] = mem[p]
      /\ profile'[p] = profile[p] /\ header'[p] = header[p] /\ tries'[p] = tries[p]
      /\ refused'[p] = refused[p] /\ applied'[p] = applied[p] /\ grant'[p] = grant[p]
      /\ after'[p] = after[p]
  BY DEF Local
<1>2. SavesReturn(p)' /\ HeaderOK(p)' /\ ProfileOK(p)' /\ GrantOK(p)' /\ OnceOK(p)'
  BY <1>1 DEF ProcOK, SavesReturn, HeaderOK, ProfileOK, GrantOK, OnceOK, At
<1>3. \A t \in Token : t <= issued => t <= issued'
  BY Types DEF GlobalsKept, Token
<1>4. KnownOK(p)'
  BY <1>1, <1>3 DEF ProcOK, KnownOK, KnownCred, Known
<1>5. RetryOK(p)'
  <2>1. refused[p] \in Token => refused[p] \in 1 .. issued
    BY Types DEF ProcOK, KnownOK, Known, Token
  <2>2. \A t \in 1 .. issued : state[t] \in {"expired", "revoked"} =>
                                state'[t] \in {"expired", "revoked"}
    BY DEF GlobalsKept, Dead
  <2>3. tries[p] = 2 /\ refused[p] \in Token => state'[refused[p]] \in {"expired", "revoked"}
    BY <2>1, <2>2 DEF Dead, ProcOK, RetryOK
  <2> QED BY <1>1, <2>3 DEF ProcOK, RetryOK, At, Dead
<1> QED BY <1>2, <1>4, <1>5 DEF ProcOK

(* A step of process p keeps the invariant if it keeps the types and what p    *)
(* knows, and leaves the other processes and the dead tokens alone.            *)
LEMMA OneProc ==
  ASSUME CredInv, NEW p \in Proc, TypeOK', ProcOK(p)', GlobalsKept,
         \A q \in Proc : q # p => Local(q)' = Local(q)
  PROVE  CredInv'
<1>1. issued' \in Nat
  BY BoundAssumption DEF TypeOK
<1>2. \A q \in Proc : ProcOK(q)'
  BY <1>1, Frame DEF CredInv
<1> QED BY <1>2 DEF CredInv, GlobalsKept

(* Tokens and a file that stay as they are are kept.                           *)
LEMMA SameGlobals ==
  ASSUME CredInv, UNCHANGED <<service, file>>
  PROVE  GlobalsKept
<1>1. issued' = issued /\ state' = state /\ file' = file
  BY DEF service
<1>2. issued <= issued'
  BY <1>1, BoundAssumption DEF CredInv, TypeOK
<1> QED BY <1>1, <1>2 DEF GlobalsKept, CredInv, Dead, KnownCred, Known

(* Moving to a point keeps the types of the program counters.                  *)
LEMMA GotoFacts ==
  ASSUME TypeOK, NEW p \in Proc, NEW point \in Points, Goto(p, point)
  PROVE  /\ pc' \in [Proc -> Points] /\ pc'[p] = point
         /\ \A q \in Proc : q # p => pc'[q] = pc[q]
BY DEF TypeOK, Goto

(* Starting to save does so too, and sets the config and the way back.         *)
LEMMA SaveFacts ==
  ASSUME TypeOK, NEW p \in Proc, NEW config \in Config, NEW point \in Points,
         Save(p, config, point)
  PROVE  /\ pc' \in [Proc -> Points] /\ pc'[p] = "save"
         /\ mem' \in [Proc -> Config] /\ mem'[p] = config
         /\ after' \in [Proc -> Points] /\ after'[p] = point
         /\ \A q \in Proc : q # p => pc'[q] = pc[q] /\ mem'[q] = mem[q] /\ after'[q] = after[q]
BY DEF TypeOK, Save, Goto, Points

(* What a process that moves and changes nothing has to show.                  *)
LEMMA Moves ==
  ASSUME CredInv, NEW p \in Proc, NEW point \in Points, Goto(p, point),
         UNCHANGED <<service, file, local, stored, disturbed>>, ProcOK(p)'
  PROVE  CredInv'
<1>1. TypeOK /\ pc' \in [Proc -> Points] /\ \A q \in Proc : q # p => pc'[q] = pc[q]
  BY GotoFacts DEF CredInv
<1>2. TypeOK'
  BY <1>1 DEF TypeOK, service, local, call, task, oauth
<1>3. GlobalsKept
  BY SameGlobals
<1>4. \A q \in Proc : q # p => Local(q)' = Local(q)
  BY <1>1 DEF Local, local, call, oauth
<1> QED BY <1>2, <1>3, <1>4, OneProc

-----------------------------------------------------------------------------
(* Steps that only move a process                                              *)

(* The session gives up on the refresh.                                        *)
LEMMA RefreshFailsStep == ASSUME CredInv, NEW p \in Proc, RefreshFails(p) PROVE CredInv'
<1>1. TypeOK /\ ProcOK(p) /\ "browser" \in Points
  BY DEF CredInv, Points
<1>2. pc[p] = "ask" /\ Goto(p, "browser") /\ UNCHANGED <<service, file, local, stored, disturbed>>
  BY DEF RefreshFails
<1>3. pc'[p] = "browser"
  BY <1>1, <1>2, GotoFacts
<1>4. ProcOK(p)'
  BY <1>1, <1>2, <1>3 DEF ProcOK, SavesReturn, HeaderOK, ProfileOK, GrantOK, OnceOK, KnownOK,
     RetryOK, At, Known, KnownCred, Dead, service, local, call, oauth
<1> QED BY <1>1, <1>2, <1>4, Moves

(* Nobody logs in with an API key, or without a terminal.                      *)
LEMMA BrowserStep == ASSUME CredInv, NEW p \in Proc, Browser(p) PROVE CredInv'
<1>1. TypeOK /\ ProcOK(p)
  BY DEF CredInv
<1>2. PICK point \in {"raise", "reconnect"} : Goto(p, point) /\ (keyed[p] => point = "raise")
  BY DEF Browser
<1>3. pc[p] = "browser" /\ UNCHANGED <<service, file, local, stored, disturbed>>
  BY DEF Browser
<1>4. point \in Points /\ pc'[p] = point
  BY <1>1, <1>2, GotoFacts DEF Points
<1>5. ProcOK(p)'
  BY <1>1, <1>2, <1>3, <1>4 DEF ProcOK, SavesReturn, HeaderOK, ProfileOK, GrantOK, OnceOK, KnownOK,
     RetryOK, At, Known, KnownCred, Dead, service, local, call, oauth
<1> QED BY <1>2, <1>3, <1>4, <1>5, Moves

(* A stored token that works is not the one that was refused.                  *)
LEMMA CheckStep == ASSUME CredInv, NEW p \in Proc, Check(p) PROVE CredInv'
<1>1. TypeOK /\ ProcOK(p)
  BY DEF CredInv
<1>2. PICK point \in {"landed", "wait", "raise"} :
        /\ Goto(p, point)
        /\ point = "landed" => Existing(p) # None /\ Takes(Existing(p))
  BY DEF Check
<1>3. pc[p] = "check" /\ UNCHANGED <<service, file, local, stored, disturbed>>
  BY DEF Check
<1>4. point \in Points /\ pc'[p] = point
  BY <1>1, <1>2, GotoFacts DEF Points
<1>5. point = "landed" /\ ~keyed[p] => mem[p].profile # None
  BY <1>2 DEF Existing
<1>6. point = "landed" /\ tries[p] = 2 => mem[p].profile.access # refused[p]
  <2>1. SUFFICES ASSUME point = "landed", tries[p] = 2, mem[p].profile.access = refused[p]
                 PROVE  FALSE
    OBVIOUS
  <2>2. ~keyed[p]
    BY <1>1, <1>3, <2>1 DEF ProcOK, RetryOK
  <2>3. Takes(mem[p].profile.access)
    BY <1>2, <2>1, <2>2 DEF Existing
  <2>4. mem[p].profile.access \in Token
    BY <1>1, <1>5, <2>1, <2>2, Types DEF Cred
  <2>5. state[refused[p]] \in {"expired", "revoked"}
    BY <1>1, <2>1, <2>4 DEF ProcOK, RetryOK, Dead
  <2> QED BY <2>1, <2>3, <2>4, <2>5 DEF Takes
<1>7. SavesReturn(p)' /\ HeaderOK(p)' /\ ProfileOK(p)' /\ GrantOK(p)' /\ OnceOK(p)'
  BY <1>1, <1>3, <1>4, <1>5 DEF ProcOK, SavesReturn, HeaderOK, ProfileOK, GrantOK, OnceOK, At,
     local, call, oauth
<1>8. KnownOK(p)' /\ RetryOK(p)'
  BY <1>1, <1>3, <1>4, <1>6 DEF ProcOK, SavesReturn, KnownOK, RetryOK, At, Known, KnownCred, Dead,
     service, local, call, oauth
<1> QED BY <1>2, <1>3, <1>4, <1>7, <1>8, Moves DEF ProcOK

(* The user comes back from the browser.                                       *)
LEMMA CallbackStep == ASSUME CredInv, NEW p \in Proc, Callback(p) PROVE CredInv'
<1>1. TypeOK /\ ProcOK(p) /\ "claim" \in Points
  BY DEF CredInv, Points
<1>2. pc[p] = "wait" /\ Goto(p, "claim") /\ UNCHANGED <<service, file, local, stored, disturbed>>
  BY DEF Callback
<1>3. pc'[p] = "claim"
  BY <1>1, <1>2, GotoFacts
<1>4. ProcOK(p)'
  BY <1>1, <1>2, <1>3 DEF ProcOK, SavesReturn, HeaderOK, ProfileOK, GrantOK, OnceOK, KnownOK,
     RetryOK, At, Known, KnownCred, Dead, service, local, call, oauth
<1> QED BY <1>1, <1>2, <1>4, Moves

-----------------------------------------------------------------------------
(* Starting, connecting and sending                                            *)

(* A process starts with the config it reads, or the API key.                  *)
LEMMA StartStep == ASSUME CredInv, NEW p \in Proc, Start(p) PROVE CredInv'
<1>1. TypeOK /\ ProcOK(p) /\ KnownCred(file.profile)
  BY DEF CredInv
<1>2. PICK k \in Runs[p], key \in {FALSE, (p \in WithKey)} :
        /\ kind' = [kind EXCEPT ![p] = k]
        /\ keyed' = [keyed EXCEPT ![p] = key]
        /\ mem' = [mem EXCEPT ![p] = file]
        /\ profile' = [profile EXCEPT ![p] = IF key THEN None ELSE file.profile]
        /\ header' = [header EXCEPT ![p] = IF key THEN Key
                                           ELSE IF file.profile = None THEN None
                                           ELSE file.profile.access]
        /\ Goto(p, IF k = "login" THEN "reconnect" ELSE "send")
  BY DEF Start
<1>3. /\ attempt' = [attempt EXCEPT ![p] = 0] /\ left' = [left EXCEPT ![p] = Workspaces]
      /\ tries' = [tries EXCEPT ![p] = 1]
      /\ listener' = [listener EXCEPT ![p] = "idle"] /\ applied' = [applied EXCEPT ![p] = 0]
      /\ disturbed' \in BOOLEAN
      /\ UNCHANGED <<service, file, grant, after, refused, stored>>
  BY DEF Start
<1>4. k \in Commands /\ key \in BOOLEAN
  <2>1. Runs[p] \subseteq Commands
    BY ProcAssumption
  <2>2. (p \in WithKey) \in BOOLEAN
    OBVIOUS
  <2> QED BY <1>2, <2>1, <2>2
<1>5. /\ pc' \in [Proc -> Points] /\ pc'[p] \in {"reconnect", "send"}
      /\ \A q \in Proc : q # p => pc'[q] = pc[q]
  BY <1>1, <1>2, GotoFacts DEF Points
<1>6. /\ file \in Config /\ file.profile \in Cred \cup {None}
      /\ (IF key THEN Key ELSE IF file.profile = None THEN None ELSE file.profile.access)
           \in Token \cup {Key, None}
  BY <1>1, Types DEF Cred
<1>7. TypeOK'
  <2>1. kind' \in [Proc -> Commands] /\ keyed' \in [Proc -> BOOLEAN] /\ mem' \in [Proc -> Config]
    BY <1>1, <1>2, <1>4, <1>6 DEF TypeOK
  <2>2. profile' \in [Proc -> Cred \cup {None}] /\ header' \in [Proc -> Token \cup {Key, None}]
    BY <1>1, <1>2, <1>6 DEF TypeOK
  <2>3. /\ tries' \in [Proc -> 1 .. 2] /\ applied' \in [Proc -> Nat]
        /\ attempt' \in [Proc -> 0 .. MaxRetries] /\ left' \in [Proc -> SUBSET Workspaces]
    BY <1>1, <1>3, BoundAssumption DEF TypeOK
  <2>4. listener' \in [Proc -> {"idle", "handled"}]
    BY <1>1, <1>3 DEF TypeOK
  <2> QED BY <1>1, <1>3, <1>5, <2>1, <2>2, <2>3, <2>4 DEF TypeOK, service
<1>8. /\ mem'[p] = file /\ keyed'[p] = key /\ tries'[p] = 1 /\ applied'[p] = 0
      /\ profile'[p] = IF key THEN None ELSE file.profile
      /\ header'[p] = IF key THEN Key ELSE IF file.profile = None THEN None ELSE file.profile.access
  BY <1>1, <1>2, <1>3 DEF TypeOK
<1>9. ProcOK(p)'
  <2>1. SavesReturn(p)' /\ HeaderOK(p)' /\ ProfileOK(p)' /\ GrantOK(p)'
    BY <1>5, <1>8 DEF SavesReturn, HeaderOK, ProfileOK, GrantOK, At
  <2>2. OnceOK(p)' /\ RetryOK(p)'
    BY <1>5, <1>8 DEF OnceOK, RetryOK
  <2>3. KnownOK(p)'
    BY <1>1, <1>3, <1>8, Types DEF ProcOK, KnownOK, Known, KnownCred, service
  <2> QED BY <2>1, <2>2, <2>3 DEF ProcOK
<1>10. GlobalsKept
  BY <1>3, SameGlobals
<1>11. \A q \in Proc : q # p => Local(q)' = Local(q)
  BY <1>1, <1>2, <1>3, <1>5 DEF Local, TypeOK
<1> QED BY <1>7, <1>9, <1>10, <1>11, OneProc

(* Discovery changes the deployment of the config and no token.                *)
LEMMA ConnectStep ==
  ASSUME CredInv, NEW p \in Proc, NEW from, NEW between, NEW to,
         <<from, between, to>> \in {<<"connect", "connected", "ask">>,
                                   <<"reconnect", "reconnected", "check">>},
         Connect(p, from, between, to)
  PROVE  CredInv'
<1>1. /\ TypeOK /\ ProcOK(p) /\ "raise" \in Points
      /\ to \in Points /\ to \in {"ask", "check"}
      /\ between \in Points /\ between \in {"connected", "reconnected"}
  BY DEF CredInv, Points
<1>2. /\ pc[p] = from
      /\ UNCHANGED <<service, file, kind, keyed, profile, header, call, task, oauth, stored,
                     disturbed>>
  BY DEF Connect
<1>3. from = "connect" => ~keyed[p] /\ profile[p] # None
  BY <1>1, <1>2 DEF ProcOK, GrantOK
<1> DEFINE config == [mem[p] EXCEPT !.deployment = TRUE]
<1>4. config \in Config /\ config.profile = mem[p].profile
  BY <1>1, Types DEF Config
<1> HIDE DEF config
<1>5. \/ Goto(p, to) /\ UNCHANGED <<mem, after>>
      \/ Goto(p, "raise") /\ UNCHANGED <<mem, after>>
      \/ Save(p, config, between)
  BY DEF Connect, config
<1>6. /\ pc' \in [Proc -> Points] /\ mem' \in [Proc -> Config] /\ after' \in [Proc -> Points]
      /\ \/ pc'[p] \in {to, "raise"}
         \/ pc'[p] = "save" /\ after'[p] = between
      /\ mem'[p].profile = mem[p].profile
      /\ \A q \in Proc : q # p => pc'[q] = pc[q] /\ mem'[q] = mem[q] /\ after'[q] = after[q]
  <2>1. CASE Goto(p, to) /\ UNCHANGED <<mem, after>>
    BY <1>1, <2>1, GotoFacts DEF TypeOK
  <2>2. CASE Goto(p, "raise") /\ UNCHANGED <<mem, after>>
    BY <1>1, <2>2, GotoFacts DEF TypeOK
  <2>3. CASE Save(p, config, between)
    BY <1>1, <1>4, <2>3, SaveFacts
  <2> QED BY <1>5, <2>1, <2>2, <2>3
<1>7. TypeOK'
  BY <1>1, <1>2, <1>6 DEF TypeOK, service, call, task, oauth
<1>8. SavesReturn(p)' /\ HeaderOK(p)' /\ ProfileOK(p)' /\ OnceOK(p)'
  BY <1>1, <1>2, <1>6 DEF ProcOK, SavesReturn, HeaderOK, ProfileOK, OnceOK, At, call
<1>9. GrantOK(p)'
  BY <1>1, <1>2, <1>3, <1>6 DEF GrantOK, At
<1>10. KnownOK(p)'
  BY <1>1, <1>2, <1>6 DEF ProcOK, KnownOK, Known, KnownCred, service, call, oauth
<1>11. RetryOK(p)'
  BY <1>1, <1>2, <1>3, <1>6 DEF ProcOK, RetryOK, At, Dead, service, call
<1>12. GlobalsKept
  BY <1>2, SameGlobals
<1>13. \A q \in Proc : q # p => Local(q)' = Local(q)
  BY <1>2, <1>6 DEF Local, call, oauth
<1> QED BY <1>7, <1>8, <1>9, <1>10, <1>11, <1>12, <1>13, OneProc DEF ProcOK

(* A process that saves its config as it is keeps its tokens.                  *)
LEMMA SavesSame ==
  ASSUME CredInv, NEW p \in Proc, NEW to \in {"ask", "check", "answered"}, Save(p, mem[p], to),
         <<pc[p], to>> \in {<<"connected", "ask">>, <<"reconnected", "check">>,
                            <<"listed", "answered">>},
         UNCHANGED <<service, file, kind, keyed, profile, header, call, task, oauth, stored,
                     disturbed>>
  PROVE  CredInv'
<1>1. TypeOK /\ ProcOK(p) /\ to \in Points /\ mem[p] \in Config
  BY Types DEF CredInv, Points
<1>2. /\ pc' \in [Proc -> Points] /\ pc'[p] = "save"
      /\ mem' \in [Proc -> Config] /\ mem'[p] = mem[p]
      /\ after' \in [Proc -> Points] /\ after'[p] = to
      /\ \A q \in Proc : q # p => pc'[q] = pc[q] /\ mem'[q] = mem[q] /\ after'[q] = after[q]
  BY <1>1, SaveFacts
<1>3. TypeOK'
  BY <1>1, <1>2 DEF TypeOK, service, call, task, oauth
<1>4. SavesReturn(p)' /\ HeaderOK(p)' /\ ProfileOK(p)' /\ GrantOK(p)' /\ OnceOK(p)'
  BY <1>1, <1>2 DEF ProcOK, SavesReturn, HeaderOK, ProfileOK, GrantOK, OnceOK, At, call
<1>5. KnownOK(p)' /\ RetryOK(p)'
  BY <1>1, <1>2 DEF ProcOK, KnownOK, RetryOK, At, Known, KnownCred, Dead, service, call, oauth
<1>6. GlobalsKept
  BY SameGlobals
<1>7. \A q \in Proc : q # p => Local(q)' = Local(q)
  BY <1>2 DEF Local, call, oauth
<1> QED BY <1>3, <1>4, <1>5, <1>6, <1>7, OneProc DEF ProcOK

(* Where a renewal leads: only a profile has a refresh token.                  *)
LEMMA RenewFacts ==
  ASSUME TypeOK, NEW p \in Proc, Renew(p)
  PROVE  /\ pc' \in [Proc -> Points]
         /\ pc'[p] = IF keyed[p] \/ profile[p] = None THEN "browser" ELSE "connect"
         /\ \A q \in Proc : q # p => pc'[q] = pc[q]
BY GotoFacts DEF Renew, Points

(* A request starts over with nothing refused.                                 *)
LEMMA SendStep == ASSUME CredInv, NEW p \in Proc, Send(p) PROVE CredInv'
<1>1. TypeOK /\ ProcOK(p) /\ "api" \in Points
  BY DEF CredInv, Points
<1>2. /\ pc[p] = "send" /\ (Renew(p) \/ Goto(p, "api"))
      /\ tries' = [tries EXCEPT ![p] = 1] /\ refused' = [refused EXCEPT ![p] = None]
      /\ UNCHANGED <<service, file, kind, keyed, mem, profile, header, applied, task, oauth, after,
                     stored, disturbed>>
  BY DEF Send
<1>3. /\ pc' \in [Proc -> Points]
      /\ pc'[p] \in {"browser", "api", "connect"}
      /\ pc'[p] = "connect" => ~keyed[p] /\ profile[p] # None
      /\ \A q \in Proc : q # p => pc'[q] = pc[q]
  BY <1>1, <1>2, RenewFacts, GotoFacts
<1>4. TypeOK'
  <2>1. tries' \in [Proc -> 1 .. 2]
    BY <1>1, <1>2 DEF TypeOK
  <2>2. refused' \in [Proc -> Token \cup {Key, None}]
    BY <1>1, <1>2 DEF TypeOK
  <2> QED BY <1>1, <1>2, <1>3, <2>1, <2>2 DEF TypeOK, service, task, oauth
<1>5. tries'[p] = 1 /\ refused'[p] = None
  BY <1>1, <1>2 DEF TypeOK
<1>6. SavesReturn(p)' /\ HeaderOK(p)' /\ ProfileOK(p)' /\ GrantOK(p)' /\ OnceOK(p)'
  BY <1>1, <1>2, <1>3 DEF ProcOK, SavesReturn, HeaderOK, ProfileOK, GrantOK, OnceOK, At, oauth
<1>7. KnownOK(p)' /\ RetryOK(p)'
  BY <1>1, <1>2, <1>5, Types DEF ProcOK, KnownOK, RetryOK, Known, KnownCred, service, oauth
<1>8. GlobalsKept
  BY <1>2, SameGlobals
<1>9. \A q \in Proc : q # p => Local(q)' = Local(q)
  BY <1>1, <1>2, <1>3 DEF Local, TypeOK, task, oauth
<1> QED BY <1>4, <1>6, <1>7, <1>8, <1>9, OneProc DEF ProcOK

-----------------------------------------------------------------------------
(* New tokens                                                                  *)

(* What the token service may hand out.                                        *)
LEMMA GrantsFacts ==
  ASSUME TypeOK, NEW r \in 1 .. (issued + 1), NEW c \in Grants(r)
  PROVE  /\ issued + 1 \in Token /\ c \in Cred /\ c # None
         /\ c.access = issued + 1 /\ c.refresh \in {r, issued + 1}
<1>1. issued \in 0 .. MaxToken /\ MaxToken \in Nat /\ issued # MaxToken
  BY BoundAssumption DEF TypeOK, Grants
<1>2. issued + 1 \in Token /\ r \in Token
  BY <1>1 DEF Token
<1>3. PICK x \in {r, issued + 1} : c = [access |-> issued + 1, refresh |-> x, dated |-> TRUE]
  BY <1>1 DEF Grants
<1>4. c \in Cred /\ c.access = issued + 1 /\ c.refresh \in {r, issued + 1}
  BY <1>2, <1>3 DEF Cred
<1>5. c # None
  BY <1>4, SentinelAssumption
<1> QED BY <1>2, <1>4, <1>5

(* A new token leaves the dead ones dead.                                      *)
LEMMA IssueFacts ==
  ASSUME CredInv, NEW r \in 1 .. (issued + 1), NEW c \in Grants(r), NEW old, Issue(c, old),
         UNCHANGED file
  PROVE  /\ issued' = issued + 1 /\ issued' \in 0 .. MaxToken
         /\ refreshable' \subseteq 1 .. issued'
         /\ state' \in [Token -> TokenState]
         /\ \A t \in Token : t <= issued => state'[t] = state[t]
         /\ GlobalsKept
<1>1. TypeOK /\ KnownCred(file.profile)
  BY DEF CredInv
<1>2. issued + 1 \in Token /\ c.access = issued + 1 /\ c.refresh \in {r, issued + 1}
  BY <1>1, GrantsFacts
<1>3. issued \in 0 .. MaxToken /\ MaxToken \in Nat
  BY <1>1, BoundAssumption DEF TypeOK
<1>4. issued' = issued + 1 /\ issued' \in 0 .. MaxToken
  BY <1>2, <1>3 DEF Issue, Token
<1>5. refreshable' \subseteq 1 .. issued'
  <2>1. refreshable \subseteq 1 .. (issued + 1) /\ c.refresh \in 1 .. (issued + 1)
    BY <1>1, <1>2, <1>3 DEF TypeOK
  <2> QED BY <1>4, <2>1 DEF Issue
<1>6. state' \in [Token -> TokenState]
  BY <1>1 DEF Issue, TypeOK, TokenState
<1>7. \A t \in Token : t <= issued => state'[t] = state[t]
  BY <1>1, <1>2, <1>3 DEF Issue, TypeOK, Token
<1>8. \A t \in 1 .. issued : Dead(t) => Dead(t)'
  BY <1>3, <1>7 DEF Dead, Token
<1>9. KnownCred(file.profile)'
  BY <1>1, <1>3, <1>4 DEF KnownCred, Known, Token
<1> QED BY <1>3, <1>4, <1>5, <1>6, <1>7, <1>8, <1>9 DEF GlobalsKept

(* The service answers a refresh; the answer arrives or is lost.               *)
LEMMA RefreshStep == ASSUME CredInv, NEW p \in Proc, Refresh(p) PROVE CredInv'
<1>1. TypeOK /\ ProcOK(p)
  BY DEF CredInv
<1>2. PICK c \in Grants(profile[p].refresh) :
        /\ Issue(c, profile[p].refresh)
        /\ \/ Save(p, [mem[p] EXCEPT !.profile = c], "store")
           \/ Goto(p, "browser") /\ UNCHANGED <<mem, after>>
  BY DEF Refresh
<1>3. /\ pc[p] = "ask" /\ profile[p].refresh \in refreshable
      /\ UNCHANGED <<file, kind, keyed, profile, header, call, task, oauth, stored>>
  BY DEF Refresh
<1>4. disturbed' \in BOOLEAN
  BY DEF Refresh
<1>5. profile[p].refresh \in 1 .. (issued + 1)
  <2>1. profile[p].refresh \in 1 .. issued
    BY <1>1, <1>3 DEF TypeOK
  <2> QED BY <1>1, <2>1, Types
<1>6. c \in Cred /\ c # None /\ c.access = issued + 1 /\ issued + 1 \in Token
  BY <1>1, <1>5, GrantsFacts
<1>7. /\ issued' = issued + 1 /\ issued' \in 0 .. MaxToken /\ refreshable' \subseteq 1 .. issued'
      /\ state' \in [Token -> TokenState]
      /\ \A t \in Token : t <= issued => state'[t] = state[t]
      /\ GlobalsKept
  BY <1>2, <1>3, <1>5, IssueFacts
<1>8. issued \in Nat /\ ~keyed[p] /\ profile[p] # None
  BY <1>1, <1>3, Types DEF ProcOK, GrantOK, At
<1> DEFINE config == [mem[p] EXCEPT !.profile = c]
<1>9. config \in Config /\ config.profile = c
  BY <1>1, <1>6, Types DEF Config
<1> HIDE DEF config
<1>10. \/ Save(p, config, "store")
       \/ Goto(p, "browser") /\ UNCHANGED <<mem, after>>
  BY <1>2 DEF config
<1>11. /\ pc' \in [Proc -> Points] /\ mem' \in [Proc -> Config] /\ after' \in [Proc -> Points]
       /\ \/ pc'[p] = "save" /\ after'[p] = "store" /\ mem'[p] = config
          \/ pc'[p] = "browser" /\ mem'[p] = mem[p]
       /\ \A q \in Proc : q # p => pc'[q] = pc[q] /\ mem'[q] = mem[q] /\ after'[q] = after[q]
  <2>1. CASE Goto(p, "browser") /\ UNCHANGED <<mem, after>>
    <3>1. "browser" \in Points
      BY DEF Points
    <3> QED BY <1>1, <2>1, <3>1, GotoFacts DEF TypeOK
  <2>2. CASE Save(p, config, "store")
    <3>1. "store" \in Points
      BY DEF Points
    <3> QED BY <1>1, <1>9, <2>2, <3>1, SaveFacts
  <2> QED BY <1>10, <2>1, <2>2
<1>12. TypeOK'
  BY <1>1, <1>3, <1>4, <1>7, <1>11 DEF TypeOK, call, task, oauth
<1>13. SavesReturn(p)' /\ HeaderOK(p)' /\ OnceOK(p)'
  BY <1>1, <1>3, <1>11 DEF ProcOK, SavesReturn, HeaderOK, OnceOK, At, call
<1>14. ProfileOK(p)'
  BY <1>1, <1>3, <1>11 DEF ProcOK, ProfileOK, At
<1>15. GrantOK(p)'
  BY <1>1, <1>3, <1>6, <1>8, <1>9, <1>11 DEF GrantOK, At
<1>16. KnownOK(p)'
  <2>1. \A t \in Token : t <= issued => t <= issued'
    BY <1>7, <1>8 DEF Token
  <2>2. KnownCred(c)'
    BY <1>6, <1>7, <1>8 DEF KnownCred, Known
  <2> QED BY <1>1, <1>3, <1>9, <1>11, <2>1, <2>2 DEF ProcOK, KnownOK, Known, KnownCred, call, oauth
<1>17. RetryOK(p)'
  <2>1. refused[p] \in Token => refused[p] <= issued
    BY <1>1 DEF ProcOK, KnownOK, Known
  <2>2. tries[p] = 2 /\ refused[p] \in Token => state'[refused[p]] \in {"expired", "revoked"}
    BY <1>1, <1>7, <2>1 DEF ProcOK, RetryOK, Dead
  <2>3. c.access # refused[p]
    BY <1>6, <1>8, <2>1
  <2> QED BY <1>3, <1>8, <1>9, <1>11, <2>2, <2>3 DEF RetryOK, At, Dead, call
<1>18. \A q \in Proc : q # p => Local(q)' = Local(q)
  BY <1>3, <1>11 DEF Local, call, oauth
<1> QED BY <1>7, <1>12, <1>13, <1>14, <1>15, <1>16, <1>17, <1>18, OneProc DEF ProcOK

(* The session takes the tokens that were saved.                               *)
LEMMA StoreRefreshedStep == ASSUME CredInv, NEW p \in Proc, StoreRefreshed(p) PROVE CredInv'
<1>1. TypeOK /\ ProcOK(p) /\ "api" \in Points
  BY DEF CredInv, Points
<1>2. /\ pc[p] = "store" /\ Goto(p, "api")
      /\ profile' = [profile EXCEPT ![p] = mem[p].profile]
      /\ header' = [header EXCEPT ![p] = mem[p].profile.access]
      /\ UNCHANGED <<service, file, kind, keyed, mem, call, task, oauth, after, stored, disturbed>>
  BY DEF StoreRefreshed
<1>3. /\ pc' \in [Proc -> Points] /\ pc'[p] = "api"
      /\ \A q \in Proc : q # p => pc'[q] = pc[q]
  BY <1>1, <1>2, GotoFacts
<1>4. ~keyed[p] /\ mem[p].profile # None /\ mem[p].profile \in Cred
  BY <1>1, <1>2, Types DEF ProcOK, GrantOK, At
<1>5. mem[p].profile.access \in Token
  BY <1>4 DEF Cred
<1>6. TypeOK'
  BY <1>1, <1>2, <1>3, <1>4, <1>5 DEF TypeOK, service, call, task, oauth
<1>7. profile'[p] = mem[p].profile /\ header'[p] = mem[p].profile.access
  BY <1>1, <1>2 DEF TypeOK
<1>8. SavesReturn(p)' /\ HeaderOK(p)' /\ ProfileOK(p)' /\ GrantOK(p)' /\ OnceOK(p)'
  BY <1>1, <1>2, <1>3, <1>4, <1>7
     DEF ProcOK, SavesReturn, HeaderOK, ProfileOK, GrantOK, OnceOK, At, call
<1>9. KnownOK(p)'
  BY <1>1, <1>2, <1>4, <1>7 DEF ProcOK, KnownOK, Known, KnownCred, service, call, oauth
<1>10. RetryOK(p)'
  BY <1>1, <1>2, <1>3, <1>4, <1>7 DEF ProcOK, RetryOK, At, Dead, service, call
<1>11. GlobalsKept
  BY <1>2, SameGlobals
<1>12. \A q \in Proc : q # p => Local(q)' = Local(q)
  BY <1>1, <1>2, <1>3 DEF Local, TypeOK, call, task, oauth
<1> QED BY <1>6, <1>8, <1>9, <1>10, <1>11, <1>12, OneProc DEF ProcOK

-----------------------------------------------------------------------------
(* The login in the browser                                                    *)

(* The callback is no good.                                                    *)
LEMMA DeclinedStep == ASSUME CredInv, NEW p \in Proc, Declined(p) PROVE CredInv'
<1>1. TypeOK /\ ProcOK(p) /\ "raise" \in Points
  BY DEF CredInv, Points
<1>2. /\ pc[p] = "wait" /\ Goto(p, "raise") /\ listener' = [listener EXCEPT ![p] = "idle"]
      /\ UNCHANGED <<service, file, kind, keyed, mem, profile, header, call, task, grant, after,
                     stored, disturbed>>
  BY DEF Declined
<1>3. /\ pc' \in [Proc -> Points] /\ pc'[p] = "raise"
      /\ \A q \in Proc : q # p => pc'[q] = pc[q]
  BY <1>1, <1>2, GotoFacts
<1>4. TypeOK'
  BY <1>1, <1>2, <1>3 DEF TypeOK, service, call, task
<1>5. ProcOK(p)'
  BY <1>1, <1>2, <1>3 DEF ProcOK, SavesReturn, HeaderOK, ProfileOK, GrantOK, OnceOK, KnownOK,
     RetryOK, At, Known, KnownCred, Dead, service, call
<1>6. GlobalsKept
  BY <1>2, SameGlobals
<1>7. \A q \in Proc : q # p => Local(q)' = Local(q)
  BY <1>2, <1>3 DEF Local, call
<1> QED BY <1>4, <1>5, <1>6, <1>7, OneProc

(* The code is exchanged for tokens nobody had before.                         *)
LEMMA ClaimStep == ASSUME CredInv, NEW p \in Proc, Claim(p) PROVE CredInv'
<1>1. TypeOK /\ ProcOK(p)
  BY DEF CredInv
<1>2. /\ pc[p] = "claim"
      /\ UNCHANGED <<file, kind, keyed, mem, profile, header, call, task, after, stored,
                     disturbed>>
  BY DEF Claim
<1>3. ASSUME NEW c \in Grants(issued + 1), Issue(c, None), grant' = [grant EXCEPT ![p] = c],
             Goto(p, "userinfo"), UNCHANGED listener
      PROVE  CredInv'
  <2>1. issued + 1 \in 1 .. (issued + 1)
    BY <1>1, Types
  <2>2. c \in Cred /\ c # None /\ c.access = issued + 1 /\ issued + 1 \in Token
    BY <1>1, <1>3, <2>1, GrantsFacts
  <2>3. /\ issued' = issued + 1 /\ issued' \in 0 .. MaxToken /\ refreshable' \subseteq 1 .. issued'
        /\ state' \in [Token -> TokenState]
        /\ \A t \in Token : t <= issued => state'[t] = state[t]
        /\ GlobalsKept
    BY <1>2, <1>3, <2>1, IssueFacts
  <2>4. /\ pc' \in [Proc -> Points] /\ pc'[p] = "userinfo"
        /\ \A q \in Proc : q # p => pc'[q] = pc[q]
    <3>1. "userinfo" \in Points
      BY DEF Points
    <3> QED BY <1>1, <1>3, <3>1, GotoFacts
  <2>5. /\ grant' \in [Proc -> Cred \cup {None}] /\ grant'[p] = c
        /\ \A q \in Proc : q # p => grant'[q] = grant[q]
    BY <1>1, <1>3, <2>2 DEF TypeOK
  <2>6. TypeOK'
    BY <1>1, <1>2, <1>3, <2>3, <2>4, <2>5 DEF TypeOK, call, task
  <2>7. SavesReturn(p)' /\ HeaderOK(p)' /\ ProfileOK(p)' /\ GrantOK(p)' /\ OnceOK(p)'
    BY <1>1, <1>2, <2>2, <2>4, <2>5
       DEF ProcOK, SavesReturn, HeaderOK, ProfileOK, GrantOK, OnceOK, At, call
  <2>8. issued \in Nat
    BY <1>1, Types
  <2>9. KnownOK(p)'
    <3>1. \A t \in Token : t <= issued => t <= issued'
      BY <2>3, <2>8 DEF Token
    <3>2. KnownCred(c)'
      BY <2>2, <2>3, <2>8 DEF KnownCred, Known
    <3> QED BY <1>1, <1>2, <2>5, <3>1, <3>2 DEF ProcOK, KnownOK, Known, KnownCred, call
  <2>10. RetryOK(p)'
    <3>1. refused[p] \in Token => refused[p] <= issued
      BY <1>1 DEF ProcOK, KnownOK, Known
    <3>2. tries[p] = 2 /\ refused[p] \in Token => state'[refused[p]] \in {"expired", "revoked"}
      BY <1>1, <2>3, <3>1 DEF ProcOK, RetryOK, Dead
    <3>3. c.access # refused[p]
      BY <2>2, <2>8, <3>1
    <3>4. ~(tries[p] = 2 /\ keyed[p])
      BY <1>1, <1>2 DEF ProcOK, RetryOK
    <3> QED BY <1>2, <2>4, <2>5, <3>2, <3>3, <3>4 DEF RetryOK, At, Dead, call
  <2>11. \A q \in Proc : q # p => Local(q)' = Local(q)
    BY <1>2, <2>4, <2>5 DEF Local, call
  <2> QED BY <2>3, <2>6, <2>7, <2>9, <2>10, <2>11, OneProc DEF ProcOK
<1>4. ASSUME NEW point \in {"raise", "wait"}, NEW l \in {"idle", "handled"}, Goto(p, point),
             listener' = [listener EXCEPT ![p] = l], UNCHANGED <<service, grant>>
      PROVE  CredInv'
  <2>1. /\ pc' \in [Proc -> Points] /\ pc'[p] = point
        /\ \A q \in Proc : q # p => pc'[q] = pc[q]
    <3>1. point \in Points
      BY DEF Points
    <3> QED BY <1>1, <1>4, <3>1, GotoFacts
  <2>2. TypeOK'
    BY <1>1, <1>2, <1>4, <2>1 DEF TypeOK, service, call, task
  <2>3. ~(tries[p] = 2 /\ keyed[p])
    BY <1>1, <1>2 DEF ProcOK, RetryOK
  <2>4. ProcOK(p)'
    BY <1>1, <1>2, <1>4, <2>1, <2>3 DEF ProcOK, SavesReturn, HeaderOK, ProfileOK, GrantOK, OnceOK,
       KnownOK, RetryOK, At, Known, KnownCred, Dead, service, call
  <2>5. GlobalsKept
    BY <1>2, <1>4, SameGlobals
  <2>6. \A q \in Proc : q # p => Local(q)' = Local(q)
    BY <1>2, <1>4, <2>1 DEF Local, call
  <2> QED BY <2>2, <2>4, <2>5, <2>6, OneProc
<1> QED BY <1>3, <1>4 DEF Claim, Escapes

(* The claimed tokens go to the config.                                        *)
LEMMA UserInfoStep == ASSUME CredInv, NEW p \in Proc, UserInfo(p) PROVE CredInv'
<1>1. TypeOK /\ ProcOK(p)
  BY DEF CredInv
<1>2. /\ pc[p] = "userinfo" /\ grant' = [grant EXCEPT ![p] = None]
      /\ UNCHANGED <<service, file, kind, keyed, profile, header, call, task, stored>>
      /\ disturbed' \in BOOLEAN
  <2>1. disturbed' \in BOOLEAN
    BY <1>1 DEF UserInfo, TypeOK
  <2> QED BY <2>1 DEF UserInfo
<1>3. grant[p] \in Cred /\ grant[p] # None
  BY <1>1, <1>2, Types DEF ProcOK, GrantOK
<1> DEFINE config == [mem[p] EXCEPT !.profile = grant[p]]
<1>4. config \in Config /\ config.profile = grant[p]
  BY <1>1, <1>3, Types DEF Config
<1> HIDE DEF config
<1>5. PICK l \in {"idle", "handled"} :
        /\ listener' = [listener EXCEPT ![p] = l]
        /\ \/ Save(p, config, "landed")
           \/ Goto(p, "wait") /\ UNCHANGED <<mem, after>>
  BY DEF UserInfo, Escapes, config
<1>6. /\ pc' \in [Proc -> Points] /\ mem' \in [Proc -> Config] /\ after' \in [Proc -> Points]
      /\ \/ pc'[p] = "save" /\ after'[p] = "landed" /\ mem'[p] = config
         \/ pc'[p] = "wait" /\ mem'[p] = mem[p]
      /\ \A q \in Proc : q # p => pc'[q] = pc[q] /\ mem'[q] = mem[q] /\ after'[q] = after[q]
  <2>1. CASE Goto(p, "wait") /\ UNCHANGED <<mem, after>>
    <3>1. "wait" \in Points
      BY DEF Points
    <3> QED BY <1>1, <2>1, <3>1, GotoFacts DEF TypeOK
  <2>2. CASE Save(p, config, "landed")
    <3>1. "landed" \in Points
      BY DEF Points
    <3> QED BY <1>1, <1>4, <2>2, <3>1, SaveFacts
  <2> QED BY <1>5, <2>1, <2>2
<1>7. /\ grant' \in [Proc -> Cred \cup {None}] /\ grant'[p] = None
      /\ \A q \in Proc : q # p => grant'[q] = grant[q]
  BY <1>1, <1>2 DEF TypeOK
<1>8. TypeOK'
  BY <1>1, <1>2, <1>5, <1>6, <1>7 DEF TypeOK, service, call, task
<1>9. SavesReturn(p)' /\ HeaderOK(p)' /\ OnceOK(p)'
  BY <1>1, <1>2, <1>6 DEF ProcOK, SavesReturn, HeaderOK, OnceOK, At, call
<1>10. ProfileOK(p)' /\ GrantOK(p)'
  BY <1>1, <1>2, <1>3, <1>4, <1>6 DEF ProcOK, ProfileOK, GrantOK, At
<1>11. KnownOK(p)'
  BY <1>1, <1>2, <1>4, <1>6, <1>7 DEF ProcOK, KnownOK, Known, KnownCred, service, call
<1>12. RetryOK(p)'
  BY <1>1, <1>2, <1>4, <1>6 DEF ProcOK, RetryOK, At, Dead, service, call
<1>13. GlobalsKept
  BY <1>2, SameGlobals
<1>14. \A q \in Proc : q # p => Local(q)' = Local(q)
  BY <1>2, <1>6, <1>7 DEF Local, call
<1> QED BY <1>8, <1>9, <1>10, <1>11, <1>12, <1>13, <1>14, OneProc DEF ProcOK

(* The session is loaded from the config in memory.                            *)
LEMMA LandedStep == ASSUME CredInv, NEW p \in Proc, Landed(p) PROVE CredInv'
<1>1. TypeOK /\ ProcOK(p)
  BY DEF CredInv
<1>2. /\ pc[p] = "landed"
      /\ kind' = [kind EXCEPT ![p] = IF @ = "login" THEN "sync" ELSE @]
      /\ UNCHANGED <<service, file, keyed, mem, call, task, oauth, after, stored, disturbed>>
  BY DEF Landed
<1>3. PICK point \in {"send", "api"} : Goto(p, point)
  BY DEF Landed
<1>4. /\ pc' \in [Proc -> Points] /\ pc'[p] = point
      /\ \A q \in Proc : q # p => pc'[q] = pc[q]
  <2>1. point \in Points
    BY DEF Points
  <2> QED BY <1>1, <1>3, <2>1, GotoFacts
<1>5. /\ kind' \in [Proc -> Commands] /\ (kind'[p] = "api" => kind[p] = "api")
      /\ \A q \in Proc : q # p => kind'[q] = kind[q]
  BY <1>1, <1>2 DEF TypeOK, Commands
<1>6. ~keyed[p] => mem[p].profile \in Cred /\ mem[p].profile # None
  BY <1>1, <1>2, Types DEF ProcOK, GrantOK, At
<1>7. /\ profile' \in [Proc -> Cred \cup {None}] /\ header' \in [Proc -> Token \cup {Key, None}]
      /\ profile'[p] = IF keyed[p] THEN profile[p] ELSE mem[p].profile
      /\ header'[p] = IF keyed[p] THEN header[p] ELSE mem[p].profile.access
      /\ \A q \in Proc : q # p => profile'[q] = profile[q] /\ header'[q] = header[q]
  <2>1. CASE keyed[p]
    BY <1>1, <2>1 DEF Landed, TypeOK
  <2>2. CASE ~keyed[p]
    <3>1. mem[p].profile.access \in Token
      BY <1>6, <2>2 DEF Cred
    <3> QED BY <1>1, <1>6, <2>2, <3>1 DEF Landed, TypeOK
  <2> QED BY <2>1, <2>2
<1>8. TypeOK'
  BY <1>1, <1>2, <1>4, <1>5, <1>7 DEF TypeOK, service, call, task, oauth
<1>9. SavesReturn(p)' /\ HeaderOK(p)' /\ ProfileOK(p)' /\ GrantOK(p)' /\ OnceOK(p)'
  BY <1>1, <1>2, <1>4, <1>5, <1>6, <1>7
     DEF ProcOK, SavesReturn, HeaderOK, ProfileOK, GrantOK, OnceOK, At, call
<1>10. KnownOK(p)'
  BY <1>1, <1>2, <1>6, <1>7 DEF ProcOK, KnownOK, Known, KnownCred, service, call, oauth
<1>11. RetryOK(p)'
  BY <1>1, <1>2, <1>4, <1>7 DEF ProcOK, RetryOK, At, Dead, service, call
<1>12. GlobalsKept
  BY <1>2, SameGlobals
<1>13. \A q \in Proc : q # p => Local(q)' = Local(q)
  BY <1>2, <1>4, <1>5, <1>7 DEF Local, call, oauth
<1> QED BY <1>8, <1>9, <1>10, <1>11, <1>12, <1>13, OneProc DEF ProcOK

-----------------------------------------------------------------------------
(* The request and its command                                                 *)

(* The platform takes the token: what it applies it applies once.              *)
LEMMA AnswerStep == ASSUME CredInv, NEW p \in Proc, Answer(p) PROVE CredInv'
<1>1. TypeOK /\ ProcOK(p)
  BY DEF CredInv
<1>2. /\ pc[p] = "api"
      /\ UNCHANGED <<service, file, kind, keyed, mem, profile, header, tries, refused, task, oauth,
                     after, stored, disturbed>>
  BY DEF Answer
<1>3. PICK point \in {"raise", "answered", "listed"} :
        /\ Goto(p, point)
        /\ Apply(p) \/ UNCHANGED applied
        /\ point = "listed" => kind[p] # "api"
  BY DEF Answer
<1>4. /\ pc' \in [Proc -> Points] /\ pc'[p] = point
      /\ \A q \in Proc : q # p => pc'[q] = pc[q]
  <2>1. point \in Points
    BY DEF Points
  <2> QED BY <1>1, <1>3, <2>1, GotoFacts
<1>5. /\ applied' \in [Proc -> Nat] /\ applied'[p] \in {applied[p], applied[p] + 1}
      /\ \A q \in Proc : q # p => applied'[q] = applied[q]
  BY <1>1, <1>3 DEF Apply, TypeOK
<1>6. TypeOK'
  BY <1>1, <1>2, <1>4, <1>5 DEF TypeOK, service, task, oauth
<1>7. SavesReturn(p)' /\ HeaderOK(p)' /\ ProfileOK(p)' /\ GrantOK(p)'
  BY <1>1, <1>2, <1>4 DEF ProcOK, SavesReturn, HeaderOK, ProfileOK, GrantOK, At, oauth
<1>8. OnceOK(p)'
  BY <1>1, <1>2, <1>3, <1>4, <1>5 DEF ProcOK, OnceOK
<1>9. KnownOK(p)' /\ RetryOK(p)'
  BY <1>1, <1>2, <1>4 DEF ProcOK, KnownOK, RetryOK, At, Known, KnownCred, Dead, service, oauth
<1>10. GlobalsKept
  BY <1>2, SameGlobals
<1>11. \A q \in Proc : q # p => Local(q)' = Local(q)
  BY <1>2, <1>4, <1>5 DEF Local, oauth
<1> QED BY <1>6, <1>7, <1>8, <1>9, <1>10, <1>11, OneProc DEF ProcOK

(* The platform refuses the token, which then is dead.                         *)
LEMMA UnauthorizedStep == ASSUME CredInv, NEW p \in Proc, Unauthorized(p) PROVE CredInv'
<1>1. TypeOK /\ ProcOK(p)
  BY DEF CredInv
<1>2. /\ pc[p] = "api" /\ Refuses(header[p])
      /\ tries' = [tries EXCEPT ![p] = 2] /\ refused' = [refused EXCEPT ![p] = header[p]]
      /\ UNCHANGED <<service, file, kind, keyed, mem, profile, header, applied, task, oauth, after,
                     stored, disturbed>>
  BY DEF Unauthorized
<1>3. /\ pc' \in [Proc -> Points] /\ pc'[p] \in {"browser", "connect", "raise"}
      /\ pc'[p] = "connect" => ~keyed[p] /\ profile[p] # None
      /\ \A q \in Proc : q # p => pc'[q] = pc[q]
  <2>1. CASE Renew(p)
    BY <1>1, <2>1, RenewFacts
  <2>2. CASE Goto(p, "raise")
    <3>1. "raise" \in Points
      BY DEF Points
    <3> QED BY <1>1, <2>2, <3>1, GotoFacts
  <2> QED BY <2>1, <2>2 DEF Unauthorized
<1>4. /\ tries' \in [Proc -> 1 .. 2] /\ tries'[p] = 2
      /\ refused' \in [Proc -> Token \cup {Key, None}] /\ refused'[p] = header[p]
      /\ \A q \in Proc : q # p => tries'[q] = tries[q] /\ refused'[q] = refused[q]
  <2>1. header[p] \in Token \cup {Key, None}
    BY <1>1, Types
  <2> QED BY <1>1, <1>2, <2>1 DEF TypeOK
<1>5. TypeOK'
  BY <1>1, <1>2, <1>3, <1>4 DEF TypeOK, service, task, oauth
<1>6. SavesReturn(p)' /\ HeaderOK(p)' /\ ProfileOK(p)' /\ GrantOK(p)' /\ OnceOK(p)'
  BY <1>1, <1>2, <1>3 DEF ProcOK, SavesReturn, HeaderOK, ProfileOK, GrantOK, OnceOK, At, oauth
<1>7. KnownOK(p)'
  BY <1>1, <1>2, <1>4 DEF ProcOK, KnownOK, Known, KnownCred, service, oauth
<1>8. RetryOK(p)'
  <2>1. header[p] \in Token => state'[header[p]] \in {"expired", "revoked"}
    BY <1>2 DEF Refuses, service
  <2>2. keyed[p] => pc'[p] \in {"browser", "raise"}
    BY <1>3
  <2> QED BY <1>2, <1>3, <1>4, <2>1, <2>2 DEF RetryOK, At, Dead
<1>9. GlobalsKept
  BY <1>2, SameGlobals
<1>10. \A q \in Proc : q # p => Local(q)' = Local(q)
  BY <1>2, <1>3, <1>4 DEF Local, oauth
<1> QED BY <1>5, <1>6, <1>7, <1>8, <1>9, <1>10, OneProc DEF ProcOK

(* A workspace is added to the config; the tokens in it stay.                  *)
LEMMA AddWorkspaceStep == ASSUME CredInv, NEW p \in Proc, AddWorkspace(p) PROVE CredInv'
<1>1. TypeOK /\ ProcOK(p)
  BY DEF CredInv
<1>2. /\ pc[p] = "listed"
      /\ UNCHANGED <<service, file, kind, keyed, profile, header, call, attempt, oauth, stored,
                     disturbed>>
  BY DEF AddWorkspace
<1>3. ~(tries[p] = 2 /\ keyed[p]) /\ (kind[p] = "api" => applied[p] = 0)
  BY <1>1, <1>2 DEF ProcOK, RetryOK, OnceOK
<1>4. PICK w \in left[p] : /\ Save(p, [mem[p] EXCEPT !.ws = @ \cup {w}], "listed")
                           /\ left' = [left EXCEPT ![p] = @ \ {w}]
  BY DEF AddWorkspace
<1>5. w \in Workspaces /\ left' \in [Proc -> SUBSET Workspaces]
  BY <1>1, <1>4 DEF TypeOK
<1> DEFINE config == [mem[p] EXCEPT !.ws = @ \cup {w}]
<1>6. config \in Config /\ config.profile = mem[p].profile
  BY <1>1, <1>5, Types DEF Config
<1> HIDE DEF config
<1>7. Save(p, config, "listed") /\ "listed" \in Points
  BY <1>4 DEF config, Points
<1>8. /\ pc' \in [Proc -> Points] /\ pc'[p] = "save"
      /\ mem' \in [Proc -> Config] /\ mem'[p] = config
      /\ after' \in [Proc -> Points] /\ after'[p] = "listed"
      /\ \A q \in Proc : q # p => pc'[q] = pc[q] /\ mem'[q] = mem[q] /\ after'[q] = after[q]
  BY <1>1, <1>6, <1>7, SaveFacts
<1>9. TypeOK'
  BY <1>1, <1>2, <1>5, <1>8 DEF TypeOK, service, call, oauth
<1>10. SavesReturn(p)' /\ HeaderOK(p)' /\ ProfileOK(p)' /\ GrantOK(p)' /\ OnceOK(p)'
  BY <1>1, <1>2, <1>6, <1>8
     DEF ProcOK, SavesReturn, HeaderOK, ProfileOK, GrantOK, OnceOK, At, call
<1>11. KnownOK(p)' /\ RetryOK(p)'
  BY <1>1, <1>2, <1>3, <1>6, <1>8
     DEF ProcOK, KnownOK, RetryOK, At, Known, KnownCred, Dead, service, call, oauth
<1>12. GlobalsKept
  BY <1>2, SameGlobals
<1>13. \A q \in Proc : q # p => Local(q)' = Local(q)
  BY <1>2, <1>8 DEF Local, call, oauth
<1> QED BY <1>9, <1>10, <1>11, <1>12, <1>13, OneProc DEF ProcOK

(* A default workspace is set, and saved or there already.                     *)
LEMMA SetDefaultStep == ASSUME CredInv, NEW p \in Proc, SetDefault(p) PROVE CredInv'
<1>1. TypeOK /\ ProcOK(p)
  BY DEF CredInv
<1>2. /\ pc[p] = "listed"
      /\ UNCHANGED <<service, file, kind, keyed, profile, header, call, task, oauth, stored,
                     disturbed>>
  BY DEF SetDefault
<1>3. ~(tries[p] = 2 /\ keyed[p]) /\ (kind[p] = "api" => applied[p] = 0)
  BY <1>1, <1>2 DEF ProcOK, RetryOK, OnceOK
<1>4. CASE Save(p, mem[p], "answered")
  BY <1>2, <1>4, SavesSame
<1>5. CASE Goto(p, "answered") /\ UNCHANGED <<mem, after>>
  <2>1. "answered" \in Points /\ UNCHANGED <<service, file, local, stored, disturbed>>
    BY <1>2, <1>5 DEF Points, local
  <2>2. pc'[p] = "answered"
    BY <1>1, <1>5, <2>1, GotoFacts
  <2>3. ProcOK(p)'
    BY <1>1, <1>2, <1>3, <1>5, <2>2 DEF ProcOK, SavesReturn, HeaderOK, ProfileOK, GrantOK, OnceOK,
       KnownOK, RetryOK, At, Known, KnownCred, Dead, service, call, oauth
  <2> QED BY <1>5, <2>1, <2>3, Moves
<1> QED BY <1>4, <1>5 DEF SetDefault

(* _sync is tried again.                                                       *)
LEMMA RetryTaskStep == ASSUME CredInv, NEW p \in Proc, RetryTask(p) PROVE CredInv'
<1>1. TypeOK /\ ProcOK(p) /\ "send" \in Points
  BY DEF CredInv, Points
<1>2. /\ pc[p] = "raise" /\ kind[p] = "sync" /\ attempt[p] < MaxRetries
      /\ attempt' = [attempt EXCEPT ![p] = @ + 1] /\ Goto(p, "send")
      /\ UNCHANGED <<service, file, kind, keyed, mem, profile, header, call, left, oauth, after, stored,
                     disturbed>>
  BY DEF RetryTask
<1>3. /\ pc' \in [Proc -> Points] /\ pc'[p] = "send"
      /\ \A q \in Proc : q # p => pc'[q] = pc[q]
  BY <1>1, <1>2, GotoFacts
<1>4. attempt' \in [Proc -> 0 .. MaxRetries]
  <2>1. attempt[p] + 1 \in 0 .. MaxRetries
    BY <1>1, <1>2, BoundAssumption DEF TypeOK
  <2> QED BY <1>1, <1>2, <2>1 DEF TypeOK
<1>5. TypeOK'
  BY <1>1, <1>2, <1>3, <1>4 DEF TypeOK, service, call, task, oauth
<1>6. ProcOK(p)'
  BY <1>1, <1>2, <1>3 DEF ProcOK, SavesReturn, HeaderOK, ProfileOK, GrantOK, OnceOK, KnownOK,
     RetryOK, At, Known, KnownCred, Dead, service, call, oauth
<1>7. GlobalsKept
  BY <1>2, SameGlobals
<1>8. \A q \in Proc : q # p => Local(q)' = Local(q)
  BY <1>2, <1>3 DEF Local, call, oauth
<1> QED BY <1>5, <1>6, <1>7, <1>8, OneProc

(* A process that ends, or dies, knows nothing any more.                       *)
LEMMA ExitStep ==
  ASSUME CredInv, NEW p \in Proc, Exit(p), UNCHANGED <<service, file, stored>>, disturbed' \in BOOLEAN
  PROVE  CredInv'
<1>1. TypeOK
  BY DEF CredInv
<1>2. /\ pc' \in [Proc -> Points] /\ pc'[p] = "off"
      /\ \A q \in Proc : q # p => pc'[q] = pc[q]
  BY <1>1, GotoFacts DEF Exit, Points
<1>3. Blank \in Config /\ Blank.profile = None
  BY DEF Blank, Config
<1>4. /\ kind' \in [Proc -> Commands] /\ keyed' \in [Proc -> BOOLEAN] /\ keyed'[p] = FALSE
      /\ \A q \in Proc : q # p => kind'[q] = kind[q] /\ keyed'[q] = keyed[q]
  BY <1>1 DEF Exit, TypeOK, Commands
<1>5. /\ mem' \in [Proc -> Config] /\ mem'[p] = Blank
      /\ profile' \in [Proc -> Cred \cup {None}] /\ profile'[p] = None
      /\ \A q \in Proc : q # p => mem'[q] = mem[q] /\ profile'[q] = profile[q]
  BY <1>1, <1>3 DEF Exit, TypeOK
<1>6. /\ header' \in [Proc -> Token \cup {Key, None}] /\ header'[p] = None
      /\ refused' \in [Proc -> Token \cup {Key, None}] /\ refused'[p] = None
      /\ \A q \in Proc : q # p => header'[q] = header[q] /\ refused'[q] = refused[q]
  BY <1>1 DEF Exit, TypeOK
<1>7. /\ tries' \in [Proc -> 1 .. 2] /\ tries'[p] = 1
      /\ applied' \in [Proc -> Nat] /\ applied'[p] = 0
      /\ \A q \in Proc : q # p => tries'[q] = tries[q] /\ applied'[q] = applied[q]
  BY <1>1 DEF Exit, TypeOK
<1>8. /\ attempt' \in [Proc -> 0 .. MaxRetries] /\ left' \in [Proc -> SUBSET Workspaces]
      /\ listener' \in [Proc -> {"idle", "handled"}]
  BY <1>1, BoundAssumption DEF Exit, TypeOK
<1>9. /\ grant' \in [Proc -> Cred \cup {None}] /\ grant'[p] = None
      /\ after' \in [Proc -> Points]
      /\ \A q \in Proc : q # p => grant'[q] = grant[q] /\ after'[q] = after[q]
  BY <1>1 DEF Exit, TypeOK, Points
<1>10. TypeOK'
  BY <1>1, <1>2, <1>4, <1>5, <1>6, <1>7, <1>8, <1>9 DEF TypeOK, service
<1>11. ProcOK(p)'
  <2>1. SavesReturn(p)' /\ HeaderOK(p)' /\ ProfileOK(p)' /\ GrantOK(p)'
    BY <1>2, <1>3, <1>4, <1>5, <1>6 DEF SavesReturn, HeaderOK, ProfileOK, GrantOK, At
  <2>2. OnceOK(p)' /\ RetryOK(p)'
    BY <1>7 DEF OnceOK, RetryOK
  <2>3. KnownOK(p)'
    BY <1>1, <1>3, <1>5, <1>6, <1>9, Types DEF KnownOK, Known, KnownCred
  <2> QED BY <2>1, <2>2, <2>3 DEF ProcOK
<1>12. GlobalsKept
  BY SameGlobals
<1>13. \A q \in Proc : q # p => Local(q)' = Local(q)
  BY <1>2, <1>4, <1>5, <1>6, <1>7, <1>9 DEF Local
<1> QED BY <1>10, <1>11, <1>12, <1>13, OneProc

(* A command goes on to its next request.                                      *)
LEMMA AgainStep == ASSUME CredInv, NEW p \in Proc, Again(p) PROVE CredInv'
<1>1. TypeOK /\ ProcOK(p) /\ "send" \in Points
  BY DEF CredInv, Points
<1>2. /\ pc[p] = "answered" /\ Goto(p, "send") /\ applied' = [applied EXCEPT ![p] = 0]
      /\ UNCHANGED <<service, file, kind, keyed, mem, profile, header, tries, refused, task, oauth,
                     after, stored, disturbed>>
  BY DEF Again
<1>3. /\ pc' \in [Proc -> Points] /\ pc'[p] = "send"
      /\ \A q \in Proc : q # p => pc'[q] = pc[q]
  BY <1>1, <1>2, GotoFacts
<1>4. /\ applied' \in [Proc -> Nat] /\ applied'[p] = 0
      /\ \A q \in Proc : q # p => applied'[q] = applied[q]
  BY <1>1, <1>2 DEF TypeOK
<1>5. TypeOK'
  BY <1>1, <1>2, <1>3, <1>4 DEF TypeOK, service, task, oauth
<1>6. ProcOK(p)'
  BY <1>1, <1>2, <1>3, <1>4 DEF ProcOK, SavesReturn, HeaderOK, ProfileOK, GrantOK, OnceOK, KnownOK,
     RetryOK, At, Known, KnownCred, Dead, service, oauth
<1>7. GlobalsKept
  BY <1>2, SameGlobals
<1>8. \A q \in Proc : q # p => Local(q)' = Local(q)
  BY <1>2, <1>3, <1>4 DEF Local, oauth
<1> QED BY <1>5, <1>6, <1>7, <1>8, OneProc

-----------------------------------------------------------------------------
(* Saving, and what the CLI does not decide                                    *)

(* The file is emptied.                                                        *)
LEMMA TruncateStep == ASSUME CredInv, NEW p \in Proc, Truncate(p) PROVE CredInv'
<1>1. TypeOK /\ ProcOK(p) /\ "write" \in Points
  BY DEF CredInv, Points
<1>2. /\ pc[p] = "save" /\ file' = Blank /\ Goto(p, "write")
      /\ UNCHANGED <<service, local, stored, disturbed>>
  BY DEF Truncate
<1>3. /\ pc' \in [Proc -> Points] /\ pc'[p] = "write"
      /\ \A q \in Proc : q # p => pc'[q] = pc[q]
  BY <1>1, <1>2, GotoFacts
<1>4. Blank \in Config /\ Blank.profile = None
  BY DEF Blank, Config
<1>5. TypeOK'
  BY <1>1, <1>2, <1>3, <1>4 DEF TypeOK, service, local, call, task, oauth
<1>6. ProcOK(p)'
  BY <1>1, <1>2, <1>3 DEF ProcOK, SavesReturn, HeaderOK, ProfileOK, GrantOK, OnceOK, KnownOK,
     RetryOK, At, Known, KnownCred, Dead, service, local, call, oauth
<1>7. GlobalsKept
  BY <1>1, <1>2, <1>4, Types DEF GlobalsKept, KnownCred, Dead, service
<1>8. \A q \in Proc : q # p => Local(q)' = Local(q)
  BY <1>2, <1>3 DEF Local, local, call, oauth
<1> QED BY <1>5, <1>6, <1>7, <1>8, OneProc

(* The file holds the process's config again.                                  *)
LEMMA WriteStep == ASSUME CredInv, NEW p \in Proc, Write(p) PROVE CredInv'
<1>1. TypeOK /\ ProcOK(p) /\ after[p] \in Points
  BY DEF CredInv, TypeOK
<1>2. /\ pc[p] = "write" /\ file' = mem[p] /\ Goto(p, after[p])
      /\ after' = [after EXCEPT ![p] = "off"]
      /\ UNCHANGED <<service, kind, keyed, mem, profile, header, call, task, oauth, disturbed>>
  BY DEF Write
<1>3. stored' \in BOOLEAN
  BY DEF Write
<1>4. /\ pc' \in [Proc -> Points] /\ pc'[p] = after[p]
      /\ \A q \in Proc : q # p => pc'[q] = pc[q]
  BY <1>1, <1>2, GotoFacts
<1>5. /\ after' \in [Proc -> Points] /\ \A q \in Proc : q # p => after'[q] = after[q]
  BY <1>1, <1>2 DEF TypeOK, Points
<1>6. TypeOK'
  BY <1>1, <1>2, <1>3, <1>4, <1>5 DEF TypeOK, service, call, task, oauth
<1>7. after[p] \in {"connected", "ask", "reconnected", "check", "store", "landed", "listed", "answered"}
  BY <1>1, <1>2 DEF ProcOK, SavesReturn
<1>8. SavesReturn(p)' /\ HeaderOK(p)' /\ ProfileOK(p)' /\ GrantOK(p)' /\ OnceOK(p)'
  BY <1>1, <1>2, <1>4, <1>7
     DEF ProcOK, SavesReturn, HeaderOK, ProfileOK, GrantOK, OnceOK, At, call
<1>9. KnownOK(p)' /\ RetryOK(p)'
  BY <1>1, <1>2, <1>4, <1>7
     DEF ProcOK, KnownOK, RetryOK, At, Known, KnownCred, Dead, service, call, oauth
<1>10. GlobalsKept
  BY <1>1, <1>2, Types DEF GlobalsKept, ProcOK, KnownOK, KnownCred, Known, Dead, service
<1>11. \A q \in Proc : q # p => Local(q)' = Local(q)
  BY <1>2, <1>4, <1>5 DEF Local, call, oauth
<1> QED BY <1>6, <1>8, <1>9, <1>10, <1>11, OneProc DEF ProcOK

(* Steps that are no process's leave what the processes know alone.            *)
LEMMA Outside ==
  ASSUME CredInv, TypeOK', UNCHANGED <<issued, file, pc, local>>,
         \A t \in Token : Dead(t) => state'[t] \in {"expired", "revoked"}
  PROVE  CredInv'
<1>1. TypeOK /\ issued' = issued /\ issued \in 0 .. MaxToken /\ MaxToken \in Nat
  BY BoundAssumption DEF CredInv, TypeOK
<1>2. KnownCred(file.profile)'
  BY DEF CredInv, KnownCred, Known
<1>3. \A t \in 1 .. issued : Dead(t) => Dead(t)'
  BY <1>1 DEF Dead, Token
<1>4. GlobalsKept
  BY <1>1, <1>2, <1>3 DEF GlobalsKept
<1>5. \A p \in Proc : ProcOK(p)'
  BY <1>1, <1>4, Frame DEF CredInv, Local, local, call, oauth
<1> QED BY <1>2, <1>5 DEF CredInv

(* Time passes.                                                                *)
LEMMA TickStep == CredInv /\ Tick => CredInv'
<1> SUFFICES ASSUME CredInv, Tick PROVE CredInv'
  OBVIOUS
<1>1. TypeOK /\ UNCHANGED <<issued, refreshable, file, pc, local, stored, disturbed>>
  BY DEF CredInv, Tick
<1>2. PICK t : state' = [state EXCEPT ![t] = IF @ = "fresh" THEN "due" ELSE "expired"]
  BY DEF Tick
<1>3. state' \in [Token -> TokenState]
  BY <1>1, <1>2 DEF TypeOK, TokenState
<1>4. TypeOK'
  BY <1>1, <1>3 DEF TypeOK, local, call, task, oauth
<1>5. \A u \in Token : Dead(u) => state'[u] \in {"expired", "revoked"}
  BY <1>1, <1>2 DEF TypeOK, Dead
<1> QED BY <1>1, <1>4, <1>5, Outside

(* The platform revokes a token.                                               *)
LEMMA RevokeStep == CredInv /\ Revoke => CredInv'
<1> SUFFICES ASSUME CredInv, Revoke PROVE CredInv'
  OBVIOUS
<1>1. TypeOK /\ UNCHANGED <<issued, file, pc, local, stored>>
  BY DEF CredInv, Revoke
<1>2. refreshable' \subseteq 1 .. issued /\ disturbed' \in BOOLEAN
  BY <1>1 DEF Revoke, TypeOK
<1>3. /\ state' \in [Token -> TokenState]
      /\ \A u \in Token : Dead(u) => state'[u] \in {"expired", "revoked"}
  <2>1. ASSUME NEW t, state[t] \in {"fresh", "due"},
               state' = [state EXCEPT ![t] = IF @ = "fresh" THEN "revoked" ELSE "expired"]
        PROVE  <1>3
    <3>1. state' \in [Token -> TokenState]
      BY <1>1, <2>1 DEF TypeOK, TokenState
    <3>2. \A u \in Token : Dead(u) => state'[u] \in {"expired", "revoked"}
      BY <1>1, <2>1 DEF TypeOK, Dead
    <3> QED BY <3>1, <3>2
  <2>2. CASE UNCHANGED state
    BY <1>1, <2>2 DEF TypeOK, Dead
  <2> QED BY <2>1, <2>2 DEF Revoke
<1>4. TypeOK'
  BY <1>1, <1>2, <1>3 DEF TypeOK, local, call, task, oauth
<1> QED BY <1>1, <1>3, <1>4, Outside

-----------------------------------------------------------------------------
(* The stored login                                                            *)

(* A process that goes on, or ends, without a new login leaves the stored one  *)
(* as it is known to those who run.                                            *)
LEMMA LoginMoves ==
  ASSUME TypeOK, LoginInv, NEW p \in Proc, NEW point \in Points,
         pc[p] \notin {"off", "save", "write"}, point \notin {"write", "userinfo"},
         Goto(p, point), point # "off" => mem'[p].profile = mem[p].profile,
         \A q \in Proc : q # p => mem'[q] = mem[q] /\ grant'[q] = grant[q],
         UNCHANGED <<refreshable, file, stored, disturbed>>
  PROVE  LoginInv'
<1> SUFFICES ASSUME ~disturbed
             PROVE  /\ file.profile # None => stored
                    /\ stored /\ (\A q \in Proc : ~Saving(q)') => Good(file.profile)
                    /\ \A q \in Proc : LoginOK(q)'
  BY DEF LoginInv, Good
<1>1. pc'[p] = point /\ \A q \in Proc : q # p => pc'[q] = pc[q]
  BY GotoFacts
<1>2. (\A q \in Proc : ~Saving(q)') => \A q \in Proc : ~Saving(q)
  BY <1>1 DEF Saving
<1>3. \A q \in Proc : LoginOK(q)
  BY DEF LoginInv
<1>4. \A q \in Proc : Others(q)' => Others(q)
  BY <1>1 DEF Others
<1>5. ASSUME NEW q \in Proc PROVE LoginOK(q)'
  <2>1. CASE q = p
    BY <1>1, <1>3, <2>1 DEF LoginOK, Saving, Good
  <2>2. CASE q # p
    BY <1>1, <1>3, <1>4, <2>2 DEF LoginOK, Saving, Good
  <2> QED BY <2>1, <2>2
<1> QED BY <1>2, <1>5 DEF LoginInv

(* A process starts with the stored login, if nobody is saving another.        *)
LEMMA LoginStart == ASSUME TypeOK, LoginInv, NEW p \in Proc, Start(p) PROVE LoginInv'
<1>1. PICK point \in {"reconnect", "send"} :
        /\ pc[p] = "off" /\ Goto(p, point) /\ mem' = [mem EXCEPT ![p] = file]
        /\ disturbed' = (disturbed \/ \E q \in Proc : pc[q] \in {"save", "write"})
        /\ UNCHANGED <<refreshable, file, grant, stored>>
  BY DEF Start, service
<1>2. pc'[p] = point /\ \A q \in Proc : q # p => pc'[q] = pc[q]
  BY <1>1, GotoFacts DEF Points
<1>3. mem'[p] = file /\ \A q \in Proc : q # p => mem'[q] = mem[q]
  BY <1>1 DEF TypeOK
<1> SUFFICES ASSUME ~disturbed'
             PROVE  /\ (file.profile # None => stored)'
                    /\ (stored /\ (\A q \in Proc : ~Saving(q)) => Good(file.profile))'
                    /\ \A q \in Proc : LoginOK(q)'
  BY DEF LoginInv
<1>4. ~disturbed /\ \A q \in Proc : ~Saving(q)
  BY <1>1 DEF Saving
<1>5. /\ file.profile # None => stored
      /\ stored => Good(file.profile)
      /\ \A q \in Proc : LoginOK(q)
  BY <1>4 DEF LoginInv
<1>6. ASSUME NEW q \in Proc PROVE LoginOK(q)'
  <2>1. CASE q = p
    BY <1>1, <1>2, <1>3, <1>5, <2>1 DEF LoginOK, Good
  <2>2. CASE q # p
    BY <1>1, <1>2, <1>3, <1>4, <1>5, <2>2 DEF LoginOK, Good, Saving
  <2> QED BY <2>1, <2>2
<1> QED BY <1>1, <1>5, <1>6 DEF Good

(* New credentials in the config of a process that runs alone, or whose refresh *)
(* token is honoured already, are good ones on their way to the disk.           *)
LEMMA LoginSaved ==
  ASSUME TypeOK, LoginInv, NEW p \in Proc, NEW config \in Config, NEW point \in Points,
         pc[p] \notin {"off", "save", "write"}, Save(p, config, point),
         config.profile # None, config.profile.refresh \in refreshable',
         refreshable \subseteq refreshable' \/ ~Others(p),
         ~Others(p) \/ mem[p].profile # None,
         \A q \in Proc : q # p => grant'[q] = grant[q],
         UNCHANGED <<file, stored>>, ~disturbed' => ~disturbed
  PROVE  LoginInv'
<1>1. /\ pc'[p] = "save" /\ mem'[p] = config
      /\ \A q \in Proc : q # p => pc'[q] = pc[q] /\ mem'[q] = mem[q]
  BY SaveFacts
<1> SUFFICES ASSUME ~disturbed'
             PROVE  /\ (file.profile # None => stored)'
                    /\ (stored /\ (\A q \in Proc : ~Saving(q)) => Good(file.profile))'
                    /\ \A q \in Proc : LoginOK(q)'
  BY DEF LoginInv
<1>2. ~disturbed /\ (file.profile # None => stored) /\ \A q \in Proc : LoginOK(q)
  BY DEF LoginInv
<1>3. ~Others(p) => \A q \in Proc : q # p => pc[q] = "off"
  BY DEF Others
<1>4. stored \/ ~Others(p)
  BY <1>2 DEF LoginOK, Saving
<1>5. Others(p)' => Others(p)
  BY <1>1 DEF Others
<1>6. ASSUME NEW q \in Proc PROVE LoginOK(q)'
  <2>1. CASE q = p
    BY <1>1, <1>4, <1>5, <2>1 DEF LoginOK, Good, Saving
  <2>2. CASE q # p /\ Others(p)
    BY <1>1, <1>2, <1>4, <2>2 DEF LoginOK, Good
  <2>3. CASE q # p /\ ~Others(p)
    BY <1>1, <1>3, <2>3 DEF LoginOK
  <2> QED BY <2>1, <2>2, <2>3
<1>7. Saving(p)'
  BY <1>1 DEF Saving
<1> QED BY <1>2, <1>6, <1>7

(* What a refresh brings replaces the stored login, or costs it.               *)
LEMMA LoginRefresh == ASSUME CredInv, LoginInv, NEW p \in Proc, Refresh(p) PROVE LoginInv'
<1>1. TypeOK /\ ProcOK(p)
  BY DEF CredInv
<1>2. PICK c \in Grants(profile[p].refresh) :
        /\ Issue(c, profile[p].refresh)
        /\ \/ /\ Save(p, [mem[p] EXCEPT !.profile = c], "store")
              /\ disturbed' = (disturbed \/ (c.refresh # profile[p].refresh /\ Others(p)))
           \/ /\ Goto(p, "browser")
              /\ disturbed' = (disturbed \/ c.refresh # profile[p].refresh)
              /\ UNCHANGED <<mem, after>>
  BY DEF Refresh
<1>3. /\ pc[p] = "ask" /\ profile[p].refresh \in refreshable
      /\ UNCHANGED <<file, grant, stored>>
  BY DEF Refresh, oauth
<1>4. profile[p].refresh \in 1 .. (issued + 1)
  <2>1. profile[p].refresh \in 1 .. issued
    BY <1>1, <1>3 DEF TypeOK
  <2> QED BY <1>1, <2>1, Types
<1>5. c \in Cred /\ c # None
  BY <1>1, <1>4, GrantsFacts
<1>6. c.refresh \in refreshable' /\ (c.refresh = profile[p].refresh => refreshable' = refreshable)
  BY <1>2, <1>3 DEF Issue
<1>7. mem[p].profile # None
  BY <1>1, <1>3 DEF ProcOK, GrantOK, ProfileOK, At
<1>8. CASE /\ Goto(p, "browser") /\ UNCHANGED mem
           /\ disturbed' = (disturbed \/ c.refresh # profile[p].refresh)
  <2>1. CASE c.refresh = profile[p].refresh
    <3>1. disturbed' = disturbed
      BY <1>1, <1>8, <2>1 DEF TypeOK
    <3> QED BY <1>1, <1>3, <1>6, <1>8, <2>1, <3>1, LoginMoves DEF Points
  <2>2. CASE c.refresh # profile[p].refresh
    BY <1>8, <2>2 DEF LoginInv
  <2> QED BY <2>1, <2>2
<1>9. CASE /\ Save(p, [mem[p] EXCEPT !.profile = c], "store")
           /\ disturbed' = (disturbed \/ (c.refresh # profile[p].refresh /\ Others(p)))
  <2> DEFINE config == [mem[p] EXCEPT !.profile = c]
  <2>1. config \in Config /\ config.profile = c
    BY <1>1, <1>5, Types DEF Config
  <2>2. config.profile # None /\ config.profile.refresh \in refreshable'
    BY <1>5, <1>6, <2>1
  <2>3. Save(p, config, "store")
    BY <1>9
  <2> HIDE DEF config
  <2>4. CASE c.refresh # profile[p].refresh /\ Others(p)
    BY <1>9, <2>4 DEF LoginInv
  <2>5. CASE c.refresh = profile[p].refresh \/ ~Others(p)
    <3>1. refreshable \subseteq refreshable' \/ ~Others(p)
      BY <1>6, <2>5
    <3>2. ~disturbed' => ~disturbed
      BY <1>9
    <3> QED BY <1>1, <1>3, <1>7, <2>1, <2>2, <2>3, <3>1, <3>2, LoginSaved DEF Points
  <2> QED BY <2>4, <2>5
<1> QED BY <1>2, <1>8, <1>9

(* A code is exchanged for tokens, which the platform honours.                 *)
LEMMA LoginClaim == ASSUME CredInv, LoginInv, NEW p \in Proc, Claim(p) PROVE LoginInv'
<1>1. TypeOK
  BY DEF CredInv
<1>2. pc[p] = "claim" /\ UNCHANGED <<file, mem, stored, disturbed>>
  BY DEF Claim
<1>3. CASE (Goto(p, "raise") \/ Goto(p, "wait")) /\ UNCHANGED <<refreshable, grant>>
  BY <1>1, <1>2, <1>3, LoginMoves DEF Points
<1>4. ASSUME NEW c \in Grants(issued + 1), Issue(c, None), grant' = [grant EXCEPT ![p] = c],
             Goto(p, "userinfo")
      PROVE  LoginInv'
  <2>1. pc'[p] = "userinfo" /\ \A q \in Proc : q # p => pc'[q] = pc[q]
    BY <1>1, <1>4, GotoFacts DEF Points
  <2>2. grant'[p] = c /\ \A q \in Proc : q # p => grant'[q] = grant[q]
    BY <1>1, <1>4 DEF TypeOK
  <2>3. issued + 1 \in 1 .. (issued + 1)
    BY <1>1, BoundAssumption DEF TypeOK
  <2>4. c.refresh # None
    BY <1>1, <1>4, <2>3, GrantsFacts, SentinelAssumption DEF Token
  <2>5. None \notin refreshable
    <3>1. refreshable \subseteq 1 .. issued /\ issued \in Nat
      BY <1>1, BoundAssumption DEF TypeOK
    <3>2. \A r \in 1 .. issued : r \in Nat
      BY <3>1
    <3> QED BY <3>1, <3>2, SentinelAssumption
  <2>6. refreshable' = refreshable \cup {c.refresh}
    BY <1>4, <2>4, <2>5 DEF Issue
  <2> SUFFICES ASSUME ~disturbed
               PROVE  /\ file.profile # None => stored
                      /\ (stored /\ (\A q \in Proc : ~Saving(q)) => Good(file.profile))'
                      /\ \A q \in Proc : LoginOK(q)'
    BY <1>2 DEF LoginInv
  <2>7. \A q \in Proc : LoginOK(q)
    BY DEF LoginInv
  <2>8. \A q \in Proc : (Saving(q)' <=> Saving(q)) /\ (Others(q)' <=> Others(q))
    BY <1>2, <2>1 DEF Saving, Others
  <2>9. ASSUME NEW q \in Proc PROVE LoginOK(q)'
    <3>1. CASE q = p
      BY <1>2, <2>1, <2>2, <2>6, <2>7, <2>8, <3>1 DEF LoginOK, Good
    <3>2. CASE q # p
      BY <1>2, <2>1, <2>2, <2>6, <2>7, <2>8, <3>2 DEF LoginOK, Good
    <3> QED BY <3>1, <3>2
  <2>10. (stored /\ (\A q \in Proc : ~Saving(q)) => Good(file.profile))'
    BY <1>2, <2>6, <2>8 DEF LoginInv, Good
  <2> QED BY <2>9, <2>10 DEF LoginInv
<1> QED BY <1>3, <1>4 DEF Claim, Escapes, service

(* A login is saved over the stored one, or costs it those who run on it.      *)
LEMMA LoginUserInfo == ASSUME CredInv, LoginInv, NEW p \in Proc, UserInfo(p) PROVE LoginInv'
<1>1. TypeOK /\ ProcOK(p)
  BY DEF CredInv
<1>2. pc[p] = "userinfo" /\ UNCHANGED <<refreshable, file, stored>>
  BY DEF UserInfo, service
<1>3. \A q \in Proc : q # p => grant'[q] = grant[q]
  BY <1>1 DEF UserInfo, TypeOK
<1>4. CASE Goto(p, "wait") /\ UNCHANGED <<mem, disturbed>>
  BY <1>1, <1>2, <1>3, <1>4, LoginMoves DEF Points
<1>5. CASE /\ Save(p, [mem[p] EXCEPT !.profile = grant[p]], "landed")
           /\ disturbed' = (disturbed \/ Others(p))
  <2> DEFINE config == [mem[p] EXCEPT !.profile = grant[p]]
  <2>1. config \in Config /\ config.profile = grant[p] /\ grant[p] # None
    BY <1>1, <1>2, Types DEF Config, ProcOK, GrantOK
  <2>2. Save(p, config, "landed")
    BY <1>5
  <2> HIDE DEF config
  <2> SUFFICES ASSUME ~disturbed' PROVE LoginInv'
    BY DEF LoginInv
  <2>3. ~disturbed /\ ~Others(p)
    BY <1>5
  <2>4. grant[p].refresh \in refreshable
    BY <1>2, <2>3 DEF LoginInv, LoginOK
  <2>5. config.profile # None /\ config.profile.refresh \in refreshable'
    BY <1>2, <2>1, <2>4
  <2> QED BY <1>1, <1>2, <1>3, <2>1, <2>2, <2>3, <2>5, LoginSaved DEF Points
<1> QED BY <1>4, <1>5 DEF UserInfo, Escapes

(* A save empties the file, which does not hold the login until it is written. *)
LEMMA LoginTruncate == ASSUME TypeOK, LoginInv, NEW p \in Proc, Truncate(p) PROVE LoginInv'
<1>1. /\ pc[p] = "save" /\ file' = Blank /\ Goto(p, "write")
      /\ UNCHANGED <<refreshable, mem, grant, stored, disturbed>>
  BY DEF Truncate, service, local, oauth
<1>2. pc'[p] = "write" /\ \A q \in Proc : q # p => pc'[q] = pc[q]
  BY <1>1, GotoFacts DEF Points
<1>3. \A q \in Proc : (Saving(q)' <=> Saving(q)) /\ (Others(q)' <=> Others(q))
  BY <1>1, <1>2 DEF Saving, Others
<1>4. Saving(p)' /\ Blank.profile = None
  BY <1>2 DEF Saving, Blank
<1> SUFFICES ASSUME ~disturbed PROVE \A q \in Proc : LoginOK(q)'
  BY <1>1, <1>4 DEF LoginInv
<1>5. \A q \in Proc : LoginOK(q)
  BY DEF LoginInv
<1> QED BY <1>1, <1>2, <1>3, <1>5 DEF LoginOK, Good

(* Then the file holds what its process has in memory.                         *)
LEMMA LoginWrite == ASSUME CredInv, LoginInv, NEW p \in Proc, Write(p) PROVE LoginInv'
<1>1. TypeOK /\ SavesReturn(p)
  BY DEF CredInv, ProcOK
<1>2. /\ pc[p] = "write" /\ file' = mem[p] /\ Goto(p, after[p])
      /\ stored' = (stored \/ mem[p].profile # None)
      /\ UNCHANGED <<refreshable, mem, grant, disturbed>>
  BY DEF Write, service, oauth
<1>3. after[p] \in {"connected", "ask", "reconnected", "check", "store", "landed", "listed", "answered"}
  BY <1>1, <1>2 DEF SavesReturn
<1>4. pc'[p] = after[p] /\ \A q \in Proc : q # p => pc'[q] = pc[q]
  BY <1>1, <1>2, <1>3, GotoFacts DEF TypeOK
<1> SUFFICES ASSUME ~disturbed
             PROVE  /\ (file.profile # None => stored)'
                    /\ (stored /\ (\A q \in Proc : ~Saving(q)) => Good(file.profile))'
                    /\ \A q \in Proc : LoginOK(q)'
  BY <1>2 DEF LoginInv
<1>5. \A q \in Proc : LoginOK(q)
  BY DEF LoginInv
<1>6. Good(file.profile)' \/ (~stored /\ mem[p].profile = None)
  BY <1>2, <1>5 DEF LoginOK, Good
<1>7. \A q \in Proc : (Others(q)' <=> Others(q)) /\ (q # p => (Saving(q)' <=> Saving(q)))
  BY <1>2, <1>3, <1>4 DEF Others, Saving
<1>8. ~stored /\ mem[p].profile # None => \A q \in Proc : q # p => pc[q] = "off"
  BY <1>2, <1>5 DEF LoginOK, Others
<1>9. ASSUME NEW q \in Proc PROVE LoginOK(q)'
  <2>1. CASE q = p
    BY <1>2, <1>3, <1>4, <1>6, <2>1 DEF LoginOK, Good
  <2>2. CASE q # p
    BY <1>2, <1>4, <1>5, <1>7, <1>8, <2>2 DEF LoginOK, Good
  <2> QED BY <2>1, <2>2
<1>10. stored' => Good(file.profile)' \/ ~stored'
  BY <1>2, <1>6
<1> QED BY <1>2, <1>9, <1>10

(* Who ends or dies takes nothing with him, unless he was saving.              *)
LEMMA LoginExit ==
  ASSUME TypeOK, LoginInv, NEW p \in Proc, pc[p] # "off", Exit(p),
         UNCHANGED <<refreshable, file, stored>>,
         disturbed' = (disturbed \/ pc[p] \in {"save", "write"})
  PROVE  LoginInv'
<1>1. Goto(p, "off") /\ \A q \in Proc : q # p => mem'[q] = mem[q] /\ grant'[q] = grant[q]
  BY DEF Exit, TypeOK
<1>2. CASE pc[p] \in {"save", "write"}
  BY <1>2 DEF LoginInv
<1>3. CASE pc[p] \notin {"save", "write"}
  <2>1. disturbed' = disturbed
    BY <1>3 DEF TypeOK
  <2> QED BY <1>1, <1>3, <2>1, LoginMoves DEF Points
<1> QED BY <1>2, <1>3

(* Every step keeps the login.                                                 *)
LEMMA LoginStep == CredInv /\ LoginInv /\ [Next]_vars => LoginInv'
<1> SUFFICES ASSUME CredInv, LoginInv, [Next]_vars PROVE LoginInv'
  OBVIOUS
<1>1. TypeOK
  BY DEF CredInv
<1>2. ASSUME NEW p \in Proc, NEW from \in {"connect", "reconnect"},
             NEW between \in {"connected", "reconnected"}, NEW to \in {"ask", "check"},
             Connect(p, from, between, to)
      PROVE  LoginInv'
  <2>1. pc[p] = from /\ UNCHANGED <<refreshable, file, grant, stored, disturbed>>
    BY <1>2 DEF Connect, service, oauth
  <2>2. CASE (Goto(p, to) \/ Goto(p, "raise")) /\ UNCHANGED mem
    BY <1>1, <1>2, <2>1, <2>2, LoginMoves DEF Points
  <2>3. CASE Save(p, [mem[p] EXCEPT !.deployment = TRUE], between)
    <3>1. /\ Goto(p, "save") /\ mem'[p].profile = mem[p].profile
          /\ \A q \in Proc : q # p => mem'[q] = mem[q]
      BY <1>1, <2>3, Types DEF Save, TypeOK, Config
    <3> QED BY <1>1, <1>2, <2>1, <3>1, LoginMoves DEF Points
  <2> QED BY <1>2, <2>2, <2>3 DEF Connect
<1>3. ASSUME NEW p \in Proc, Send(p) \/ RefreshFails(p) \/ StoreRefreshed(p) \/ Browser(p) \/ Check(p)
      PROVE  LoginInv'
  <2>1. /\ UNCHANGED <<refreshable, file, mem, grant, stored, disturbed>>
        /\ pc[p] \notin {"off", "save", "write"}
        /\ \E point \in {"browser", "connect", "api", "reconnect", "raise", "landed", "wait"} : Goto(p, point)
    BY <1>3 DEF Send, Renew, RefreshFails, StoreRefreshed, Browser, Check, service, local, oauth
  <2> QED BY <1>1, <2>1, LoginMoves DEF Points
<1>4. ASSUME NEW p \in Proc, Landed(p) \/ Answer(p) \/ Unauthorized(p) \/ RetryTask(p)
      PROVE  LoginInv'
  <2>1. /\ UNCHANGED <<refreshable, file, mem, grant, stored, disturbed>>
        /\ pc[p] \notin {"off", "save", "write"}
        /\ \E point \in {"send", "api", "answered", "listed", "raise", "browser", "connect"} : Goto(p, point)
    BY <1>4 DEF Landed, Answer, Unauthorized, Renew, RetryTask, service, local, oauth
  <2> QED BY <1>1, <2>1, LoginMoves DEF Points
<1>5. ASSUME NEW p \in Proc, AddWorkspace(p) PROVE LoginInv'
  <2>1. pc[p] = "listed" /\ UNCHANGED <<refreshable, file, grant, stored, disturbed>>
    BY <1>5 DEF AddWorkspace, service, oauth
  <2>2. PICK w : Save(p, [mem[p] EXCEPT !.ws = @ \cup {w}], "listed")
    BY <1>5 DEF AddWorkspace
  <2>3. /\ Goto(p, "save") /\ mem'[p].profile = mem[p].profile
        /\ \A q \in Proc : q # p => mem'[q] = mem[q]
    BY <1>1, <2>2, Types DEF Save, TypeOK, Config
  <2> QED BY <1>1, <2>1, <2>3, LoginMoves DEF Points
<1>6. ASSUME NEW p \in Proc, Raise(p) \/ Finish(p) PROVE LoginInv'
  <2>1. /\ Exit(p) /\ UNCHANGED <<refreshable, file, stored, disturbed>>
        /\ pc[p] \notin {"off", "save", "write"}
    BY <1>6 DEF Raise, Finish, service
  <2>2. disturbed' = (disturbed \/ pc[p] \in {"save", "write"})
    BY <1>1, <2>1 DEF TypeOK
  <2> QED BY <1>1, <2>1, <2>2, LoginExit
<1>7. ASSUME NEW p \in Proc, Callback(p) \/ Declined(p) \/ Again(p) PROVE LoginInv'
  <2>1. /\ UNCHANGED <<refreshable, file, mem, grant, stored, disturbed>>
        /\ pc[p] \notin {"off", "save", "write"}
        /\ \E point \in {"claim", "raise", "send"} : Goto(p, point)
    BY <1>7 DEF Callback, Declined, Again, service, local, oauth
  <2> QED BY <1>1, <2>1, LoginMoves DEF Points
<1>8. ASSUME NEW p \in Proc, Crash(p) PROVE LoginInv'
  <2>1. UNCHANGED <<refreshable, file, stored>>
    BY <1>8 DEF Crash, service
  <2> QED BY <1>1, <1>8, <2>1, LoginExit DEF Crash
<1>9. CASE Tick \/ UNCHANGED vars
  <2>1. UNCHANGED <<refreshable, file, pc, mem, grant, stored, disturbed>>
    BY <1>9 DEF Tick, vars, service, local, oauth
  <2> QED BY <2>1 DEF LoginInv, LoginOK, Good, Saving, Others
<1>10. CASE Revoke
  <2>1. \/ UNCHANGED <<refreshable, file, pc, mem, grant, stored, disturbed>>
        \/ disturbed'
    BY <1>10 DEF Revoke, service, local, oauth
  <2> QED BY <2>1 DEF LoginInv, LoginOK, Good, Saving, Others
<1>11. ASSUME NEW p \in Proc,
              SetDefault(p) \/ \E between \in {"connected", "reconnected"} : \E to : Connected(p, between, to)
      PROVE  LoginInv'
  <2>1. /\ pc[p] \in {"listed", "connected", "reconnected"}
        /\ UNCHANGED <<refreshable, file, grant, stored, disturbed>>
        /\ \/ Goto(p, "answered") /\ UNCHANGED mem
           \/ \E to : Save(p, mem[p], to)
    BY <1>11 DEF SetDefault, Connected, service, oauth
  <2>2. \E point \in {"answered", "save"} : Goto(p, point) /\ UNCHANGED mem
    BY <1>1, <2>1 DEF Save, TypeOK
  <2> QED BY <1>1, <2>1, <2>2, LoginMoves DEF Points
<1>12. ASSUME NEW p \in Proc, Step(p) PROVE LoginInv'
  BY <1>1, <1>2, <1>3, <1>4, <1>5, <1>6, <1>11, <1>12, LoginRefresh, LoginClaim, LoginUserInfo,
     LoginTruncate, LoginWrite DEF Step
<1> QED BY <1>1, <1>7, <1>8, <1>9, <1>10, <1>12, LoginStart DEF Next

-----------------------------------------------------------------------------
(* The theorems                                                                *)

(* The invariant holds at first.                                               *)
LEMMA InitCred == Init => CredInv
<1> SUFFICES ASSUME Init PROVE CredInv
  OBVIOUS
<1>1. issued = 1 /\ 1 \in 0 .. MaxToken /\ 1 \in Token
  BY BoundAssumption DEF Init, Token
<1>2. file \in Config /\ (file.profile # None => file.profile.access = 1)
  <2>1. Blank \in Config /\ Blank.profile = None
    BY DEF Blank, Config
  <2>2. ASSUME NEW d \in BOOLEAN,
               file = [profile |-> [access |-> 1, refresh |-> 1, dated |-> d], ws |-> {},
                       deployment |-> d]
        PROVE  file \in Config /\ file.profile.access = 1
    BY <1>1, <2>2 DEF Config, Cred
  <2> QED BY <2>1, <2>2 DEF Init
<1>3. Blank \in Config /\ Blank.profile = None
  BY DEF Blank, Config
<1>4. TypeOK
  <2>1. issued \in 0 .. MaxToken /\ refreshable \subseteq 1 .. issued
    BY <1>1 DEF Init
  <2>2. state \in [Token -> TokenState] /\ stored \in BOOLEAN /\ disturbed \in BOOLEAN
    BY DEF Init, TokenState
  <2>3. /\ pc \in [Proc -> Points] /\ after \in [Proc -> Points] /\ kind \in [Proc -> Commands]
        /\ keyed \in [Proc -> BOOLEAN] /\ listener \in [Proc -> {"idle", "handled"}]
    BY DEF Init, Points, Commands
  <2>4. /\ mem \in [Proc -> Config] /\ profile \in [Proc -> Cred \cup {None}]
        /\ grant \in [Proc -> Cred \cup {None}]
    BY <1>3 DEF Init
  <2>5. /\ header \in [Proc -> Token \cup {Key, None}]
        /\ refused \in [Proc -> Token \cup {Key, None}]
    BY DEF Init
  <2>6. /\ tries \in [Proc -> 1 .. 2] /\ attempt \in [Proc -> 0 .. MaxRetries]
        /\ applied \in [Proc -> Nat] /\ left \in [Proc -> SUBSET Workspaces]
    BY BoundAssumption DEF Init
  <2> QED BY <1>2, <2>1, <2>2, <2>3, <2>4, <2>5, <2>6 DEF TypeOK
<1>5. KnownCred(file.profile)
  BY <1>1, <1>2 DEF KnownCred, Known
<1>6. ASSUME NEW p \in Proc PROVE ProcOK(p)
  <2>1. SavesReturn(p) /\ HeaderOK(p) /\ ProfileOK(p) /\ GrantOK(p) /\ OnceOK(p) /\ RetryOK(p)
    BY <1>3 DEF Init, SavesReturn, HeaderOK, ProfileOK, GrantOK, OnceOK, RetryOK, At
  <2>2. KnownOK(p)
    BY <1>3, <1>4, Types DEF Init, KnownOK, Known, KnownCred
  <2> QED BY <2>1, <2>2 DEF ProcOK
<1> QED BY <1>4, <1>5, <1>6 DEF CredInv

(* Every step keeps it.                                                        *)
LEMMA StepCred == CredInv /\ [Next]_vars => CredInv'
<1> SUFFICES ASSUME CredInv, [Next]_vars PROVE CredInv'
  OBVIOUS
<1>1. ASSUME NEW p \in Proc, Step(p) PROVE CredInv'
  <2>1. CASE Connect(p, "connect", "connected", "ask") \/ Connect(p, "reconnect", "reconnected", "check")
    BY <2>1, ConnectStep
  <2>2. CASE Connected(p, "connected", "ask") \/ Connected(p, "reconnected", "check")
    BY <2>2, SavesSame DEF Connected
  <2>3. CASE Send(p) \/ Refresh(p) \/ RefreshFails(p) \/ StoreRefreshed(p)
    BY <2>3, SendStep, RefreshStep, RefreshFailsStep, StoreRefreshedStep
  <2>4. CASE Browser(p) \/ Check(p) \/ Claim(p) \/ UserInfo(p) \/ Landed(p)
    BY <2>4, BrowserStep, CheckStep, ClaimStep, UserInfoStep, LandedStep
  <2>5. CASE Answer(p) \/ Unauthorized(p) \/ AddWorkspace(p) \/ SetDefault(p) \/ RetryTask(p)
    BY <2>5, AnswerStep, UnauthorizedStep, AddWorkspaceStep, SetDefaultStep, RetryTaskStep
  <2>6. CASE Raise(p)
    BY <2>6, ExitStep DEF Raise, CredInv, TypeOK
  <2>7. CASE Finish(p)
    BY <2>7, ExitStep DEF Finish, CredInv, TypeOK
  <2>8. CASE Truncate(p) \/ Write(p)
    BY <2>8, TruncateStep, WriteStep
  <2> QED BY <1>1, <2>1, <2>2, <2>3, <2>4, <2>5, <2>6, <2>7, <2>8 DEF Step
<1>2. ASSUME NEW p \in Proc, Start(p) \/ Callback(p) \/ Declined(p) \/ Again(p) PROVE CredInv'
  BY <1>2, StartStep, CallbackStep, DeclinedStep, AgainStep
<1>3. ASSUME NEW p \in Proc, Crash(p) PROVE CredInv'
  <2>1. disturbed' \in BOOLEAN
    BY <1>3 DEF Crash, CredInv, TypeOK
  <2> QED BY <1>3, <2>1, ExitStep DEF Crash
<1>4. CASE UNCHANGED vars
  <2>1. TypeOK' /\ UNCHANGED <<issued, file, pc, local, state>>
    BY <1>4 DEF CredInv, TypeOK, vars, service, local, call, task, oauth
  <2> QED BY <2>1, Outside DEF Dead
<1> QED BY <1>1, <1>2, <1>3, <1>4, TickStep, RevokeStep DEF Next

(* At every point of a request a process knows what it has to know of its      *)
(* credentials and of the token it was refused with (AuthInv), whatever the     *)
(* number of processes, tokens and retries.                                     *)
THEOREM Invariant == Spec => []IInv
<1>1. Init => LoginInv
  <2>1. Blank.profile = None
    BY DEF Blank
  <2>2. ASSUME Init, file.profile # None PROVE Good(file.profile)
    <3>1. PICK d \in BOOLEAN :
            file = [profile |-> [access |-> 1, refresh |-> 1, dated |-> d], ws |-> {},
                    deployment |-> d]
      BY <2>1, <2>2 DEF Init
    <3> QED BY <2>2, <3>1 DEF Init, Good
  <2> QED BY <2>2 DEF Init, LoginInv, LoginOK
<1>2. Init => IInv
  BY <1>1, InitCred DEF IInv
<1>3. IInv /\ [Next]_vars => IInv'
  BY StepCred, LoginStep DEF IInv
<1> QED BY <1>2, <1>3, PTL DEF Spec

(* Every variable keeps its type.                                              *)
THEOREM TypeCorrect == Spec => []TypeOK
<1>1. IInv => TypeOK
  BY DEF IInv, CredInv
<1> QED BY <1>1, Invariant, PTL

(* The session's headers carry the token of its profile, and both are what the *)
(* process would save, but for tokens just received (_try_refresh_token,        *)
(* _initiate_browser_login).                                                    *)
THEOREM SessionIsCurrent == Spec => []SessionFollowsConfig
<1>1. IInv => SessionFollowsConfig
  BY DEF IInv, CredInv, ProcOK, HeaderOK, ProfileOK, At, SessionFollowsConfig
<1> QED BY <1>1, Invariant, PTL

(* What a command requests is applied at most once, however it is refused,     *)
(* renewed, lost or sent again (APISession.request).                            *)
THEOREM RequestsApplyOnce == Spec => []AppliedOnce
<1>1. IInv => AppliedOnce
  BY DEF IInv, CredInv, ProcOK, OnceOK, AppliedOnce
<1> QED BY <1>1, Invariant, PTL

(* The attempt after a 401 never carries the token that was refused            *)
(* (APISession._handle_http_error).                                             *)
THEOREM RetriesAreRenewed == Spec => []RetryCarriesNewToken
<1>1. IInv => RetryCarriesNewToken
  BY DEF IInv, CredInv, ProcOK, RetryOK, RetryCarriesNewToken
<1> QED BY <1>1, Invariant, PTL

(* A login that was stored stays on disk and usable, unless the platform        *)
(* revokes it, a process dies while it saves, the answer with a new refresh     *)
(* token is lost, or processes overlap around one (AppConfig.save,              *)
(* _update_credentials).                                                        *)
THEOREM LoginStays == Spec => []LoginIsKept
<1>1. IInv => LoginIsKept
  BY DEF IInv, LoginInv, LoginIsKept, Saving, Good
<1> QED BY <1>1, Invariant, PTL

-----------------------------------------------------------------------------
(* How far a process is from its end                                           *)

(* A distance is nearer at the first place where it differs.                   *)
LEMMA NearerAt ==
  ASSUME NEW a, NEW b, NEW c, NEW d, NEW e,
         NEW r, NEW s, NEW t, NEW u, NEW v,
         \/ a < r
         \/ a = r /\ b < s
         \/ a = r /\ b = s /\ c < t
         \/ a = r /\ b = s /\ c = t /\ d < u
         \/ a = r /\ b = s /\ c = t /\ d = u /\ e < v
  PROVE  Nearer(<<a, b, c, d, e>>, <<r, s, t, u, v>>)
<1> DEFINE m == <<a, b, c, d, e>>
           n == <<r, s, t, u, v>>
<1>1. /\ m[1] = a /\ m[2] = b /\ m[3] = c /\ m[4] = d /\ m[5] = e
      /\ n[1] = r /\ n[2] = s /\ n[3] = t /\ n[4] = u /\ n[5] = v
  OBVIOUS
<1> HIDE DEF m, n
<1>2. \A i \in 1 .. 5 : m[i] < n[i] /\ (\A j \in 1 .. i - 1 : m[j] = n[j]) => Nearer(m, n)
  BY DEF Nearer
<1>3. CASE a < r
  <2>1. m[1] < n[1] /\ \A j \in 1 .. 1 - 1 : m[j] = n[j]
    BY <1>1, <1>3
  <2> QED BY <1>2, <2>1 DEF m, n
<1>4. CASE a = r /\ b < s
  <2>1. m[2] < n[2] /\ \A j \in 1 .. 2 - 1 : m[j] = n[j]
    BY <1>1, <1>4
  <2> QED BY <1>2, <2>1 DEF m, n
<1>5. CASE a = r /\ b = s /\ c < t
  <2>1. m[3] < n[3] /\ \A j \in 1 .. 3 - 1 : m[j] = n[j]
    BY <1>1, <1>5
  <2> QED BY <1>2, <2>1 DEF m, n
<1>6. CASE a = r /\ b = s /\ c = t /\ d < u
  <2>1. m[4] < n[4] /\ \A j \in 1 .. 4 - 1 : m[j] = n[j]
    BY <1>1, <1>6
  <2> QED BY <1>2, <2>1 DEF m, n
<1>7. CASE a = r /\ b = s /\ c = t /\ d = u /\ e < v
  <2>1. m[5] < n[5] /\ \A j \in 1 .. 5 - 1 : m[j] = n[j]
    BY <1>1, <1>7
  <2> QED BY <1>2, <2>1 DEF m, n
<1> QED BY <1>3, <1>4, <1>5, <1>6, <1>7

(* What is left of a way is a number.                                          *)
LEMMA WayType == \A point : Way(point) \in 3 .. 45
BY DEF Way

LEMMA DistanceType ==
  ASSUME TypeOK, IsFiniteSet(Workspaces), NEW p \in Proc
  PROVE  /\ Logins(p) \in Nat /\ MaxRetries - attempt[p] \in Nat /\ Sends(p) \in Nat
         /\ ToAdd(p) \in Nat /\ Left(p) \in Nat /\ Left(p) # 0
<1>1. Logins(p) \in Nat
  BY DEF Logins
<1>2. MaxRetries - attempt[p] \in Nat
  <2>1. attempt[p] \in 0 .. MaxRetries
    BY DEF TypeOK
  <2> QED BY <2>1, BoundAssumption
<1>3. Sends(p) \in Nat
  <2>1. tries[p] \in 1 .. 2
    BY DEF TypeOK
  <2> QED BY <2>1 DEF Sends
<1>4. ToAdd(p) \in Nat
  <2>1. IsFiniteSet(left[p])
    BY FS_Subset DEF TypeOK
  <2> QED BY <2>1, FS_CardinalityType DEF ToAdd
<1>5. Left(p) \in Nat /\ Left(p) # 0
  BY WayType DEF Left
<1> QED BY <1>1, <1>2, <1>3, <1>4, <1>5

(* A process that ends has nothing left.                                       *)
LEMMA GoneIsNearer ==
  ASSUME TypeOK, IsFiniteSet(Workspaces), NEW p \in Proc, pc[p] # "off", pc'[p] = "off"
  PROVE  Nearer(Distance(p)', Distance(p))
<1>1. Distance(p)' = <<0, 0, 0, 0, 0>>
  BY DEF Distance
<1>2. Distance(p) = <<Logins(p), MaxRetries - attempt[p], Sends(p), ToAdd(p), Left(p)>>
  BY DEF Distance
<1> DEFINE a == Logins(p)
           b == MaxRetries - attempt[p]
           c == Sends(p)
           d == ToAdd(p)
           e == Left(p)
<1>3. a \in Nat /\ b \in Nat /\ c \in Nat /\ d \in Nat /\ e \in Nat /\ e # 0
  BY DistanceType
<1> HIDE DEF a, b, c, d, e
<1>4. \/ 0 < a
      \/ 0 = a /\ 0 < b
      \/ 0 = a /\ 0 = b /\ 0 < c
      \/ 0 = a /\ 0 = b /\ 0 = c /\ 0 < d
      \/ 0 = a /\ 0 = b /\ 0 = c /\ 0 = d /\ 0 < e
  BY <1>3
<1>5. Nearer(<<0, 0, 0, 0, 0>>, <<a, b, c, d, e>>)
  BY <1>4, NearerAt
<1> QED BY <1>1, <1>2, <1>5 DEF a, b, c, d, e

(* A step along the way of the request, with all else as it is.                *)
LEMMA AlongIsNearer ==
  ASSUME NEW p \in Proc, pc[p] \notin {"off", "send"}, pc'[p] \notin {"off", "send"},
         kind'[p] = kind[p], attempt'[p] = attempt[p], tries'[p] = tries[p],
         left'[p] = left[p], Left(p)' < Left(p)
  PROVE  Nearer(Distance(p)', Distance(p))
<1>1. /\ Distance(p) = <<Logins(p), MaxRetries - attempt[p], Sends(p), ToAdd(p), Left(p)>>
      /\ Distance(p)' = <<Logins(p)', MaxRetries - attempt'[p], Sends(p)', ToAdd(p)', Left(p)'>>
  BY DEF Distance
<1>2. Logins(p)' = Logins(p) /\ Sends(p)' = Sends(p) /\ ToAdd(p)' = ToAdd(p)
  BY DEF Logins, Sends, ToAdd
<1> QED BY <1>1, <1>2, NearerAt

(* One workspace less to add.                                                  *)
LEMMA AddedIsNearer ==
  ASSUME NEW p \in Proc, pc[p] \notin {"off", "send"}, pc'[p] \notin {"off", "send"},
         kind'[p] = kind[p], attempt'[p] = attempt[p], tries'[p] = tries[p],
         ToAdd(p)' < ToAdd(p)
  PROVE  Nearer(Distance(p)', Distance(p))
<1>1. /\ Distance(p) = <<Logins(p), MaxRetries - attempt[p], Sends(p), ToAdd(p), Left(p)>>
      /\ Distance(p)' = <<Logins(p)', MaxRetries - attempt'[p], Sends(p)', ToAdd(p)', Left(p)'>>
  BY DEF Distance
<1>2. Logins(p)' = Logins(p) /\ Sends(p)' = Sends(p)
  BY DEF Logins, Sends
<1> QED BY <1>1, <1>2, NearerAt

(* One time less to send the request.                                          *)
LEMMA SentIsNearer ==
  ASSUME NEW p \in Proc, pc[p] # "off", pc'[p] # "off",
         kind'[p] = kind[p], attempt'[p] = attempt[p], Sends(p)' < Sends(p)
  PROVE  Nearer(Distance(p)', Distance(p))
<1>1. /\ Distance(p) = <<Logins(p), MaxRetries - attempt[p], Sends(p), ToAdd(p), Left(p)>>
      /\ Distance(p)' = <<Logins(p)', MaxRetries - attempt'[p], Sends(p)', ToAdd(p)', Left(p)'>>
  BY DEF Distance
<1>2. Logins(p)' = Logins(p)
  BY DEF Logins
<1> QED BY <1>1, <1>2, NearerAt

(* One attempt less.                                                           *)
LEMMA TriedIsNearer ==
  ASSUME NEW p \in Proc, pc[p] # "off", pc'[p] # "off", kind'[p] = kind[p],
         MaxRetries - attempt'[p] < MaxRetries - attempt[p]
  PROVE  Nearer(Distance(p)', Distance(p))
<1>1. /\ Distance(p) = <<Logins(p), MaxRetries - attempt[p], Sends(p), ToAdd(p), Left(p)>>
      /\ Distance(p)' = <<Logins(p)', MaxRetries - attempt'[p], Sends(p)', ToAdd(p)', Left(p)'>>
  BY DEF Distance
<1>2. Logins(p)' = Logins(p)
  BY DEF Logins
<1> QED BY <1>1, <1>2, NearerAt

(* The login is done.                                                          *)
LEMMA LoggedInIsNearer ==
  ASSUME NEW p \in Proc, pc[p] # "off", pc'[p] # "off", kind[p] = "login", kind'[p] = "sync"
  PROVE  Nearer(Distance(p)', Distance(p))
<1>1. /\ Distance(p) = <<Logins(p), MaxRetries - attempt[p], Sends(p), ToAdd(p), Left(p)>>
      /\ Distance(p)' = <<Logins(p)', MaxRetries - attempt'[p], Sends(p)', ToAdd(p)', Left(p)'>>
  BY DEF Distance
<1>2. Logins(p)' = 0 /\ Logins(p) = 1
  BY DEF Logins
<1>3. Logins(p)' < Logins(p)
  BY <1>2
<1> QED BY <1>1, <1>3, NearerAt

(* Where a process goes, and what it saves.                                    *)
LEMMA GoesTo ==
  ASSUME TypeOK, NEW p \in Proc, NEW point, Goto(p, point)
  PROVE  pc'[p] = point
BY DEF TypeOK, Goto

LEMMA SavesAndGoes ==
  ASSUME TypeOK, NEW p \in Proc, NEW config, NEW point, Save(p, config, point)
  PROVE  pc'[p] = "save" /\ after'[p] = point /\ mem'[p] = config
BY DEF TypeOK, Save, Goto

LEMMA ExitIsNearer ==
  ASSUME TypeOK, IsFiniteSet(Workspaces), NEW p \in Proc, pc[p] # "off", Exit(p)
  PROVE  Nearer(Distance(p)', Distance(p))
BY GoesTo, GoneIsNearer DEF Exit

(* What a process has before it when it goes on and nothing else of it changes. *)
LEMMA GoesAlong ==
  ASSUME TypeOK, NEW p \in Proc, NEW point, Goto(p, point), point \notin {"off", "send", "save", "write"},
         pc[p] \notin {"off", "send", "save", "write"}, UNCHANGED <<kind, attempt, left, tries>>,
         Way(point) < Way(pc[p])
  PROVE  Nearer(Distance(p)', Distance(p))
<1>1. pc'[p] = point
  BY GoesTo
<1>2. Left(p)' < Left(p)
  BY <1>1 DEF Left
<1> QED BY <1>1, <1>2, AlongIsNearer

(* The same for one that saves its config on the way.                          *)
LEMMA SavesAlong ==
  ASSUME TypeOK, NEW p \in Proc, NEW config, NEW point, Save(p, config, point),
         pc[p] \notin {"off", "send", "save", "write"}, UNCHANGED <<kind, attempt, left, tries>>,
         Way(point) + 2 < Way(pc[p])
  PROVE  Nearer(Distance(p)', Distance(p))
<1>1. pc'[p] = "save" /\ after'[p] = point /\ mem'[p] = config
  BY SavesAndGoes
<1>2. Left(p)' < Left(p)
  BY <1>1 DEF Left
<1> QED BY <1>1, <1>2, AlongIsNearer

(* Every step of a process brings it nearer its end, but for a broken callback. *)
LEMMA ProceedsNearer ==
  ASSUME CredInv, IsFiniteSet(Workspaces), NEW p \in Proc, Proceeds(p)
  PROVE  BackToWait(p) \/ Nearer(Distance(p)', Distance(p))
<1>0. TypeOK /\ SavesReturn(p)
  BY DEF CredInv, ProcOK
<1> DEFINE Closer == Nearer(Distance(p)', Distance(p))
<1>1. ASSUME NEW from, NEW between, NEW to,
             <<from, between, to>> \in {<<"connect", "connected", "ask">>,
                                       <<"reconnect", "reconnected", "check">>},
             Connect(p, from, between, to)
      PROVE  Closer
  <2>1. /\ pc[p] = from /\ UNCHANGED <<kind, attempt, left, tries>>
        /\ Way(between) + 2 < Way(from) /\ Way(to) < Way(from) /\ Way("raise") < Way(from)
        /\ from \in {"connect", "reconnect"} /\ to \in {"ask", "check"}
    BY <1>1 DEF Connect, call, task, Way
  <2>2. CASE Goto(p, to)
    BY <1>0, <2>1, <2>2, GoesAlong
  <2>3. CASE Goto(p, "raise")
    BY <1>0, <2>1, <2>3, GoesAlong
  <2>4. CASE Save(p, [mem[p] EXCEPT !.deployment = TRUE], between)
    BY <1>0, <2>1, <2>4, SavesAlong
  <2> QED BY <1>1, <2>2, <2>3, <2>4 DEF Connect
<1>2. CASE Send(p)
  <2>1. pc[p] = "send" /\ \E point \in {"api", "browser", "connect"} : Goto(p, point)
    BY <1>2 DEF Send, Renew
  <2>2. PICK point \in {"api", "browser", "connect"} : Goto(p, point)
    BY <2>1
  <2>3. pc'[p] = point /\ tries'[p] = 1 /\ kind'[p] = kind[p] /\ attempt'[p] = attempt[p]
    BY <1>0, <1>2, <2>2, GoesTo DEF Send, TypeOK, task
  <2>4. Sends(p)' = 1 /\ Sends(p) = 2
    BY <2>1, <2>3 DEF Sends
  <2>5. Sends(p)' < Sends(p)
    BY <2>4
  <2> QED BY <2>1, <2>3, <2>5, SentIsNearer
<1>3. CASE Refresh(p)
  <2>1. pc[p] = "ask" /\ UNCHANGED <<kind, attempt, left, tries>>
    BY <1>3 DEF Refresh, call, task
  <2>2. Way("browser") < Way("ask") /\ Way("store") + 2 < Way("ask")
    BY DEF Way
  <2>3. Goto(p, "browser")
          \/ \E c : Save(p, [mem[p] EXCEPT !.profile = c], "store")
    BY <1>3 DEF Refresh
  <2>4. CASE Goto(p, "browser")
    BY <1>0, <2>1, <2>2, <2>4, GoesAlong
  <2>5. ASSUME NEW c, Save(p, [mem[p] EXCEPT !.profile = c], "store") PROVE Closer
    BY <1>0, <2>1, <2>2, <2>5, SavesAlong
  <2> QED BY <2>3, <2>4, <2>5
<1>4. CASE RefreshFails(p)
  <2>1. pc[p] = "ask" /\ Goto(p, "browser") /\ UNCHANGED <<kind, attempt, left, tries>>
    BY <1>4 DEF RefreshFails, local, call, task
  <2>2. Way("browser") < Way("ask")
    BY DEF Way
  <2> QED BY <1>0, <2>1, <2>2, GoesAlong
<1>5. CASE StoreRefreshed(p)
  <2>1. pc[p] = "store" /\ Goto(p, "api") /\ UNCHANGED <<kind, attempt, left, tries>>
    BY <1>5 DEF StoreRefreshed, call, task
  <2>2. Way("api") < Way("store")
    BY DEF Way
  <2> QED BY <1>0, <2>1, <2>2, GoesAlong
<1>6. CASE Browser(p)
  <2>1. pc[p] = "browser" /\ UNCHANGED <<kind, attempt, left, tries>>
        /\ \E point \in {"raise", "reconnect"} : Goto(p, point)
    BY <1>6 DEF Browser, local, call, task
  <2>2. \A point \in {"raise", "reconnect"} : Way(point) < Way("browser")
    BY DEF Way
  <2> QED BY <1>0, <2>1, <2>2, GoesAlong
<1>7. CASE Check(p) \/ Callback(p) \/ Declined(p)
  <2>1. \/ pc[p] = "check" /\ \E point \in {"landed", "wait", "raise"} : Goto(p, point)
        \/ pc[p] = "wait" /\ \E point \in {"claim", "raise"} : Goto(p, point)
    BY <1>7 DEF Check, Callback, Declined
  <2>2. UNCHANGED <<kind, attempt, left, tries>>
    BY <1>7 DEF Check, Callback, Declined, local, call, task
  <2>3. /\ \A point \in {"landed", "wait", "raise"} : Way(point) < Way("check")
        /\ \A point \in {"claim", "raise"} : Way(point) < Way("wait")
    BY DEF Way
  <2> QED BY <1>0, <2>1, <2>2, <2>3, GoesAlong
<1>8. CASE Claim(p)
  <2>1. pc[p] = "claim" /\ UNCHANGED <<kind, attempt, left, tries>>
        /\ \E point \in {"userinfo", "raise", "wait"} : Goto(p, point)
    BY <1>8 DEF Claim, Escapes, call, task
  <2>2. \A point \in {"userinfo", "raise"} : Way(point) < Way("claim")
    BY DEF Way
  <2>3. CASE Goto(p, "wait")
    BY <1>0, <2>1, <2>3, GoesTo DEF BackToWait
  <2> QED BY <1>0, <2>1, <2>2, <2>3, GoesAlong
<1>9. CASE UserInfo(p)
  <2>1. pc[p] = "userinfo" /\ UNCHANGED <<kind, attempt, left, tries>>
        /\ (Save(p, [mem[p] EXCEPT !.profile = grant[p]], "landed") \/ Goto(p, "wait"))
    BY <1>9 DEF UserInfo, Escapes, call, task
  <2>2. Way("landed") + 2 < Way("userinfo")
    BY DEF Way
  <2>3. CASE Goto(p, "wait")
    BY <1>0, <2>1, <2>3, GoesTo DEF BackToWait
  <2>4. CASE Save(p, [mem[p] EXCEPT !.profile = grant[p]], "landed")
    BY <1>0, <2>1, <2>2, <2>4, SavesAlong
  <2> QED BY <2>1, <2>3, <2>4
<1>10. CASE Landed(p)
  <2>1. pc[p] = "landed" /\ Goto(p, IF kind[p] = "login" THEN "send" ELSE "api")
        /\ UNCHANGED <<attempt, left, tries>>
        /\ kind' = [kind EXCEPT ![p] = IF @ = "login" THEN "sync" ELSE @]
    BY <1>10 DEF Landed, call, task
  <2>2. CASE kind[p] = "login"
    <3>1. kind'[p] = "sync" /\ pc'[p] = "send"
      BY <1>0, <2>1, <2>2, GoesTo DEF TypeOK
    <3> QED BY <2>1, <2>2, <3>1, LoggedInIsNearer
  <2>3. CASE kind[p] # "login"
    <3>1. kind' = kind /\ Goto(p, "api")
      BY <1>0, <2>1, <2>3 DEF TypeOK
    <3>2. Way("api") < Way("landed")
      BY DEF Way
    <3> QED BY <1>0, <2>1, <3>1, <3>2, GoesAlong
  <2> QED BY <2>2, <2>3
<1>11. CASE Answer(p)
  <2>1. pc[p] = "api" /\ UNCHANGED <<kind, attempt, left, tries>>
        /\ \E point \in {"answered", "listed", "raise"} : Goto(p, point)
    BY <1>11 DEF Answer, task
  <2>2. \A point \in {"answered", "listed", "raise"} : Way(point) < Way("api")
    BY DEF Way
  <2> QED BY <1>0, <2>1, <2>2, GoesAlong
<1>12. CASE Unauthorized(p)
  <2>1. pc[p] = "api" /\ tries' = [tries EXCEPT ![p] = 2] /\ UNCHANGED <<kind, attempt, left>>
    BY <1>12 DEF Unauthorized, task
  <2>2. tries'[p] = 2 /\ tries[p] \in 1 .. 2
    BY <1>0, <2>1 DEF TypeOK
  <2>3. CASE tries[p] = 1
    <3>1. \E point \in {"browser", "connect"} : Goto(p, point)
      BY <1>12, <2>3 DEF Unauthorized, Renew
    <3>2. pc'[p] \in {"browser", "connect"}
      BY <1>0, <3>1, GoesTo
    <3>3. Sends(p)' = 0 /\ Sends(p) = 1
      BY <2>1, <2>2, <2>3, <3>2 DEF Sends
    <3>4. Sends(p)' < Sends(p)
      BY <3>3
    <3> QED BY <2>1, <3>2, <3>4, SentIsNearer
  <2>4. CASE tries[p] = 2
    <3>1. Goto(p, "raise") /\ tries' = tries
      BY <1>0, <1>12, <2>1, <2>4 DEF Unauthorized, TypeOK
    <3>2. Way("raise") < Way("api")
      BY DEF Way
    <3> QED BY <1>0, <2>1, <3>1, <3>2, GoesAlong
  <2> QED BY <2>2, <2>3, <2>4
<1>13. CASE AddWorkspace(p)
  <2>1. pc[p] = "listed" /\ UNCHANGED <<kind, attempt, tries>>
    BY <1>13 DEF AddWorkspace, call
  <2>2. PICK w \in left[p] : /\ Save(p, [mem[p] EXCEPT !.ws = @ \cup {w}], "listed")
                             /\ left' = [left EXCEPT ![p] = @ \ {w}]
    BY <1>13 DEF AddWorkspace
  <2>3. pc'[p] = "save"
    BY <1>0, <2>2, SavesAndGoes
  <2>4. left'[p] = left[p] \ {w} /\ IsFiniteSet(left[p])
    BY <1>0, <2>2, FS_Subset DEF TypeOK
  <2>5. Cardinality(left'[p]) = Cardinality(left[p]) - 1 /\ Cardinality(left[p]) \in Nat
    BY <2>4, FS_RemoveElement, FS_CardinalityType
  <2>6. ToAdd(p)' < ToAdd(p)
    BY <2>5 DEF ToAdd
  <2> QED BY <2>1, <2>3, <2>6, AddedIsNearer
<1>14. CASE RetryTask(p)
  <2>1. pc[p] = "raise" /\ pc'[p] = "send" /\ kind'[p] = kind[p] /\ attempt'[p] = attempt[p] + 1
    BY <1>0, <1>14, GoesTo DEF RetryTask, TypeOK
  <2>2. attempt[p] \in 0 .. MaxRetries
    BY <1>0 DEF TypeOK
  <2>3. MaxRetries - attempt'[p] < MaxRetries - attempt[p]
    BY <2>1, <2>2, BoundAssumption
  <2> QED BY <2>1, <2>3, TriedIsNearer
<1>15. CASE Raise(p) \/ Finish(p) \/ Crash(p)
  BY <1>0, <1>15, ExitIsNearer DEF Raise, Finish, Crash
<1>16. CASE Truncate(p)
  <2>1. pc[p] = "save" /\ pc'[p] = "write" /\ UNCHANGED <<kind, attempt, left, tries, after>>
    BY <1>0, <1>16, GoesTo DEF Truncate, local, call, task
  <2>2. Left(p)' = Way(after[p]) + 1 /\ Left(p) = Way(after[p]) + 2
    BY <2>1 DEF Left
  <2>3. Left(p)' < Left(p)
    BY <2>2, WayType
  <2> QED BY <2>1, <2>3, AlongIsNearer
<1>17. CASE Write(p)
  <2>1. pc[p] = "write" /\ pc'[p] = after[p] /\ UNCHANGED <<kind, attempt, left, tries>>
    BY <1>0, <1>17, GoesTo DEF Write, call, task
  <2>2. after[p] \in Points \ {"off", "send", "save", "write"}
    BY <1>0, <2>1 DEF SavesReturn, Points
  <2>3. Left(p)' = Way(after[p]) /\ Left(p) = Way(after[p]) + 1
    BY <2>1, <2>2 DEF Left
  <2>4. Left(p)' < Left(p)
    BY <2>3, WayType
  <2> QED BY <2>1, <2>2, <2>4, AlongIsNearer
<1>18. CASE SetDefault(p)
  <2>1. /\ pc[p] = "listed" /\ UNCHANGED <<kind, attempt, left, tries>>
        /\ Goto(p, "answered") \/ Save(p, mem[p], "answered")
    BY <1>18 DEF SetDefault, call, task
  <2>2. Way("answered") + 2 < Way("listed") /\ Way("answered") < Way("listed")
    BY DEF Way
  <2>3. CASE Goto(p, "answered")
    BY <1>0, <2>1, <2>2, <2>3, GoesAlong
  <2>4. CASE Save(p, mem[p], "answered")
    BY <1>0, <2>1, <2>2, <2>4, SavesAlong
  <2> QED BY <2>1, <2>3, <2>4
<1>19. ASSUME NEW between, NEW to, Connected(p, between, to),
              <<between, to>> \in {<<"connected", "ask">>, <<"reconnected", "check">>}
       PROVE  Closer
  <2>1. /\ pc[p] = between /\ UNCHANGED <<kind, attempt, left, tries>>
        /\ Save(p, mem[p], to) /\ Way(to) + 2 < Way(between) /\ between \in {"connected", "reconnected"}
    BY <1>19 DEF Connected, call, task, Way
  <2> QED BY <1>0, <2>1, SavesAlong
<1> QED BY <1>1, <1>2, <1>3, <1>4, <1>5, <1>6, <1>7, <1>8, <1>9, <1>10, <1>11, <1>12, <1>13, <1>14,
           <1>15, <1>16, <1>17, <1>18, <1>19 DEF Proceeds, Step

(* What others do leaves a process where it is.                                *)
LEMMA OthersKeepDistance ==
  ASSUME TypeOK, [Next]_vars, NEW p \in Proc, pc[p] # "off", ~(Proceeds(p) \/ Again(p))
  PROVE  Distance(p)' = Distance(p)
<1> DEFINE Kept == /\ pc'[p] = pc[p] /\ kind'[p] = kind[p] /\ attempt'[p] = attempt[p]
                   /\ left'[p] = left[p] /\ tries'[p] = tries[p] /\ after'[p] = after[p]
<1>1. ASSUME Tick \/ Revoke \/ UNCHANGED vars PROVE Kept
  BY <1>1 DEF Tick, Revoke, vars, local, call, task
<1>2. ASSUME NEW q \in Proc, Start(q) \/ Step(q) \/ Callback(q) \/ Declined(q) \/ Again(q) \/ Crash(q)
      PROVE  Kept
  <2>1. q # p
    BY <1>2 DEF Start, Proceeds
  <2>2. \A point : Goto(q, point) => pc'[p] = pc[p]
    BY <2>1 DEF Goto, TypeOK
  <2>3. \A config, point : Save(q, config, point) =>
          pc'[p] = pc[p] /\ after'[p] = after[p]
    BY <2>1 DEF Save, Goto, TypeOK
  <2>4. Exit(q) => Kept
    BY <2>1 DEF Exit, Goto, TypeOK
  <2>5. CASE Start(q)
    BY <2>1, <2>2, <2>5 DEF Start, TypeOK
  <2>6. \A from, between, to : Connect(q, from, between, to) \/ Connected(q, between, to) => Kept
    BY <2>2, <2>3 DEF Connect, Connected, call, task
  <2>7. CASE Send(q) \/ Unauthorized(q)
    <3>1. pc'[p] = pc[p] /\ tries'[p] = tries[p]
      BY <2>1, <2>2, <2>7 DEF Send, Unauthorized, Renew, TypeOK
    <3> QED BY <2>7, <3>1 DEF Send, Unauthorized, task
  <2>8. CASE Refresh(q) \/ UserInfo(q) \/ SetDefault(q)
    BY <2>2, <2>3, <2>8 DEF Refresh, UserInfo, Escapes, SetDefault, call, task
  <2>9. CASE RefreshFails(q) \/ Browser(q) \/ Check(q) \/ Callback(q) \/ Truncate(q)
    BY <2>2, <2>9 DEF RefreshFails, Browser, Check, Callback, Truncate, local, call, task
  <2>10. CASE StoreRefreshed(q) \/ Declined(q) \/ Claim(q) \/ Answer(q) \/ Again(q)
    BY <2>2, <2>10 DEF StoreRefreshed, Declined, Claim, Escapes, Answer, Again, call, task
  <2>11. CASE Landed(q) \/ RetryTask(q) \/ Write(q)
    <3>1. pc'[p] = pc[p]
      BY <2>2, <2>11 DEF Landed, RetryTask, Write
    <3>2. /\ kind'[p] = kind[p] /\ attempt'[p] = attempt[p] /\ left'[p] = left[p]
          /\ after'[p] = after[p]
      BY <2>1, <2>11 DEF Landed, RetryTask, Write, TypeOK, task
    <3> QED BY <2>11, <3>1, <3>2 DEF Landed, RetryTask, Write, call, task
  <2>12. CASE Raise(q) \/ Finish(q) \/ Crash(q)
    BY <2>4, <2>12 DEF Raise, Finish, Crash
  <2>13. CASE AddWorkspace(q)
    BY <2>1, <2>3, <2>13 DEF AddWorkspace, call, TypeOK
  <2> QED BY <1>2, <2>5, <2>6, <2>7, <2>8, <2>9, <2>10, <2>11, <2>12, <2>13 DEF Step
<1>3. Kept
  BY <1>1, <1>2 DEF Next
<1> QED BY <1>3 DEF Distance, Logins, Sends, ToAdd, Left

(* A process that is under way ends after finitely many steps, whatever the    *)
(* platform refuses or loses, unless its user's callbacks break again and      *)
(* again or it has another request: each step is nearer to the end             *)
(* (APISession.request, clitask).  A user has finitely many workspaces.        *)
THEOREM ProcessesEnd ==
  ASSUME IsFiniteSet(Workspaces)
  PROVE  Spec => ProcessesDescend
<1> DEFINE Numbers == \A p \in Proc : \A i \in 1 .. 5 : Distance(p)[i] \in Nat
           Descends == \A p \in Proc :
             /\ Proceeds(p) => BackToWait(p) \/ Nearer(Distance(p)', Distance(p))
             /\ pc[p] # "off" /\ ~(Proceeds(p) \/ Again(p)) => Distance(p)' = Distance(p)
<1>1. IInv => Numbers
  <2> SUFFICES ASSUME TypeOK, NEW p \in Proc, NEW i \in 1 .. 5 PROVE Distance(p)[i] \in Nat
    BY DEF IInv, CredInv
  <2>1. /\ Logins(p) \in Nat /\ MaxRetries - attempt[p] \in Nat /\ Sends(p) \in Nat
        /\ ToAdd(p) \in Nat /\ Left(p) \in Nat
    BY DistanceType
  <2>2. i \in {1, 2, 3, 4, 5}
    OBVIOUS
  <2> QED BY <2>1, <2>2 DEF Distance
<1>2. IInv /\ [Next]_vars => [Descends]_vars
  <2> SUFFICES ASSUME IInv, [Next]_vars PROVE Descends
    OBVIOUS
  <2>1. CredInv /\ TypeOK
    BY DEF IInv, CredInv
  <2>2. \A p \in Proc : Proceeds(p) => BackToWait(p) \/ Nearer(Distance(p)', Distance(p))
    BY <2>1, ProceedsNearer
  <2>3. \A p \in Proc : pc[p] # "off" /\ ~(Proceeds(p) \/ Again(p)) => Distance(p)' = Distance(p)
    BY <2>1, OthersKeepDistance
  <2> QED BY <2>2, <2>3
<1>3. ProcessesDescend <=> []Numbers /\ [][Descends]_vars
  BY DEF ProcessesDescend
<1> QED BY <1>1, <1>2, <1>3, Invariant, PTL DEF Spec
=============================================================================
