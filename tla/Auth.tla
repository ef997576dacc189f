-------------------------------- MODULE Auth --------------------------------
(***************************************************************************)
(* Sessions, tokens and the user's config file: core/sessions.py,          *)
(* core/oauth, core/_config.py and `plgt auth login | sync`.               *)
(*                                                                         *)
(* Several CLI processes share one config file.  Each reads it once, when  *)
(* it starts, and from then on saves its own copy over it, by truncating   *)
(* the file and writing it again.  A request renews an access token that   *)
(* is due, or that the platform refuses, by the refresh token or else in   *)
(* the user's browser, and is then sent once more.                         *)
(***************************************************************************)
EXTENDS Naturals, FiniteSets, Session

CONSTANTS
  Proc,          \* CLI processes
  Interactive,   \* those with a terminal
  WithKey,       \* those that may find POLIGLOT_API_KEY set
  Runs,          \* the commands each may be
  Workspaces,    \* the user's workspaces, as the platform lists them
  MaxRetries,    \* how often _sync is tried again, 2 in the code
  MaxToken,      \* tokens are numbered 1..MaxToken
  Key,           \* the API key
  None           \* "no value"

Commands == {"login", "sync", "api"}

ASSUME ProcAssumption == /\ Interactive \subseteq Proc
                         /\ WithKey \subseteq Proc
                         /\ Runs \in [Proc -> SUBSET Commands]
ASSUME BoundAssumption == MaxToken \in Nat \ {0} /\ MaxRetries \in Nat

Token == 1 .. MaxToken

\* The [profile] section, and the sections of the config this module needs.
Cred == [access: Token, refresh: Token, dated: BOOLEAN]
Config == [profile: Cred \cup {None}, ws: SUBSET Workspaces, deployment: BOOLEAN]
Blank == [profile |-> None, ws |-> {}, deployment |-> FALSE]

ASSUME SentinelAssumption == None \notin Nat /\ None \notin Cred /\ Key \notin Nat /\ None # Key

VARIABLES
  \* the token service, and the clock
  issued,        \* tokens handed out so far are 1..issued
  refreshable,   \* the refresh tokens it honours
  state,         \* of each access token
  \* the disk
  file,
  \* each process
  pc, kind, keyed,
  mem,           \* its AppConfig: the sections it saves
  profile,       \* the session's profile
  header,        \* the token in the session's headers
  tries,         \* how often the current request was sent
  attempt,       \* the clitask attempt
  left,          \* the workspaces on the platform's list that it has not added
  grant,         \* the credentials a callback claimed and has not saved yet
  after,         \* where to go on when the config is saved
  listener,      \* the callback server: idle, or listening after a callback it handled
  refused,       \* the token the first attempt was refused with
  \* history
  applied,       \* how often the platform applied the current request
  stored,        \* the config has held a login
  disturbed      \* something happened that costs the stored login

service == <<issued, refreshable, state>>
call    == <<tries, refused, applied>>
task    == <<attempt, left>>
oauth   == <<grant, listener>>
local   == <<kind, keyed, mem, profile, header, call, task, oauth, after>>
vars    == <<service, file, pc, local, stored, disturbed>>

\* "fresh" and "due" tokens work, "expired" and "revoked" ones do not.  By the
\* clock, "due" and "expired" ones have to be renewed.
TokenState == {"fresh", "due", "expired", "revoked"}

Points == {"off", "connect", "connected", "reconnect", "reconnected", "send", "api", "ask", "store",
           "browser", "check", "wait", "claim", "userinfo", "landed", "save", "write", "listed",
           "raise", "answered"}

TypeOK ==
  /\ issued \in 0 .. MaxToken
  /\ refreshable \subseteq 1 .. issued
  /\ state \in [Token -> TokenState]
  /\ file \in Config
  /\ pc \in [Proc -> Points]
  /\ kind \in [Proc -> Commands]
  /\ keyed \in [Proc -> BOOLEAN]
  /\ mem \in [Proc -> Config]
  /\ profile \in [Proc -> Cred \cup {None}]
  /\ header \in [Proc -> Token \cup {Key, None}]
  /\ tries \in [Proc -> 1 .. 2]
  /\ attempt \in [Proc -> 0 .. MaxRetries]
  /\ left \in [Proc -> SUBSET Workspaces]
  /\ grant \in [Proc -> Cred \cup {None}]
  /\ after \in [Proc -> Points]
  /\ listener \in [Proc -> {"idle", "handled"}]
  /\ refused \in [Proc -> Token \cup {Key, None}]
  /\ applied \in [Proc -> Nat]
  /\ stored \in BOOLEAN
  /\ disturbed \in BOOLEAN

-----------------------------------------------------------------------------
(* The platform.  It may or may not rotate the refresh token it honours.  *)

Grants(refresh) ==
  IF issued = MaxToken THEN {}
  ELSE {[access |-> issued + 1, refresh |-> r, dated |-> TRUE] : r \in {refresh, issued + 1}}

\* The service hands out a new access token against `old`, a refresh token or
\* None for an authorization code.
Issue(c, old) ==
  /\ issued' = issued + 1
  /\ refreshable' = IF c.refresh = old THEN refreshable
                    ELSE (refreshable \ {old}) \cup {c.refresh}
  /\ state' = [state EXCEPT ![c.access] = "fresh"]

\* Whether it may take a token, and whether it may refuse it: an API key is
\* good or not, a request without a token is refused.
Takes(token) == token # None /\ (token \in Token => state[token] \in {"fresh", "due"})
Refuses(token) == token \in Token => state[token] \in {"expired", "revoked"}

\* Two processes get in each other's way when one gets a new refresh token while
\* another one runs on the old config.
Others(p) == \E q \in Proc \ {p} : pc[q] # "off"
-----------------------------------------------------------------------------
Goto(p, point) == pc' = [pc EXCEPT ![p] = point]

\* AppConfig.save: the file is emptied, then written.
Save(p, config, point) ==
  /\ mem' = [mem EXCEPT ![p] = config]
  /\ after' = [after EXCEPT ![p] = point]
  /\ Goto(p, "save")

\* _is_token_expired: an undated profile and an API key are never due.
Due(p) == /\ ~keyed[p]
          /\ profile[p] # None
          /\ profile[p].dated
          /\ state[profile[p].access] \in {"due", "expired"}

\* _try_refresh_token, if there is a refresh token, or _initiate_browser_login.
Renew(p) == Goto(p, IF keyed[p] \/ profile[p] = None THEN "browser" ELSE "connect")

\* A process starts: it reads the config once, or the API key.  It may find the
\* file empty, or still the old one, while another process is saving it.
Start(p) ==
  /\ pc[p] = "off"
  /\ \E k \in Runs[p], key \in {FALSE, (p \in WithKey)} :
       /\ kind' = [kind EXCEPT ![p] = k]
       /\ keyed' = [keyed EXCEPT ![p] = key]
       /\ mem' = [mem EXCEPT ![p] = file]
       /\ profile' = [profile EXCEPT ![p] = IF key THEN None ELSE file.profile]
       /\ header' = [header EXCEPT ![p] = IF key THEN Key
                                          ELSE IF file.profile = None THEN None
                                          ELSE file.profile.access]
       /\ Goto(p, IF k = "login" THEN "reconnect" ELSE "send")
  /\ attempt' = [attempt EXCEPT ![p] = 0]
  /\ left' = [left EXCEPT ![p] = Workspaces]
  /\ tries' = [tries EXCEPT ![p] = 1]
  /\ listener' = [listener EXCEPT ![p] = "idle"]
  /\ applied' = [applied EXCEPT ![p] = 0]
  /\ disturbed' = (disturbed \/ \E q \in Proc : pc[q] \in {"save", "write"})
  /\ UNCHANGED <<service, file, grant, after, refused, stored>>

\* OAuthClient(), before a refresh or a login: discovery runs when no deployment
\* is configured yet, and its errors are not among those its callers catch.
\* set_deployment saves the config, and ensure_deployment_configured once more.
Connect(p, from, between, to) ==
  /\ pc[p] = from
  /\ \/ /\ mem[p].deployment
        /\ Goto(p, to)
        /\ UNCHANGED <<mem, after>>
     \/ /\ ~mem[p].deployment
        /\ Save(p, [mem[p] EXCEPT !.deployment = TRUE], between)
     \/ /\ ~mem[p].deployment
        /\ Goto(p, "raise")
        /\ UNCHANGED <<mem, after>>
  /\ UNCHANGED <<service, file, kind, keyed, profile, header, call, task, oauth, stored, disturbed>>

Connected(p, between, to) ==
  /\ pc[p] = between
  /\ Save(p, mem[p], to)
  /\ UNCHANGED <<service, file, kind, keyed, profile, header, call, task, oauth, stored, disturbed>>

\* request(): a token that is due is renewed before the request is sent.
Send(p) ==
  /\ pc[p] = "send"
  /\ IF Due(p) THEN Renew(p) ELSE Goto(p, "api")
  /\ tries' = [tries EXCEPT ![p] = 1]
  /\ refused' = [refused EXCEPT ![p] = None]
  /\ UNCHANGED <<service, file, kind, keyed, mem, profile, header, applied, task, oauth, after,
                 stored, disturbed>>

\* A variant that keeps the refresh token it had.
RefreshKeepsOld(p) ==
  /\ pc[p] = "ask"
  /\ profile[p].refresh \in refreshable
  /\ \E c \in Grants(profile[p].refresh) :
       LET rotated == c.refresh # profile[p].refresh IN
       /\ Issue(c, profile[p].refresh)
       /\ \/ /\ Save(p, [mem[p] EXCEPT !.profile = [c EXCEPT !.refresh = profile[p].refresh]], "store")
             /\ disturbed' = (disturbed \/ (rotated /\ Others(p)))
          \/ /\ Goto(p, "browser")
             /\ disturbed' = (disturbed \/ rotated)
             /\ UNCHANGED <<mem, after>>
  /\ UNCHANGED <<file, kind, keyed, profile, header, call, task, oauth, stored>>

\* refresh_access_token, granted: the answer may be lost on the way.
Refresh(p) ==
  /\ pc[p] = "ask"
  /\ profile[p].refresh \in refreshable
  /\ \E c \in Grants(profile[p].refresh) :
       LET rotated == c.refresh # profile[p].refresh IN
       /\ Issue(c, profile[p].refresh)
       /\ \/ /\ Save(p, [mem[p] EXCEPT !.profile = c], "store")
             /\ disturbed' = (disturbed \/ (rotated /\ Others(p)))
          \/ /\ Goto(p, "browser")
             /\ disturbed' = (disturbed \/ rotated)
             /\ UNCHANGED <<mem, after>>
  /\ UNCHANGED <<file, kind, keyed, profile, header, call, task, oauth, stored>>

\* refresh_access_token, refused by the service or not reaching it.
RefreshFails(p) ==
  /\ pc[p] = "ask"
  /\ Goto(p, "browser")
  /\ UNCHANGED <<service, file, local, stored, disturbed>>

\* A variant that leaves the session's headers as they were.
StoreWithoutHeader(p) ==
  /\ pc[p] = "store"
  /\ profile' = [profile EXCEPT ![p] = mem[p].profile]
  /\ Goto(p, "api")
  /\ UNCHANGED <<service, file, kind, keyed, mem, header, call, task, oauth, after, stored, disturbed>>

\* _try_refresh_token, once the config is saved: the session takes the tokens.
StoreRefreshed(p) ==
  /\ pc[p] = "store"
  /\ profile' = [profile EXCEPT ![p] = mem[p].profile]
  /\ header' = [header EXCEPT ![p] = mem[p].profile.access]
  /\ Goto(p, "api")
  /\ UNCHANGED <<service, file, kind, keyed, mem, call, task, oauth, after, stored, disturbed>>
-----------------------------------------------------------------------------
(* The login in the browser.                                               *)

\* _initiate_browser_login: not with an API key, nor without a terminal.
Browser(p) ==
  /\ pc[p] = "browser"
  /\ Goto(p, IF keyed[p] \/ p \notin Interactive THEN "raise" ELSE "reconnect")
  /\ UNCHANGED <<service, file, local, stored, disturbed>>

\* The token _check_existing_token asks about: the API key or the config's.
Existing(p) == IF keyed[p] THEN Key
               ELSE IF mem[p].profile = None THEN None ELSE mem[p].profile.access

\* auth_code_flow: done at once when the stored token still works; otherwise
\* listen for the callback, if a port is free.
Check(p) ==
  /\ pc[p] = "check"
  /\ \/ /\ Existing(p) # None
        /\ Takes(Existing(p))
        /\ Goto(p, "landed")
     \/ Goto(p, "wait")
     \/ Goto(p, "raise")
  /\ UNCHANGED <<service, file, local, stored, disturbed>>

\* The user comes back from the browser with a code: do_GET processes it.
Callback(p) ==
  /\ pc[p] = "wait"
  /\ Goto(p, "claim")
  /\ UNCHANGED <<service, file, local, stored, disturbed>>

\* The callback carries an error or a code that is no good, or the user
\* interrupts the wait: auth_code_flow raises.
Declined(p) ==
  /\ pc[p] = "wait"
  /\ Goto(p, "raise")
  /\ listener' = [listener EXCEPT ![p] = "idle"]
  /\ UNCHANGED <<service, file, kind, keyed, mem, profile, header, call, task, grant, after,
                 stored, disturbed>>

\* An exception that is not an OAuthError leaves do_GET before it tells the
\* server to stop; the server swallows it and listens on.
Escapes(p) ==
  /\ Goto(p, "wait")
  /\ listener' = [listener EXCEPT ![p] = "handled"]

\* _claim_token: the code is exchanged for tokens, refused, or the exchange breaks.
Claim(p) ==
  /\ pc[p] = "claim"
  /\ \/ \E c \in Grants(issued + 1) :
          /\ Issue(c, None)
          /\ grant' = [grant EXCEPT ![p] = c]
          /\ Goto(p, "userinfo")
          /\ UNCHANGED listener
     \/ /\ Goto(p, "raise")
        /\ listener' = [listener EXCEPT ![p] = "idle"]
        /\ UNCHANGED <<service, grant>>
     \/ /\ Escapes(p)
        /\ UNCHANGED <<service, grant>>
  /\ UNCHANGED <<file, kind, keyed, mem, profile, header, call, task, after, stored, disturbed>>

\* _validate_access_token and _save_token.
UserInfo(p) ==
  /\ pc[p] = "userinfo"
  /\ \/ /\ Save(p, [mem[p] EXCEPT !.profile = grant[p]], "landed")
        /\ listener' = [listener EXCEPT ![p] = "idle"]
        /\ disturbed' = (disturbed \/ Others(p))
     \/ /\ Escapes(p)
        /\ UNCHANGED <<mem, after, disturbed>>
  /\ grant' = [grant EXCEPT ![p] = None]
  /\ UNCHANGED <<service, file, kind, keyed, profile, header, call, task, stored>>

\* A variant that reloads the profile and not the headers.
LandedWithoutHeader(p) ==
  /\ pc[p] = "landed"
  /\ profile' = [profile EXCEPT ![p] = IF keyed[p] THEN @ ELSE mem[p].profile]
  /\ Goto(p, IF kind[p] = "login" THEN "send" ELSE "api")
  /\ kind' = [kind EXCEPT ![p] = IF @ = "login" THEN "sync" ELSE @]
  /\ UNCHANGED <<service, file, keyed, mem, header, call, task, oauth, after, stored, disturbed>>

\* Back in _initiate_browser_login, or in `auth login` before it synchronises:
\* the session is loaded from the config in memory.
Landed(p) ==
  /\ pc[p] = "landed"
  /\ IF keyed[p] THEN UNCHANGED <<profile, header>>
     ELSE /\ profile' = [profile EXCEPT ![p] = mem[p].profile]
          /\ header' = [header EXCEPT ![p] = mem[p].profile.access]
  /\ Goto(p, IF kind[p] = "login" THEN "send" ELSE "api")
  /\ kind' = [kind EXCEPT ![p] = IF @ = "login" THEN "sync" ELSE @]
  /\ UNCHANGED <<service, file, keyed, mem, call, task, oauth, after, stored, disturbed>>
-----------------------------------------------------------------------------
(* The request itself.                                                     *)

Apply(p) == applied' = [applied EXCEPT ![p] = @ + 1]

\* The platform takes the token.  It applies the request and answers, applies
\* it and the answer is lost, or turns it down.
Answer(p) ==
  /\ pc[p] = "api"
  /\ Takes(header[p])
  /\ \E answer \in Answers \ {"401"} :
       \/ answer = "ok" /\ Apply(p) /\ Goto(p, IF kind[p] = "api" THEN "answered" ELSE "listed")
       \/ answer \in {"lost", "timeout", "5xx"} /\ Apply(p) /\ Goto(p, "raise")
       \/ answer # "ok" /\ UNCHANGED applied /\ Goto(p, "raise")
  /\ UNCHANGED <<service, file, kind, keyed, mem, profile, header, tries, refused, task, oauth,
                 after, stored, disturbed>>

\* 401: the first time the session renews the token and asks for a retry; the
\* second time raise_for_status ends the request.
Unauthorized(p) ==
  /\ pc[p] = "api"
  /\ Refuses(header[p])
  /\ IF tries[p] = 1 THEN Renew(p) ELSE Goto(p, "raise")
  /\ tries' = [tries EXCEPT ![p] = 2]
  /\ refused' = [refused EXCEPT ![p] = header[p]]
  /\ UNCHANGED <<service, file, kind, keyed, mem, profile, header, applied, task, oauth, after,
                 stored, disturbed>>

\* _sync: each workspace that came back is added and saved, one by one, those
\* the config has as well.
AddWorkspace(p) ==
  /\ pc[p] = "listed"
  /\ \E w \in left[p] : /\ Save(p, [mem[p] EXCEPT !.ws = @ \cup {w}], "listed")
                        /\ left' = [left EXCEPT ![p] = @ \ {w}]
  /\ UNCHANGED <<service, file, kind, keyed, profile, header, call, attempt, oauth, stored, disturbed>>

\* At last a default workspace is set, which saves again, unless there is one.
SetDefault(p) ==
  /\ pc[p] = "listed"
  /\ left[p] = {}
  /\ \/ Save(p, mem[p], "answered")
     \/ Goto(p, "answered") /\ UNCHANGED <<mem, after>>
  /\ UNCHANGED <<service, file, kind, keyed, profile, header, call, task, oauth, stored, disturbed>>

\* The process is gone, with all it had in memory.
Exit(p) ==
  /\ Goto(p, "off")
  /\ kind' = [kind EXCEPT ![p] = "api"]
  /\ keyed' = [keyed EXCEPT ![p] = FALSE]
  /\ mem' = [mem EXCEPT ![p] = Blank]
  /\ profile' = [profile EXCEPT ![p] = None]
  /\ header' = [header EXCEPT ![p] = None]
  /\ tries' = [tries EXCEPT ![p] = 1]
  /\ refused' = [refused EXCEPT ![p] = None]
  /\ applied' = [applied EXCEPT ![p] = 0]
  /\ attempt' = [attempt EXCEPT ![p] = 0]
  /\ left' = [left EXCEPT ![p] = {}]
  /\ grant' = [grant EXCEPT ![p] = None]
  /\ listener' = [listener EXCEPT ![p] = "idle"]
  /\ after' = [after EXCEPT ![p] = "off"]

\* Variants: every command is tried again; one time too many; without end.
RetryAny(p) ==
  /\ pc[p] = "raise"
  /\ attempt[p] < MaxRetries
  /\ attempt' = [attempt EXCEPT ![p] = @ + 1]
  /\ Goto(p, "send")
  /\ UNCHANGED <<service, file, kind, keyed, mem, profile, header, call, left, oauth, after, stored,
                 disturbed>>

RetryOnceMore(p) ==
  /\ pc[p] = "raise"
  /\ kind[p] = "sync" /\ attempt[p] <= MaxRetries
  /\ attempt' = [attempt EXCEPT ![p] = @ + 1]
  /\ Goto(p, "send")
  /\ UNCHANGED <<service, file, kind, keyed, mem, profile, header, call, left, oauth, after, stored,
                 disturbed>>

RetryForever(p) ==
  /\ pc[p] = "raise"
  /\ kind[p] = "sync" /\ attempt[p] < MaxRetries
  /\ Goto(p, "send")
  /\ UNCHANGED <<service, file, kind, keyed, mem, profile, header, call, task, oauth, after, stored,
                 disturbed>>

\* An exception: _sync is a clitask and is tried again.
RetryTask(p) ==
  /\ pc[p] = "raise"
  /\ kind[p] = "sync" /\ attempt[p] < MaxRetries
  /\ attempt' = [attempt EXCEPT ![p] = @ + 1]
  /\ Goto(p, "send")
  /\ UNCHANGED <<service, file, kind, keyed, mem, profile, header, call, left, oauth, after, stored,
                 disturbed>>

\* Every other command ends.
Raise(p) ==
  /\ pc[p] = "raise"
  /\ ~(kind[p] = "sync" /\ attempt[p] < MaxRetries)
  /\ Exit(p)
  /\ UNCHANGED <<service, file, stored, disturbed>>

Finish(p) ==
  /\ pc[p] = "answered"
  /\ Exit(p)
  /\ UNCHANGED <<service, file, stored, disturbed>>

\* A command that has more to ask of the platform.
Again(p) ==
  /\ pc[p] = "answered"
  /\ kind[p] = "api"
  /\ Goto(p, "send")
  /\ applied' = [applied EXCEPT ![p] = 0]
  /\ UNCHANGED <<service, file, kind, keyed, mem, profile, header, tries, refused, task, oauth,
                 after, stored, disturbed>>

\* AppConfig.save, its two steps.
Truncate(p) ==
  /\ pc[p] = "save"
  /\ file' = Blank
  /\ Goto(p, "write")
  /\ UNCHANGED <<service, local, stored, disturbed>>

Write(p) ==
  /\ pc[p] = "write"
  /\ file' = mem[p]
  /\ stored' = (stored \/ mem[p].profile # None)
  /\ Goto(p, after[p])
  /\ after' = [after EXCEPT ![p] = "off"]
  /\ UNCHANGED <<service, kind, keyed, mem, profile, header, call, task, oauth, disturbed>>
-----------------------------------------------------------------------------
(* What the CLI does not decide.                                           *)

\* A process dies.  It costs the login between a grant and the end of its save.
Crash(p) ==
  /\ pc[p] # "off"
  /\ Exit(p)
  /\ disturbed' = (disturbed \/ pc[p] \in {"save", "write"})
  /\ UNCHANGED <<service, file, stored>>

\* The tokens some process or the config still holds; what becomes of the
\* others shows nowhere.
InUse == {c.access : c \in ({file.profile} \cup {mem[p].profile : p \in Proc}
                             \cup {profile[p] : p \in Proc} \cup {grant[p] : p \in Proc}) \ {None}}

Tick ==
  /\ \E t \in InUse :
       /\ state[t] # "expired"
       /\ state' = [state EXCEPT ![t] = IF @ = "fresh" THEN "due" ELSE "expired"]
  /\ UNCHANGED <<issued, refreshable, file, pc, local, stored, disturbed>>

\* The platform revokes an access token, or a refresh token.
Revoke ==
  /\ \/ \E t \in InUse :
          /\ state[t] \in {"fresh", "due"}
          /\ state' = [state EXCEPT ![t] = IF @ = "fresh" THEN "revoked" ELSE "expired"]
          /\ UNCHANGED <<refreshable, disturbed>>
     \/ \E t \in refreshable :
          /\ refreshable' = refreshable \ {t}
          /\ disturbed' = TRUE
          /\ UNCHANGED state
  /\ UNCHANGED <<issued, file, pc, local, stored>>
-----------------------------------------------------------------------------
Init ==
  /\ issued = 1
  /\ refreshable = {1}
  /\ state = [t \in Token |-> "fresh"]
  /\ file \in {Blank} \cup {[profile |-> [access |-> 1, refresh |-> 1, dated |-> d], ws |-> {},
                             deployment |-> d] : d \in BOOLEAN}
  /\ pc = [p \in Proc |-> "off"]
  /\ kind = [p \in Proc |-> "api"]
  /\ keyed = [p \in Proc |-> FALSE]
  /\ mem = [p \in Proc |-> Blank]
  /\ profile = [p \in Proc |-> None]
  /\ header = [p \in Proc |-> None]
  /\ tries = [p \in Proc |-> 1]
  /\ attempt = [p \in Proc |-> 0]
  /\ left = [p \in Proc |-> {}]
  /\ grant = [p \in Proc |-> None]
  /\ after = [p \in Proc |-> "off"]
  /\ listener = [p \in Proc |-> "idle"]
  /\ refused = [p \in Proc |-> None]
  /\ applied = [p \in Proc |-> 0]
  /\ stored = (file.profile # None)
  /\ disturbed = FALSE

\* What a process does by itself; the user's part in `wait` is not its own.
Step(p) ==
  \/ Connect(p, "connect", "connected", "ask") \/ Connected(p, "connected", "ask")
  \/ Connect(p, "reconnect", "reconnected", "check") \/ Connected(p, "reconnected", "check")
  \/ Send(p) \/ Refresh(p) \/ RefreshFails(p) \/ StoreRefreshed(p)
  \/ Browser(p) \/ Check(p) \/ Claim(p) \/ UserInfo(p) \/ Landed(p)
  \/ Answer(p) \/ Unauthorized(p) \/ AddWorkspace(p) \/ SetDefault(p) \/ RetryTask(p)
  \/ Raise(p) \/ Finish(p)
  \/ Truncate(p) \/ Write(p)

Next ==
  \/ \E p \in Proc : Start(p) \/ Step(p) \/ Callback(p) \/ Declined(p) \/ Again(p) \/ Crash(p)
  \/ Tick
  \/ Revoke

Spec == Init /\ [][Next]_vars
FairSpec == Spec /\ \A p \in Proc : WF_vars(Step(p))
-----------------------------------------------------------------------------
(* Properties.                                                             *)

\* The session of a process carries the token of its profile, and both are what
\* the process would save, but for the tokens just received and not yet in use
\* (_try_refresh_token, _initiate_browser_login and _load_profile each update
\* the three of them).
SessionFollowsConfig ==
  \A p \in Proc :
    /\ keyed[p] => header[p] = Key /\ profile[p] = None
    /\ ~keyed[p] => header[p] = IF profile[p] = None THEN None ELSE profile[p].access
    /\ ~keyed[p] /\ pc[p] \in {"send", "api", "ask", "browser", "listed", "answered"} =>
         profile[p] = mem[p].profile

\* A request that a command makes is applied at most once, whatever is refused,
\* renewed, lost or sent again on its way (APISession.request).
AppliedOnce == \A p \in Proc : kind[p] = "api" => applied[p] <= 1

\* The attempt after a 401 never carries the token that was refused.
RetryCarriesNewToken ==
  \A p \in Proc : pc[p] = "api" /\ tries[p] = 2 => header[p] # refused[p]

\* A stored login stays usable: the config on disk holds a refresh token that the
\* platform honours, unless the platform revokes it, a process dies while it
\* saves, the answer that carries a new one is lost, a process gets a new one
\* while another runs, or one starts while another saves (_update_credentials, save).
LoginIsKept ==
  ~disturbed /\ stored /\ (\A p \in Proc : pc[p] \notin {"save", "write"}) =>
    file.profile # None /\ file.profile.refresh \in refreshable

\* Every request ends, except while the user is expected in the browser.
RequestsEnd == \A p \in Proc : pc[p] = "send" ~> pc[p] \in {"answered", "wait", "off"}

\* core/oauth/server.py:56-58 says that a callback is processed and the server
\* then told to stop, and so the login goes on waiting for none that came.
CallbackStopsServer == \A p \in Proc : pc[p] = "wait" => listener[p] # "handled"
=============================================================================
