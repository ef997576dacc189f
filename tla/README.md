# TLA+ models of plgt-cli

`plgt` is the command-line tool of the Poliglot platform: it resolves a project's
dependencies into a local cache, validates and builds its RDF sources, installs,
publishes and uninstalls packages on the platform, and serves editors as a
language server.  This directory holds TLA+ models of the parts whose behaviour
depends on order, failure and concurrency, the TLC runs that check them on small
instances, and TLAPS proofs for every value of their constants.  `src/plgt` is
abbreviated to `plgt` below.

1. [Inventory](#1-inventory)
2. [The models](#2-the-models)
3. [The runs](#3-the-runs)
4. [What the runs found](#4-what-the-runs-found)
5. [The proofs](#5-the-proofs)
6. [Abstractions and omissions](#6-abstractions-and-omissions)
7. [Plan](#7-plan)

## 1. Inventory

| Component | State it keeps | Operations | What is hard | What makes it correct |
|---|---|---|---|---|
| **Dependency resolver** (`services/deps_install_service.py`, `services/deps_lockfile.py`, `cmd/lifecycle.py` `sync`/`add`/`remove`) | `poliglot.yml`, one lockfile and one cache subtree per mode, the resolver's pins and `_resolved` | `sync`, `sync --update`, `add`, `add --no-sync`, `remove`, `remove --no-sync` | a run may die between any two file operations; the registry, the workspace and the user's edits move; cycles; one package of several fails | what the lockfile names is whole in the cache, in range, pinned, and rooted in the declarations; a marker vouches for its directory |
| **Sessions, tokens and config** (`core/sessions.py`, `core/oauth/`, `core/_config.py`, `core/discovery.py`, `core/decorators.py`, `cmd/auth.py`) | the config file, one copy of it in each process, the session's profile and headers | request, refresh, browser login, callback, `auth login`, `auth sync`, save | processes share one file with no lock; tokens rotate, expire, are revoked; a retry around a retry; a callback handled inside an HTTP server | the header follows the profile and the config; nothing is applied twice; the login on disk stays usable; every request ends |
| **Install, uninstall, monitor** (`services/install_service.py`, `services/command_monitor.py`, `clients/lifecycle_command_client.py`, `cmd/lifecycle.py`) | none on disk; the command followed, its status, its events | local install, registry install, uninstall, attach on 409, poll, time out | several runs race for one package; the version is resolved before it is requested; answers get lost; the command may hang | one command per run, the version that was checked is the one installed, success is real, every event is shown, every run ends |
| **Language server** (`services/lsp_server.py`) | which project a document is in, a kept result per project, the published diagnostics, one pending task for one URI | open, save, hover, definition, completion, refresh | one debounce for all projects; a timer that has elapsed when a message cancels it; folders nested in one another that become projects; a validation that raises, and diagnostics that do after the result is kept | squiggles are of one content, and of the kept result's unless publishing it raised; the last file touched is validated; the server comes to rest |
| **Validation** (`services/validation_pipeline.py`, `cmd/validate.py`) | none; reads the sources, the lockfile and the cache | the phases of `validate_project` | which phase stops or skips the others; its file discovery is not the build's | clean means that all that ships was looked at and builds; mending what is reported comes to an end |
| **Build and archive** (`services/build_service.py`, `archive_service.py`, `rdf_operations.py`, `ui_build_service.py`) | each matrix's output directory, `.matrix/package.tgz` | validate, UI components, bundle, package | leftovers of failed and killed runs; edits under a run; output directories shared by matrices | an archive is made of its own matrices' present files |
| **Publish** (`cmd/publish.py`, `clients/publish_client.py`) | none | publish, dry run, yank, unyank | a lost answer to an upload, a rival, a token that expires | success means this archive, a conflict another one |
| **Version ranges** (`utils/version_range.py`) | none | parse, match, the range `add` records | missing minors, swapped or empty bounds | a range is an interval; the recorded one keeps to the major |
| **Bindings** (`services/bindings.py`) | none | discover declarations, resolve flags, prompt, encrypt | three notations, ambiguous names, files that do not parse, a terminal read byte by byte | each value reaches the declaration it was given for; nothing required is passed over in silence |
| **Scripts** (`services/script_expander.py`) | none | put a matrix's prefixes in front of a script | text that looks like a declaration, a name or a comment and is none, and names the pattern misses | names keep their meaning |
| **Edits of a workspace** (`cmd/variables.py`, `secrets.py`, `extensions.py` and their clients) | none | set, clear, create, update, delete, auto-update | looked up first and changed later; answers get lost | what a command tells is what it did |
| Formatter, schema and namespaces, migration and templates, entry point | none, or files written once | text layout, single API calls, generation | - | - |

How they interact.  Every command that talks to the platform does so through
`APISession.request`, whose outcomes (`Session.tla`) are the inputs of the
clients.  `install` builds locally or reads declarations from the registry
(`Bindings`), asks the platform for a *lifecycle command* and follows it
(`Install`).  `publish` is `build` and an upload, and `build` validates first
unless it is told not to.  `validate`, `build` and the language server read the
lockfile and the cache that the resolver writes; there is no lock between them.

The hazards, each with its line and the properties that would show it going
wrong, are in `PROJECT.json`.

## 2. The models

### DepsSync - `sync`, `add`, `remove`

One project in one mode (registry-resolve or workspace-sync), one command at a
time, any number in a row.  `pc` is the program point of the running command:
`load` (read `poliglot.yml`, the lockfile, the installed list), `pick` (choose a
version for the edge at the head of `todo`), `materialize` / `clear` / `fetch` /
`extract` (the cache directory, file by file, marker last), `save` and `drop` (the
commands' own writes of `poliglot.yml`).  `todo` is the resolver's call stack as
a sequence of edges; the recursion of `_resolve_package` becomes prepending a
package's edges.  `Crash` ends a run at any point of `CrashPoints`; a `poliglot.yml` that
is being written is left empty, and of a lockfile a part (`CutLock`): one that does
not load, or the entries so far, the last of them without its last lines (`Losses`),
which loads as a shorter lockfile.  `whole` remembers whether the lockfile was written
to its end.  `World` is everything else: releases published or
republished, the workspace's packages, hand edits, a deleted lockfile, a cleaned
cache.

A checksum is a content number; a range is the set of versions it accepts; an
archive is a marker, the package's `poliglot.yml` and one body file, enough for
a directory to be empty, partial, complete, or complete but unmarked.  `Fitting` are
the releases the registry lists for the project's engine range; which of them is newest
is the order of its answer, which the code takes as it comes.

`LockContract` is the abstract specification: a lockfile is absent, torn, or a
snapshot closed under the dependencies of the packages it locks, every transitive
entry labelled by a locked package that needs it; it is replaced as a whole, torn
or deleted.  DepsSync instantiates it, `Contract == INSTANCE LockContract WITH ...`,
with its lockfile, contents and manifests in the places of the contract's, and
`KeepsContract == Contract!Spec` states that it implements it.  A lockfile cut short promises
nothing and stands for a torn one there (`Promised`), although the code may load it.  `DepsSyncInv` is the
inductive invariant; `DepsSync_proofs` proves what it says of the disk and
`Lockfile_proofs` the rest and the properties of the lockfile.

### Session, Auth - requests, tokens, the config file

`Session` has what a request's answer becomes: which exception on the first
attempt, and that on the attempt after a refresh it is always a raw error of
`requests`.  `Auth` models processes that each hold a copy (`mem`) of the config,
a session (`profile`, `header`) and a position in `request`, in
`_try_refresh_token`, in `_initiate_browser_login`, or in `_sync`'s retry loop.
`save` is two steps, `Truncate` and `Write`, and discovery does it twice (`Connect`,
`Connected`); a sync saves for every workspace on the list (`left`), whether or not the
config has it, and for the default (`SetDefault`).  The token service numbers tokens,
may rotate the refresh token or not, and the clock and the platform age and
revoke them.  The user may or may not come back from the browser.  `AuthInv` is the
inductive invariant.

### Install - installing, attaching, following

Each client is a process that runs one command: `Run`, `Resolve`, `Declare`, the
request (`Created`, `Conflict`, `Unauthorized`, `Rejected`), then `Poll` and
`Events` in a loop, then `Report`.  `commands` is the platform's list of
lifecycle commands, at most one of them active; the platform starts them, emits
events and ends them whenever it likes.  `made`, `guessed` are
history.  `InstallInv` is the inductive invariant.

### LspServer - the language server

One event loop, so one step is one handler: `OnInitialized`, `OnOpen`, `OnSave`,
`OnHover` (definition and completion take the same path) each take the first message
of `inbox`.  `task` is the debounced task: sleeping, `due` once its timer elapsed
(`Elapse`), run by `Fire`; an open or save cancels it in either state and starts
another (`Schedule`), for the file of that message only.  `RefreshFor` is
`_refresh_validation_for_uri`: the nearest `poliglot.yml` above the file, or the
workspace folder's; `Refresh` keeps the result (`cached`), and then makes the diagnostics and
publishes and clears (`Publish`).  A validation that raises leaves all as it was
(`Breaks`); a finding on a file that is not UTF-8 raises when the result is kept and
nothing is published yet (`Unreadable`).  `Raises` says which contents do either, and a hover
that causes such a refresh fails.  `SaveFile`, `OpenFile`, `Ask` and `MoveYml` are the
editor and the disk.  A content of a project is a number; what it has diagnostics
on, whether it assembles, has a lockfile, and raises at one point or the other are tables.

### Validation, Authoring, Build - what is clean builds

`Validation` is `validate_project` as a function from a project on disk to findings,
one operator per phase, in the order and with the early returns of the code.
A file is what the phases can tell of it: faults, imports, packages used, whether it
declares its matrix, its format, its scripts.  `Build` is what the build makes of the
same project: discovery by all patterns and formats, a bundle per matrix, the archive.
`Authoring` is the loop around them: `Run` validates, `Mend` does what one of the
findings asks for.

### Release - build and publish on a disk

One checkout: `Start` reads the configuration, `Gate` is the validation before a
build, then per matrix `BuildUi` and `MakeBundle`, then `MakeArchive`, `Identify` and
`Upload`.  `bundles`, `parts` and `package` are the output directories and the package on
disk, which commands find as earlier ones left them.  `Edit` and `Bump` are the author's, at
any moment; `Kill` ends a command and tears the archive being written, and so may an error of
`MakeArchive`, which ends the command as failed; `Expire` makes the
platform refuse the token; `Rival` publishes from another checkout of the same
sources; any upload's answer may be lost.  `cmd.made` is history: what this command archived.

### Bindings, MaskedInput, Scripts, Ranges, WorkspaceEdits

`Bindings` is a run of `collect_bindings` and its callers up to the request: `Discover`,
`Flag` after flag, `Ask` for each required value that is missing, `Seal` each secret under a
key of its own, send.  `MaskedInput` reads a secret key by key, one step per key of
`_masked_input`, and compares the value with what a reader of the same keys would
take them to mean.  `Scripts` and `Ranges` are pure: the initial states enumerate
inputs, and the properties compare the code's algorithm with a definition of its
own (what SPARQL scoping makes of a name; an interval of releases).  A token of a script is a
declaration, a use or an IRI; `Seen` and `Labels` are what the two patterns read of it, which may
be another label or none: of `c.b:x` the `b`, of `a:1x`, `a:` or `a:%41` nothing, of `<a:x>` an `a`.
Which local names are read is a field of the token (`local`).  `WorkspaceEdits` is
one command after another, each with its lookup, confirmation, key and request, while
others change the same items and answers are lost.

### Tools, MC_Project

The parts from LspServer on work on one project or one terminal and share no state.
`Tools` holds an instance of each, and `tool` says which one a behaviour exercises,
while the variables of the others stay as they are: a sum of the models, not a product.
The properties keep the names they have in their modules.  `MC_Project` is the small
instance of `Tools` that TLC checks, `Tools_proofs` the proofs about all of them.

## 3. The runs

The bounds are small, and chosen so that each case happens; the numbers are
those of `MC_*.tla` and the `.cfg` files.

| Run | Shows | Bounds |
|---|---|---|
| `deps_plain` | `IInv`, pins and checksums across plain syncs that die anywhere | engine + 2 packages, a dependency cycle, 2 versions each, one release republished, 3 hand-written configs; at most one directory half unpacked (`FewPartial`); a lockfile cut short may lose the origin, `via`, root or checksum of its last entry (elsewhere whole entries only) |
| `deps_update` | markers, what a run resolved, the lockfile against the cache, ranges, the refinement of `LockContract` | the same, with `sync --update`; no death inside `rmtree` (that is `deps_doc_torn`) |
| `deps_edit` | the refinement and the roots under `add`/`remove`; the range `add` records | an empty project, both commands with and without `--no-sync`, deaths in the writes of `poliglot.yml` |
| `deps_workspace` | `WorkspaceLocks` (a pin or workspace version is kept to, a range met) while the workspace moves; every command ends | workspace-sync mode, one content per release, deaths while picking |
| `auth_requests` | `IInv`; the session follows the config, at most one application, the retry's token, the login on disk, every request ends | 2 processes (a `login` at a terminal, a command without one and possibly with an API key), 2 tokens, 1 retry (the code's 2 differ only in number), 1 workspace; once the login is lost, what runs ends (`UntilDisturbed`) |
| `install_runs` | `IInv`; one command per run, bound = installed, success, events, every run ends | 2 clients, 3 kinds of request, 2 versions, 2 commands, 1 event each; version 1 stays published |
| `project_tools` | the parts of `Tools`, each by its own properties, listed below | below |
| `deps_doc_*`, `auth_doc_callback`, `install_doc_conflict` | see section 4 | as the run they belong to |

`project_tools`, part by part:

| Part | Properties | Bounds |
|---|---|---|
| LspServer | `SquigglesMatchResult`, `LastIsCurrent`, `ServerSettles` | folders `w`, `w/a`, `w/b`, a document in each, 3 contents of each project (with other diagnostics, with no graph and with and without a lockfile, with a validation that raises, with a finding on a file that is not UTF-8), 3 messages, one `poliglot.yml` that appears or vanishes |
| Authoring | `CleanMeansChecked`, `CleanBuilds`, `FixesConverge` | two packages, two matrices, every project with any two of 38 things wrong (each fault, each state of config, lock, cache, directories, patterns) |
| Release | `ArchiveIsOwn`, `PublishedIsBuilt`, `ConflictIsReal`, `CommandsEnd` | 5 drafts of two matrices (sound, warned of, unknown term, unparsable, one output directory for both), 2 versions, 1 edit, 2 commands |
| Bindings | `BindingsHold` | two files with a namespace each, any list of up to two of 9 flags, with and without a terminal, from the registry or local, one file that does not parse |
| MaskedInput | `SecretIsAsTyped` | 14 kinds of key, up to 5 before the value is submitted |
| Scripts | `InlinedResolves` | the prefixes `a`, `b`, the empty one and `c.b`, 18 tokens (declarations in code and in a comment, with an IRI or an empty one, uses read and not read, `<a:x>`), up to 3 of them |
| Ranges | `RangesHold` | numbers 0..2, up to three bounds, well and ill formed |
| WorkspaceEdits | `ToldIsDone` | 9 items, 22 requests, 2 commands, 1 change by others |

Two folders in one another are what nesting takes, with a third beside; two things wrong
what it takes for one to hide the other; two commands what it takes for one to
find another's leftovers or to repeat a lost upload; five keys are a paste
with a CRLF in it, closed and submitted.

Two packages and two versions are the fewest for a cycle, a transitive that turns
root, and two ranges that pull apart; two processes or clients the fewest that
race; two tokens the fewest for a rotation, two lifecycle commands for a conflict
followed by a request of one's own.

Fairness.  `DepsSync!FairSpec`, `Auth!FairSpec` and `Install!FairSpec` take the
steps of a running process to be weakly fair: the operating system schedules it
and each of its exchanges ends, in an answer or an error.  No request has a
timeout in the code, so a platform that accepts a connection and stays silent
falls outside.  In Install time passes as well (`Late`), which is what bounds the
monitor.  In `Tools` three sets of steps are weakly fair: the language server's
(`LspServes`: the editor delivers what it sent, the event loop runs what is ready), the
author's (`Authors`: they go on mending) and those of a command that has begun
(`Advances`: the UI tool is given 60 seconds by the code, the platform is taken to answer or
to break the connection).  `ServerSettles` asks in addition that the author pauses: a save every
half second cancels the task for ever.  Nothing is assumed of the user (`RequestsEnd` excludes the wait for the
browser), of the registry, or of the platform finishing a command.

`CHECK_DEADLOCK FALSE` is there because the system stops: `MaxBuild`,
`MaxCommands` or `MaxToken` is used up and every process is done; in `project_tools` a
value is read, a request sent, the messages, runs, edits and keys of the bounds are used up.

Every property has a *mutant*: a variant of one action (`...Again`, `...Any`,
`...Without...`), in the same module, under which TLC finds the property violated.

## 4. What the runs found

* `deps_doc_torn` - `sync --update` deletes a marked directory with `rmtree`; if it
  dies there the marker can outlive other files, and a later plain sync takes the
  directory for an installed package.
* `deps_doc_republish` - a comment promises that a republished version is caught
  against the prior lockfile; the cached fast path never compares, so an update
  that fails halfway lets the next plain sync lock the new content silently.
* `deps_doc_transitives` - dependencies are read from `poliglot.yml` in the unpacked
  archive, but published archives carry `manifest.json` only.
* `auth_doc_callback` - an exception other than `OAuthError` in the callback handler
  leaves the login waiting for a second callback.
* `install_doc_conflict` - a 409 that arrives on the attempt after a token refresh
  is not turned into a `ConflictError`, so an install that would attach fails.

Noticed on the way, and modelled as the code has it.  The first four differ from what a docstring
or a comment says; no run is kept for them:

* `services/deps_lockfile.py:122-124` promises that a malformed lockfile is a hard error; one that
  was cut short while it was dumped (145) may load, as a lockfile with fewer pins, and the next
  plain sync goes on from it (`CutLock`; the `deps_*` properties speak of lockfiles written whole).
* `services/lsp_server.py:527` promises a "safe fallback" for the length of a diagnostic's token;
  it is there for `OSError` only (537), so a finding on a file that is not UTF-8 ends the refresh
  after its result is kept (366) and before anything is published: hovers come from the new
  content, the squiggles are those of the old one (`Raises`, `Refresh`).
* `services/script_expander.py:71-73` says that a local name may start with a digit; the pattern
  (82) does not match one, and the prefix is not put in front of the script (`Labels`).
* `services/script_expander.py:15-16` has the prefixes "actually used" put in front, and 129-130
  says IRIs hold no names; an absolute IRI `<urn:x>` is read as one (`Labels`).
* `plgt install` of a local build exits 0 when its command failed, timed out or
  could not be requested; the registry path exits 1.  `uninstall` exits 0 on a
  timeout and on an error of the monitor.
* A 403 or 4xx to the validation report of a command that completed turns the
  install into a failed one.
* The 409's command type is not read: an install may attach to an uninstall.
* `add --no-sync` takes an empty `poliglot.yml` for an empty mapping.
* A package first met as a transitive and then as a root loses its origin.
* `remove` does not prune the cache; `add` of a declared package with another
  range resolves with the declared one; a dependency entry on `poliglot/os`
  overwrites the engine's pin.
* Two processes that overlap around a rotation of the refresh token lose the login:
  each saves the config it read at its start.

Language server:

* Hovers between a save and its refresh are answered from the graph of before, though
  the note at `services/lsp_server.py:17-19` has saves invalidate it.
* With several projects only the last file touched is refreshed (said at lines 80-82).

Validation:

* A broken `script://` reference (E0800) returns at once and hides what later matrices have.
* Only the first existing `spec` pattern of a matrix, and only `*.ttl`, is validated, while the
  build ships all patterns and all formats.  `AllRead` is the premise this costs.
* Without a matrix declaration E0301, E0302 and the shapes are skipped without a word; without a
  cache directory the imports are.
* A missing matrix directory is a warning; the build raises.  The completeness marker of a cached
  package is not looked at.
* Validation and build look for scripts from different directories.
* `plgt validate` documents exit code 2 and exits 1.

Build and publish:

* Two matrices with one output directory overwrite each other's bundle.
* A UI build that fails says so and no more: what `dist` and `generated` hold from earlier is shipped.
* The upload's retry after a refresh sends the same open file, by then at its end.
* `rdflib` may order anonymous siblings differently from one run to the next, so that a
  repeated publish of the same sources is a conflict.

Bindings and edits:

* The masked reader drops bytes that are not printable as latin-1, so parts of some multi-byte
  characters; a backspace takes one byte; a paste marker torn by a pause is typed text.
* Files that do not parse are passed over in silence by discovery, and what they
  require is not asked for.  The first file that binds a prefix wins.
* A name that a variable and a secret share cannot be given by itself.
* The lookup of a variable by QName ignores the prefix.  Creating an extension is
  not idempotent, so a lost answer leaves one that a second try runs into.

## 5. The proofs

Eight modules of proofs follow one pattern: an inductive invariant (for DepsSync, Auth and
Install in a module that TLC checks it from as well), a lemma for the initial states, a lemma
for each action, `Spec => []IInv`, and each property as a consequence.  They hold for all values
of the constants that satisfy the assumptions named in the modules, which TLC evaluates on the
small instances.  Those say that bounds are natural numbers, that `None` and `Key` are not
mistaken for data, which shape a registry has (DepsSync), that projects, drafts, flags, scripts
and ranges are of the shape the models give them, that drafts are of one package (Release), and
that what a registry serves parses (Bindings).  Two are hypotheses of theorems instead, since
TLC cannot evaluate them or need not: `None` and `Torn` are no bundles (`MarksAssumption`, in
`Release_proofs`), and packages and workspaces are finitely many (in `CommandsDescend` and
`ProcessesEnd`).

Every invariant and every action property that a run checks is a theorem.  So is, for each
liveness property, the part of it that owes nothing to fairness: each component has a measure of
what is left to do ("what is left" below), in an order without infinite descent, which every
step of what has to end lowers, but for exceptions that are named there and are the code's.

### The dependency resolver

`DepsSync_proofs` proves, for every registry, project, mode, set of commands and set of crash
points:

* `DiskInvariant`: `Spec => []DiskInv`, and `TypeCorrect` from it;
* `MarkersAreSound`: a marker stands for a completely unpacked package, when no forced run can
  die inside `rmtree`;
* `RunsInstall`: what a run has resolved is whole in the cache, with the checksum it will lock,
  until the run ends;
* `LocksInstalled`: every lockfile written names packages that are whole in the cache with the
  checksum it records (an action property);
* `CommandsDescend`: a command that runs comes nearer its end with each step (`RunsDescend`).

None of these is inductive.  `DiskInv` adds to them: that whatever is chosen, pinned, installed
or locked is a published release (`Located`), so that `Contents` and `Manifest` are defined
where they are used; that the engine is first on the stack and the only edge with that role
(`EngineFirst`); that the package being unpacked is one this run has not recorded
(`CurrentIsNew`), without which unpacking could destroy a recorded directory; and how far the
directory in hand is from empty and from complete (`DirectoryOK`), which is what makes the
marker, written last, true.  The proof has a lemma for each action and conjunct group (`...Base`
for `BaseInv`), `DirectoryStep`, `MarkerStep`, `InstalledStep`, and joins them in `StepInv`.

What is left of a command (`Distance`) is, in lexicographic order, the part of the command, the
packages not recorded, the edges on `todo`, the point with the package in hand and the files
still to delete or to unpack.  Recording a package may put any number of edges on `todo`, and a
package that depends on one of them in a cycle is met again, but a recorded package is not
recorded twice and an edge to one is only dropped.  Packages are finitely many
(`IsFiniteSet(Coord)`).

### Sessions and tokens

`Auth_proofs` proves, for any number of processes, tokens, workspaces and retries, and whatever
commands they run:

* `Invariant` and `TypeCorrect`;
* `SessionIsCurrent`: the headers carry the token of the profile, and both are what the process
  would save, but for tokens just received;
* `RequestsApplyOnce`: what a command requests is applied at most once;
* `RetriesAreRenewed`: the attempt after a 401 never carries the refused token;
* `LoginStays`: a login that was stored stays one the platform honours, until one of the events
  that may lose it (`disturbed`: a rotation while another runs, one whose answer is lost, a
  start or a death in a save, a revocation);
* `ProcessesEnd`: a process comes nearer its end with each step (`ProcessesDescend`), unless it
  starts another request (`Again`) or its callback broke and it waits for another.

`RetryCarriesNewToken` needs the most: that a refused token stays dead (the platform revives
none), that a token in anyone's hands was issued (`KnownOK`), so that the next one issued
differs from it, and that what is saved or claimed on the way back to the request is another
token than the refused one (`RetryOK`).  `GrantOK` says that the refresh path is entered with a
refresh token only and that what a grant returned is in the config when the session reads it
there.  `At(p, x)` lets these survive the two steps of a save.  A step changes one process, so
`OneProc` reduces the invariant to that process (`ProcOK(p)'`), and `Frame` says that the others
keep theirs because no step revives a token or takes one back (`GlobalsKept`).

`LoginIsKept` has an invariant of its own beside these, `LoginInv`: in a run that nothing
disturbed, whoever runs has a login that is honoured in memory (`LoginOK`), so that each save
puts one on the disk.  The first login is the delicate one: until it is saved none is stored,
and then its process runs alone.

What is left of a process is, in lexicographic order, whether its login is still to be followed
by a sync, the attempts left, how often the request may still be sent, the workspaces not yet added and
the way to go (`Way`, and twice the file at each save).  A 401 sends it back to the start of the
way, once per attempt, and an exception does, once per attempt that is left.  The exceptions are
the code's: a callback that fails with anything but an `OAuthError` leaves the server listening
(`BackToWait`), and the user may then come back as often as they like.

### Installs

`Install_proofs` proves, for any clients, versions, requests, commands and events:

* `Invariant` and `TypeCorrect`;
* `RunsStartOneCommand`, `InstallsWhatWasBound`, `SuccessesAreReal`, `EventsAreComplete`;
* `RunsComeNearer`: a run comes nearer its end with each step (`RunsDescend`), but for a turn of
  the monitor while there is time.

`IInv` adds to the properties what a run knows at each point: that nothing was made for it
before its request is answered (`NotMade`), that a registry request carries the version that was
resolved (`Pinned`, `Carried`), that the command it follows exists and has the version it
reports (`Following`), and that a terminal status it has read is still the command's (`Read`),
which is why the events read after it are all of them.  `Frame` and `OneRun` play the parts of
`Frame` and `OneProc` above; what the other clients and the platform may do to a command that
has ended is nothing (`CommandsKept`).

What is left of a run (`Remaining`) counts the points before it and the request that may be sent
again.  The monitor's loop has no bound of its own: it goes on until the command ends or its
time is over, so it is the clock (`Late`) that lowers what is left there, and from then on each
of its steps does.

### The lockfile

`Lockfile_proofs` extends `DepsSync_proofs` and proves, for the same constants:

* `ContractIsKept`: `Spec => KeepsContract`, the refinement of `LockContract`, when no forced
  run can die inside `rmtree` (`MarkersTrusted`), which `deps_doc_torn` shows is needed;
* `Invariant`: `Spec => []IInv`, the whole inductive invariant;
* `RootsDeclared`, `RangesMet`, `PinsKept`, `WorkspaceKept`, `ChecksumsKept`, `AddedRange`: each
  of the properties of the lockfiles that are written, `RootsAreDeclared`, `RangesAreMet`,
  `PinsAreKept`, `WorkspaceLocks`, `ChecksumsAreKept`, `AddedRangeHolds`.

For the refinement, every step that leaves the lockfile alone is a stutter; `Crash` in the save
tears it or cuts it short, `World` deletes it, and the save replaces it.  That the replacement is a snapshot
takes an invariant of the walk, `Walk`: whatever the packages recorded so far need is recorded
or on `todo` (`Walked`, `Planned`), and the edges on `todo` and the entries recorded name a
recorded package that needs them (`Labels`).  At the save `todo` is empty, so the record is
closed.  `DiskInv` is used for what is recorded being the content in the cache, so that what it
needs is what its `poliglot.yml` said.

The other properties speak of the end of a walk as well, and need the same kind of invariant:
what is true of the record at the save is true, half way, of the record and `todo` together.  A
range asked by the project (`ProjectMet`) or by a recorded package (`AllMet`) is met by what is
recorded or waits on `todo`; a declared package is a root or waits to become one (`RootsOK`).
For pins, the hard case is a package that is picked before all that ask for it are known.
`PendingIsAsked` says that nobody is on `todo` without a reason that will be in the lockfile, so
a pin that was abandoned was out of a range that is asked in the end (`PinsStay`).  Checksums
need that an archive unpacked for a pin has the pinned content (`ArchiveMatches`) and that,
without `--update`, what is unpacked of a locked version is what is locked (`CacheMatches`); two
properties need that the lockfile `add` wrote is what it resolved while it saves `poliglot.yml`
(`JustLocked`).  What a package asks is read in the cache, so `Walk`, `AllMet` and `PinsStay`
(`AskInv`) hold only where markers can be trusted, the rest (`RunInv`) everywhere.
`ResolverStep` goes through the actions of the resolver for all of these, `WalkStep` for `Walk`,
and `StepIInv` joins them.

### The language server

`LspServer_proofs` proves, however folders lie in one another and projects come and go:

* `Invariant` and `TypeCorrect`;
* `SquigglesAreCurrent`: what is shown of a project is what one of its contents has, as a whole,
  and the content of its kept result unless making that one's diagnostics raised;
* `LastWins`: at rest the last file touched has been validated with what is on disk;
* `ServerComesToRest`: whatever the server does leaves it less to do, and only a message gives
  it more (`ServerDescends`).

Squiggles needs that projects report on their own files only (`LspScopeAssumption`), or one's
refresh would clear another's.  `LastIsCurrent` speaks of rest; the invariant behind it,
`Current`, says what holds before: a task that waits is for the last file, and with none waiting
and no save left in the inbox that file's project is as it is on disk.

What is left for the server (`Backlog`) is three for each message and up to two for the task it
may set; nothing is left exactly at rest, and a refresh that raises counts as done.

### Build and publish

`Release_proofs` proves, for any drafts of one package and any number of commands and edits:

* `ReleaseInvariant`;
* `ArchivesAreOwn`: an undisturbed command's archive is made of its own matrices' files, as they
  are;
* `PublishedAreBuilt`: what a successful publish built is what the registry has;
* `ConflictsAreReal`: a conflict is reported only if the registry has other content under the
  version;
* `CommandsRunOut`: each step of a command leaves it less to do (`CommandsDescend`).

`ArchivesAreOwn` needs `Progress`: the bundles of the matrices an undisturbed command has passed
are its own, and when a bundle is made the components of that matrix are fresh if the UI tool
worked, so that leftovers are overwritten before they are read.  `PublishedAreBuilt` needs
`Built`: at the upload the package on disk is the one this command made; and that no version,
once published, is replaced.

`ConflictsAreReal` compares the archive at hand with one that somebody else made, so it needs an
invariant about every archive there is: those in the registry (`ArchivesInv`) and the bundles of
the command at work (`AtConflict`) are each made of the files of some draft, with a stamp that
is the same for all, in an order the serializer may give them.  Without anonymous siblings there
is one such order, so archives of the same sources are equal, and the registry takes an equal
one.

What is left of a command (`Remaining`) is two steps for each matrix it has not passed and those
after the last.  The count rests on the draft it started with: an edit may change what is read
at each step, but drafts of one package have the same number of matrices (`SameNumber`).

### Validation

`Authoring_proofs` proves, for any package with any number of matrices, patterns and files, and
anything wrong with them:

* `AuthoringInvariant`: what the last run told is what `Validate` has to tell of the project as
  it stands;
* `CleanIsTrue`: a clean run has looked at all that a build ships, and what it looked at builds;
* `MendingHelps`: mending an error that a run reports takes something away that is amiss and
  brings nothing new (`MendsHelp`).

The invariant is small; the work is in one state.  `Validate` is a composition of phases, each
with early returns, and a clean result says that no phase ended the run and that none found an
error.  The lemmas go through the phases backwards: without a halting finding every matrix was
reached, so every fault a phase knows would have been reported in some file it parsed
(`CleanIsChecked`), and what the build needs to start and finish a matrix is the absence of such
faults (`CleanPromises`).  Both need that validation reads what the build reads, the premise
`AllRead`, among others that the engine's package is in the lockfile.  A prefix is checked
against those its matrix declares, so where nothing declares a matrix a wrong prefix is not
among the faults (`FaultyIn`).

For `MendingHelps` the phases are gone through once more, the other way round: every error of
every phase is about a fault of that code in a file it points at (`ByFault`), a package that
such a file wants and that is not both locked and cached (`ByPackage`), or the want of a
configuration or a lockfile (`ErrorsHaveCauses`).  An error without such a cause would come back
whatever its author does.  Then rewriting removes that fault and adds none (`RewrittenMends`),
and a sync puts that package in place and removes none (`SyncedTightens`).  What is amiss is a
finite set for a finite project.

### Tools

`Tools_proofs` proves the properties of the parts as the run `project_tools` states them, for
the sum of the parts: `ArchivesAreOwn`, `PublishedAreBuilt`, `ConflictsAreReal`,
`CleanChecksAll`, `CleanDoesBuild`, `SquigglesStayCurrent` and `LastStaysCurrent` from the
modules above, since every step of the sum is a step or a stutter of each part (`PartSteps`);
and by themselves

* `RangesAreSound`: a range that parses admits an interval of versions, its lower bound among
  them, whatever order its bounds are written in, and the one `add` records admits the version,
  what is later in its major, and no other;
* `InlinedNamesResolve`: whatever the patterns read or miss, a name of a script with its
  declarations in front means what it meant, or else what the table says or nothing, and doing it
  again changes no meaning; a name that the patterns read, and that nothing looks like a
  declaration of, means what the table says;
* `BindingsAreComplete`: a request that is sent is complete, and a flag that cannot be honoured
  costs nothing;
* `TellsWhatItDid`: a command that edits the workspace did what it tells;
* `SecretsAreAsTyped`: what is stored as a secret is what was typed and pasted, however many
  keys that took.

Ranges and scripts are inputs, so their theorems are about all the values of the operators:
`Below` orders versions, each bound cuts that order once; the last declaration before a name
gives its meaning, and putting one in front adds an earlier one (`FrontMeans`).  `BindingsInv`
says at each point of a run what it has: every flag taken has its value at a declaration it
alone can mean (`FlagsMeant`, where `ResolvesToMeant` is the heart), no URI is bound twice
(`BoundOnce`), nothing required is missing without a warning once the prompts are over
(`AllThere`), and each secret encrypted has a key of its own (`SealedOnce`).  `EditsInv` says
that items have an identity each, under which names are never exchanged while a command holds a
listing (`KeepsName`), so that what was resolved in the listing (`Resolved`) still is what it
was when the change arrives, although others set, remove and redeclare items in between.

The reader of secrets keeps bytes, while what was meant is said of keys.  `ReaderInv` relates
the two: the reader's flags are what the keys so far make of them (`Remembers`: inside a paste,
after a CR), and, for each character that stands, the characters after it less the backspaces
after it are as many as stand after it (`KeepsStanding`).  So a backspace takes away the last
character that stands and no other, the standing characters have their first bytes where the
kept characters begin (`Lists`, in the same order), and the value, which both sides list by rank
(`Ranked`), is the same.  That holds for characters of several bytes, backspaces on an empty
value and line ends inside a paste.

### Only model-checked

Liveness (`CommandsEnd`, `RequestsEnd`, `RunsEnd`, `ServerSettles`, `FixesConverge`).  The
theorems above say that what has to end cannot go on forever in steps of its own.  What remains
is that it does not stop short of its end: that at each point before it some step is possible,
which is about `ENABLED`, and that a possible step is taken, which is the fairness.  Both are
out of the proof system's reach, and stay with TLC. So does what the measures leave open: that
the monitor of an install runs out of time, and that a request ends or waits for its user
although other processes share the file.

## 6. Abstractions and omissions

DepsSync: the resolver's dead paths (`resolve_root_dep`'s fast path, "resolved is
None") are left out; version-1 lockfiles and yanked releases are not modelled;
network errors and bad archives are deaths of the run at `pick`, `fetch` or
`extract`; files of an archive are unpacked, and of a directory deleted, in any
order; a leftover `package.tgz` is ignored; an empty marker counts as none; a lockfile cut
short may have lost any of its entries, although the code writes them sorted, and a `via` that
is cut is taken for none, since nothing reads it.  The
choice of the mode and the parsing of arguments are inputs.

Auth: a truncated config is empty (one torn in the middle is not kept apart from
that); `ensure_fresh_token` has no caller; which workspace is the default (that it is saved is
modelled), `configure` and the API-key commands are left out; after a login in the browser the
config builds a second session from the profile that the first one takes as well
(`_load_profile`), and the two are one here, since only the second is used again and both carry
that profile; tokens nobody holds any more do not age.

Install: how bindings are collected and encrypted is one step (`Declare`), as is
the local build (`Run`, or `GivesUp` when it fails); declining the confirmation of an
uninstall is not kept apart from a failure before the request.

LspServer: the text of answers and of diagnostics, positions, and formatting requests, which
change nothing.  The answer to a hover is the content it was drawn from.  Whether a content has a
lockfile is a property of the content (`Locked`).

Validation and Build: a file's text is a name; faults are what the phases tell apart, not how
they find them; shapes, rules and SPARQL parsing are the faults `shape`, `advice`, `sparql`;
artifacts, migrations and the root files are part of a bundle's contents; progress display is
left out.  `FixesConverge` takes an author who mends what is reported, with `plgt sync` or
`plgt add` for what is missing.

Validation: projects on which `validate_project` itself raises (a lockfile that does not parse, line
150; a script that is not UTF-8, lines 498-500) are no inputs of `Validation`: no result is told of
them, and in the language server they are the contents that `Breaks`.  The warning
about a cached file that does not parse (line 967) and the shapes' informational notes, which change
no verdict, are left out.

Release: one checkout, one command at a time (two at once share `package.tgz`, which
the code does not guard); the manifest is the version and the named matrices; an archive's
bytes are its contents and the order they were serialized in.  Environment variables are substituted
in a bundle (`substitute_env_vars`, `services/build_service.py:555`); they are taken to stay as they
are, so `ConflictIsReal` is about one environment: the same sources built in another one are other
content.

Bindings, Scripts: the JSON DSL's parser, the encryption itself and the substitution of
environment variables are left out: a sealed secret is a URI and a key, a script the declarations and uses
of prefixes in it, and the IRIs that look like one.  Declarations with a comment between label and IRI are left out,
and local names of which the pattern reads a part from the middle (`p:é:x`).

Not modelled: the formatter (sequential text layout; a model would be a
transliteration), schema and namespace discovery (cached reads of single API calls), migration, `init`
and templates (files generated once), the entry point, settings and logs.  Code with no caller is left out:
`artifact_service`, `discover_artifacts_directory`, `utils/retry`, `is_upgrade`,
`extract_major_version`.

## 7. Plan

In place: all the models above and the proofs of section 5.  What is left are the hazards that have a
note instead of a property in `PROJECT.json`.  Most of them are what the code leaves open (two
processes that save one config, requests without a timeout, a rotated token whose answer is lost);
a property of them would take a promise to hold the code to.

The formatter, generation and schemas are not planned.  Runs that confirm a finding are
kept as long as the code has it.
