# Verification of OpenCoach (Voice Practice)

OpenCoach is an Electron desktop application (with the same web interface in a
browser and in an iOS shell) for spoken practice. Speech recognition and speech
synthesis run in a Python sidecar process, or in an Apple native helper; speech
models and the speech runtime are downloaded, verified and activated on disk;
conversations go to a language-model provider. This directory holds TLA+ models
of the parts whose correctness depends on the order of things, the TLC runs
that check them on small instances, and TLAPS proofs of what matters most.

## 1. Inventory

| Component | Source | State it keeps | Operations |
|---|---|---|---|
| Managed asset store | `src/apps/desktop/managed-asset-lease.cjs`, `runtime-manager.cjs`, `model-manager.cjs` | records of directories (roots), pins, reservations, one exclusive slot, shared slots, metadata files with a current and a previous generation | install, cancel, pin, snapshot (prepare / release), remove, cleanup |
| Voice operation ledger | `src/apps/desktop/voice-operation-ledger.cjs`, `src/apps/web/runtime/desktop-voice-operation-contract.js` | per document: operations with revision, logical state, cleanup state, execution status; a fault that fences the document | admit, preparing, producer, receipt, finish, cancel, revoke, closeOwner, finalStop, drainFiles |
| Speech sidecar client | `src/apps/desktop/sidecar-client.cjs` | start intents, the start under way, child process, pending requests and their receipts, the barrier of a stop, the history that a release of its assets needs | createOperation, start, request, cancel, stop, terminate, process exit, bind / retire / release of the assets |
| Desktop main | `src/apps/desktop/main.cjs` | admission, clients and their assets, tasks, shutdown promise, installation records, window cycle | voice:stt, voice:tts, launch, stop, install, remove, quit |
| Foundation-model helper | `foundation-models-client.cjs`, `foundation-models-service.cjs`, `foundation-stop-observation.cjs` | generation, owners, intents, pending request | capabilities, generate, cancel, closeOwner, shutdown |
| Owned process lifetime | `darwin-owned-lifetime.cjs`, `owned-process-lifetime.cjs` | leader and group observations, authority | authorize, bind, spawn, refresh, close, revoke |
| Renderer Stop | `src/apps/web/runtime/desktop-voice-work-scope.js` | work of one page, its operations and cleanup, Stop in progress | begin, check, finish, observe, stop |
| Subscription sign-in | `subscription-auth.cjs`, `credential-store.cjs` | login sessions, stored token record | beginLogin, pollLogin, completeLogin, cancelLogin, logout, accessToken |
| Native models and their settings | `main.cjs`, `stt-model-preference.cjs`, `src/apps/web/native-model-settings.js` | actions and cached states of the models, preference file; the snapshot, promises and reads of the pane | install, cancel, remove, select, refresh, menu; poll, click, mount, dispose |
| Native runtime of the page | `src/apps/web/runtime/electron-runtime.js`, `native-audio.js`, `create-runtime.js` | the records of one adapter, its text state | transcribe, synthesize, generate, cancel, dispose |
| Speech server (Python) | `src/native/python/voice_runtime` | one-request loop, lazily loaded backends with sticky failures | transcribe, synthesize, health, shutdown |
| iOS shell | `src/apps/ios` | bridge requests, speech session, credentials | bridge messages, interruptions, sign-in |
| Web page | `src/apps/web/index.html`, `src/apps/web/runtime` | conversation turn, provider, caches | record, send, speak, stop |
| Build and packaging | `src/scripts` | none while the program runs | build, audit, sign |

How they interact. The page asks Desktop main over IPC; main admits each voice
request in the ledger, owns the sidecar client, and settles the ledger's
operation from the client's receipts. Launching a client leases a snapshot of
the managed assets; the lease is released only once the exit of the process is
confirmed. Stop in the page cancels operations of the ledger and waits until
each has settled and its resources are released. Quitting stops the helpers,
drains the ledger and releases the leases.

What is hard: every `await` is a point where another handler runs, so checks
made before it may be stale after it; processes may not confirm their exit;
receipts of old requests arrive late; downloads are cancelled after their last
byte; the application quits, or dies, between two steps of a transaction; the
tables and pools have limits.

What makes each part correct is listed with its module below and, hazard by
hazard with the line at which it bites, in `PROJECT.json`.

## 2. Plan

Modules, most important first. Each has its properties in the module itself and
one configuration per question; an `MC` module where the instance needs
definitions; proofs are in `...Proofs`.

Done:

1. `AssetCoordinator` with the abstract `GenerationStore` (refinement).
2. `VoiceLedger` with the abstract `OperationLife` (refinement).
3. `SubscriptionAuth`.
4. `FoundationModels`.
5. `SpeechClient`, and `DesktopMain`, which composes it with the launch of a
   runtime and with Quit.
6. `VoiceScope`: Stop in the page.
7. `NativeModels` and on top of it `ModelSettings`.

Each of the eight components has its proofs in a module of its own, named after it
(`NativeModels` and `ModelSettings` share `ModelSettingsProofs`): every invariant,
every action property and both refinements that the passing runs check are
proved there.

Left, in this order:

1. The bundled launch, the window cycle and the terminal receipt of Main, and what
   they add to `MainInv`.
2. The worker modes of `darwin-owned-lifetime.cjs`, which only its acceptance
   control uses.
3. The speech server's sticky backend failures; the iOS bridge and its sign-in.

## 3. The modules

Throughout, one step of a model is what the program does in one turn of the event
loop: everything up to the next `await`, callbacks that run synchronously
included. A failure of the file system, of the network or of a process is a
step that may or may not be taken. Contents (bytes, digests, prompts, audio)
are not represented; whether a check of them succeeds is a choice.

### AssetCoordinator, GenerationStore

One coordinator per application root. A root is a directory name drawn at
random; it also names the operation that begin() made for it. `known`, `owned`,
`keep`, `err`, `reserved` and `pins` are the fields of the records in
`coordinator.roots`; `exclusive` and `shared` are the two kinds of slot;
`phase` says at which await an install (`writing`, `written`, `probing`,
`verified`, `committed`, `unwinding`) or a preparation (`preparing`, `copying`,
`copied`, `failing`, `leased`) stands; `disk`, `current`, `previous` are the
directory and the metadata files; `damaged` remembers what a removal that
failed half way deleted.

Actions: `StartInstall` to `Settle` are the install transaction of
RuntimeManager with its probe and its commit; `StartPrepare` to `RetryRelease`
are prepareVoiceAssets and prepareHybridVoiceAssets, which copy the active
generations into a private snapshot; `Remove` and `RemoveFails` are
ModelManager.remove; `Cancel` and `CancelPrepare` fire the abort signal;
`Restart` is the end of the process and a new start with an empty coordinator.
`Finish` and `Cleanup` are operators that the actions share, as finish() and
cleanup() are called by all of them.

`GenerationStore` is what the rest of the application relies on: a generation is
published only when it is completely stored, becomes the previous one when it
is replaced, and a referenced one disappears only with its asset.
`AssetCoordinator` implements it with everything but the files forgotten (`StoreSpec`).

### VoiceLedger, OperationLife

An operation is a request id of a document. `hist` and `rec` are the ledger's
record (revision, logical state, execution status, cleanup, failure, reply),
`fault` its fence. `native`, `used`, `denied`, `current`, `stops`, `blocked` are
what the speech client knows of the operation handles: status, the start
intent, barriers of stops in progress. `pc`, `files`, `cancelled`, `timedOut` are
the task that Main runs for a request. `drain`, `quit`, `doc` belong to
before-quit and to the documents. The part of the client that is here is what the
ledger sees of it; `SpeechClient` is the client itself.

A receipt of the client reaches the ledger in the turn in which the status changes, so `React`, `FaultAfter`
and `Notified` are operators applied inside every action that changes a status, and
one receipt may fence the domain and answer every open request. The exception is
`Withdrawn`: a handle cancelled before its request has lost its listener, so what a
stop that had marked it comes to (`StopUnconfirmed`) stays unknown to the ledger until
that task samples the handle itself, or another operation's receipt fences the domain.
`OperationLife` is
what a page relies on: an id is accepted at most once, an accepted request gets
one answer, and the fence answers everybody (`LifeSpec`).

### SubscriptionAuth

One provider: logins, the stored record, the refresh under way. `call` is each
IPC request with the record it read before its last await; `flight` the refresh
each call may have started; `refreshing` the map entry later callers join;
`file` the credential file. The token issuer is external and modelled from the
answers the code distinguishes: a grant makes the next pair of tokens, and a
rotating issuer redeems a refresh token once. A Claude refresh that the first URL
answers without tokens asks the second one with the same refresh token (`Retry`),
which the first may have redeemed already. `ended` is a
history variable, for a property only.

### FoundationModels

`pending`, `preparing`, `proc`, `stop`, `fault` are the client: its one slot, the
launch whose executable is being verified, the process, the stop in progress with
its stage (`draining`, `quit`, `term`, `kill`), and the latch set by an exit it
cannot vouch for. `current`, `session`, `revoked`, `clientOwner` are the service,
by document. `document`, `live`, `ready` are voiceDocument, and
foundationModelsReady as the promise it is: `clear`, `draining` or `failed`. A
capabilities request is identified with the intent (preparationId) it brings
and the session id it is answered with, since ids drawn at random do not repeat.
`helper` is each operating-system process, and `served` the intents whose
requests it was given: history, for the properties only.

The epoch counter does not appear: every place that increases it also empties
the slot, and every place that compares it compares the slot as well.
CloseDocument, OpenDocument, Quit and QuitEnds are the parts of Main that touch
the helper; waitOwnedProcessClosure is its condition that no process is alive.

### SpeechClient

The client of the speech process, on all three platforms. `intents` are the
start intents (the last one is `startIntent`) with the process and the work each
began and whether its end is confirmed; `works` the starts (`validating` in
beforeSpawn, `starting` until the process announces itself); `procs` the
processes, whose record is what was observed of them (`up`, `exited`, `drained`,
`nospawn`) together with what is so (`tree`: descendants run); `stop` the barrier
that every stop joins; `calls` each call with its receipt. `history` and `lease`
are the evidence and the binding of the assets (bindClientAssets): records of
processes whose end is not known, attempts, `unknown`, and on macOS the
authorisations of the producer.

Actions: `Create`, `Request`, `Cancel`, `Abort`, `CancelReceipt` are the calls of
the owner; `Validated`, `Ready`, `Answer` and the timeouts what goes on by itself;
`Stops` is _stop(), which every cancellation shares; `StopEnds` and `StopFails`
take its barrier down; `Confirms` is the receipt whose own intent has ended;
`KillsTree`, `Exits` and `Drains` belong to the operating system. stop() with
releaseAssets and the callback after the exit are folded into `Release`, and the
first of the two looks at the evidence in beforeSpawn into the second.

Two consequences of the code that the properties leave room for: on POSIX systems
other than macOS a client that was ever authorised to spawn never releases its
assets, because the exit of the leader is no proof of its group; and on macOS an
authorisation that was not used keeps them for ever as well, as the code intends.
A producer authorises 32 spawns in its life (`MaxGenerations`); the next start
fails.

### DesktopMain

Extends `SpeechClient` with launchPackagedRuntime and checkRuntimeEntrypoint (a
speech client, or a probe of a candidate), the task of a transcription with its
input file, stopOwnedClient and before-quit. `launch` is where the launch stands,
`bundle` the prepared assets and who holds them, `owned` whether the client is in
ownedClients, `attempt` the stop Main waits for, `freed` the tasks whose final
stop was confirmed, `quit` the phases of before-quit: signals, launch, tasks,
release. The barrier of the client ends in a step of the client, so `Follows` is
part of every such step. Ledger and text helper appear as signals of Quit that may
fail; so does a drain of the files.

### NativeModels, ModelSettings

Main's side: `act` and `last` are modelActions and lastModelInstallations, `rt`
the installation of the runtime with its dialog, `states` the cached states every
overview is drawn from, `reread` the refresh that runs after a removal that failed
(one model after the other, with an await for each), `pref` the preference file,
`active` what the running client was started with, which does not change while a
window is open, because startRuntime is awaited before it. The pane's side: `seen`
is the newest overview, `reads` the ones under way with what waits for each, and
`installing`, `removing`, `selecting`, `cancelling` its guards. A click reaches
Main in the step that makes it; overviews and answers travel back on their own and
overtake each other. An overview that is no longer the newest stays among the `reads`
until it arrives and is then dropped (`Outdated`), and the timer of the pane polls
only when none is under way. Progress and restart flags are left out.

### VoiceScope

`rec` is each record of the work scope and where the call that owns it stands
(to prepare, preparing, called, to fall back, falling back, over), `scope` each
adapter's scope with its Stop (acknowledge, drain, observe, final), `fault` and
`kept` what adapters of one document share, `text` and `helper` the text
generation, `work`, `reply`, `refused` what Main does and says. The epoch is
dropped: a record of an older epoch is exactly one that was revoked. The two
preparation steps of a recording are one, capability queries are only made by
`Generate`, and an exception thrown by a clean-up is taken with its deadline. The
page awaits a Stop before it begins again, so `Begin` does.

## 4. The runs

| Run | Instance | Question |
|---|---|---|
| `asset_store` | 2 models, the runtime, 3 roots, a disk for 2 | exclusion, no directory deleted in use, the byte budget, nothing forgotten, torn snapshots, cancellation, directories of an earlier process, refinement of `GenerationStore` |
| `ledger_quit` | a transcription and a synthesis on Windows; Quit and its retry, exits, revocations | nothing owned once retired, the wire contract, no dispatch after an answer, every request answered, Quit ends |
| `ledger_documents` | three requests, two documents, POSIX, a ledger of two ids, a stop for somebody else begun while no other is under way, no exits | fallback evidence, the fence answers all, revisions, the input file, refinement of `OperationLife` |
| `foundation_models` | 3 calls, 2 processes, 2 documents | one helper; truthful stops and wanted answers; Quit; every call settles |
| `subscription_auth` | 4 calls, 3 grants, both sign-ins, all faults | one refresh at a time, the stored token is usable, every call settles |
| `model_settings` | 2 transcription models, 3 acts of the user | the cache never forgets a model, a cancellation hits its action, the pane never goes back, every click settles |
| `voice_scope` | 4 calls of the page, 2 records, 2 adapters | a Stop that resolved is true, nothing after a Stop, every Stop settles |
| `speech_client` | a receipt and a call without one, 3 cancels, stops or aborts, 3 platforms | confirmations are true, released assets are unused, everything settles |
| `desktop_main` | a launch or a probe, a transcription, a health query, 4 acts, 2 macOS spawns | Quit is clean, an input outlives its reader, nothing spawns after Quit, Quit ends |
| `auth_logout`, `auth_single_use` | 4 calls | violations, see section 7 |
| `quit_stranded` | one launch, one act | violation, see section 7 |

Why these bounds are enough to be interesting. Three roots let two installs
overlap while a third generation is current, and let a restart leave a current
and an unfinished directory for a new install or snapshot to meet; the budget is
smaller than the roots, so it is reached. A snapshot can be torn by a removal
there; torn by a replacement it would need a third complete directory beside the
budget, and that snapshots and installs exclude each other is a theorem. The
platforms differ in what the exit of the speech process proves: Quit of the
ledger is checked on Windows, where it proves nothing, the change of documents on
POSIX, and the client on all three. Two operations are the smallest number for
which a stop of one takes the other down, and a third one in a second document
meets a full ledger. A login, a refresh, a logout and a request are what an
overlap of two stores with a third reader takes. Three calls are a capabilities
request, a generate, and a cancel or a capabilities request of the next document;
a second process is needed to be spawned beside, or after, the first. A second
start intent exists as soon as the first is stopped, so three acts are a stop, a
stop that joins it after a new start, and a cancellation of the older receipt.
Three acts in the settings are an installation, its cancellation and the next
installation of the same model, or a removal that fails and an installation during
its refresh. Four calls of the page are a request, a Stop, a request and a Stop,
or a dispose and a replacement. Roots are interchangeable and `asset_store`, which
checks no liveness, says so; no run with a liveness property uses symmetry.

A run says CHECK_DEADLOCK FALSE where the bound on calls or acts ends what can
happen; the two runs of the ledger check for deadlock. The type invariants of
`AssetCoordinator`, `VoiceLedger`, `FoundationModels` and `SubscriptionAuth` are
proved; the other proofs carry the types they use in their invariants (`Formed`,
`Typed`, `MainTyped`). No run checks a type invariant, as they say nothing about
the code.

Each property was also confronted with a changed model (the definitions commented
as a slip or a mutant): one guard dropped, one reset forgotten or two steps swapped, the way a
plausible bug in that code would do it; TLC then finds the property violated.

## 5. Fairness

- `AssetCoordinator`: none, and no liveness is checked. Nothing makes a download
  progress or a probe answer, so an operation may stand still.
- `VoiceLedger`: the task of a request runs on, the termination of a process
  ends within its grace and kill timers, confirmed or not, and before-quit goes
  on. The speech process itself owes nothing: it may never reply.
- `SubscriptionAuth`: every HTTP request ends within 15 seconds (timeout of
  http()), every file operation ends.
- `FoundationModels`: the verification of the executable ends, each timer fires
  (a request, and the three of a stop), and a continuation runs. The helper may
  never answer and never exit.
- `SpeechClient`: a barrier ends, by evidence or by the final timer of _terminate
  (`Settles`), and beforeSpawn ends, or the start and request timers fire
  (`Proceeds`). Exits, taskkill and the drain of the pipes owe nothing.
- `DesktopMain`: the same of the client, and that Main's own continuations run.
- `NativeModels`, `ModelSettings`: an installation and a refresh end (`MainEnds`),
  answers and overviews arrive, the timer of the pane ticks. A download has no
  timeout of its own: that it ends, with a result or a broken connection, is an
  assumption about the network.
- `VoiceScope`: every phase of a Stop has a deadline of its own, and a call whose
  answer is there goes on. Codecs, fallbacks, the helper and Main owe nothing.

## 6. The proofs

TLAPS proves the following for every value of the constants, from the
assumptions on them that the modules name (names that stand for nothing are not
in the sets, limits are natural numbers). Every invariant, action property and
refinement of the passing runs is among it. Each proof has the same shape: an
invariant that is strong enough to be inductive, which TLC checked first; one step
for each action, or lemma for each operator that actions share; and the property
as a consequence of the invariant, or of the invariant and one step.

- `AssetCoordinatorProofs`: types, `ExclusiveXorShared`, `InUseOnDisk`,
  `PublishedOnDisk`, `NoGenerationLost`, `CancelledNeverActivates`, and that the
  coordinator implements `GenerationStore`. Types alone are not inductive: that a
  record in use is known needs the pin each operation has on its own root
  (`SelfPinned`). `Slots` ties the coordinator's slots to the operations that
  hold them, which gives exclusion; `InUseOnDisk` follows from the pins, and
  `Files` says that every generation metadata names is past its commit.
  A second invariant, `Kept`, is what the accounts rest on. `NothingForgotten` is
  inductive beside it. `WithinBudget` counts the directories that are on disk, but
  two operations may both have checked the disk and written nothing yet, so
  `Budgeted` counts those that fill as well (`Claim`) and says that whoever may
  still write is reserved, which is what the check of the next one adds up; the
  cardinalities are those of finite sets that grow by one root or shrink.
  `NoTornSnapshot` needs that a snapshot's pins are the active generations from
  its first pin on (`Untorn`), and `InheritedRootsSurvive` that a
  directory of an earlier process is owned by nobody (`Inherited`).
- `VoiceLedgerProofs`: types, the seven safety properties of the ledger and `LifeSpec`,
  for any number of requests and documents, on every platform, with any quota. In
  one turn a stop may tell the ledger about several operations, the ledger may
  fence the domain over one of them, and the fence answers the rest; so the proof is
  about turns (`LedgerTurn`, `Evolves`) before it is about actions. `LedgerInv` has
  six parts. `NativeInv` is the speech client: which operations share the current start
  intent, that the groups of an earlier one and those of the stops in progress do
  not meet (`Apart`), and that the members of each are in the states a receipt may
  still move. `RecordsInv` ties every record to the native status it was last told (the
  present one, but for a handle cancelled before its request: `Behind`), which
  is why no receipt finds a record it may not be applied to, and it says which records
  must have an answer. `FilesInv`, `InputInv` and `FallbackInv` say what a task at each await
  may rely on: a task about to remove its input was not used, or its work is over, or
  a drain of Quit has proved it so, and that drain belongs to the Quit that is settling;
  what allowed a fallback never stops being true. `LifeSpec` then follows from how one
  step moves the records: `StepIsLife` shows that each step admits one, ends one, or
  refuses any number of them at once.
- `SubscriptionAuthProofs`: types, `OneFlight` and `StoredIsUsable`, with all faults:
  `wasted` remembers the tokens whose successor was lost with an answer, a write or
  the process, and the file may hold a spent token only among them. `Shape` says that
  the entry of the map is the one refresh under way; `Unspent` that a token on its
  way to the file is known to nobody else, so that the last store leaves a usable
  token whoever makes it.
- `FoundationModelsProofs`: types, `OneHelper`, `OneIntent`, `QuitIsClean`,
  `StopIsTrue`, `NoSecondStart`, `AnswersAreWanted`. `Processes` is what the client
  knows of its process (a launch under way means there is none, a stop that has
  passed its drain has no launch); `Latches` what a fault and Quit fence;
  `Intents` that slot and process work for the intent in force, with the facts
  about sessions and revocations that make it inductive.
- `ModelSettingsProofs`: `NeverForgets`, `CancelHitsItsAction`, `ViewNeverGoesBack`. The
  invariant `Held` adds to the types (`Typed`) that what a refresh has read and not yet
  stored is as true as what is stored, because an installation that returned in between
  has made it void (`Remembered`), and that an action carries a cancellation only
  under its own name, while it runs and as the last one shown (`Aimed`). The view does
  not go back because one read owns it and no overview is ahead of Main: `Follows`
  orders what may be shown of a model, every step of Main moves forward in it
  (`ViewsAdvance`), and `Ordered` puts what is shown before what the newest read
  brings, and that before Main.
- `SpeechClientProofs`: `ReleasedIsUnused`, on every platform and whatever happens
  to the processes. A release looks at the evidence only, so the invariant `Owed`
  says what evidence is worth: nothing is spawned that was not authorised, and what
  the Windows records have dropped is gone with its descendants (`Accounted`), for
  which a stop whose taskkill has succeeded must have ended the tree (`Killed`); a
  released lease is retired, so that no validation still under way can spawn
  (`Freed`). `ConfirmedIsTrue` needs the other half, `Told`: which intent a work and a
  process belong to (`Linked`), that only the process of the client runs (`OneUp`),
  that the current intent is open and has the last work and process (`Current`), that
  no other work can still spawn (`Busy`), that what a stop waits for is all its intent ever
  had (`Halting`), that an intent confirmed by the end of its own work alone has no
  process (`Lone`), and that a receipt which was used and is confirmed has an intent
  that is done (`Rightly`).
- `DesktopMainProofs`: `QuitIsClean`, `NothingSpawnsAfterQuit` and `InputOutlivesReader`, on
  top of the invariant of the client. `MainInv` says who may still begin something:
  a client is owned from the moment it can be used until its assets are released,
  whoever stops it has retired it, and a client that was never bound has done
  nothing (`Possessed`); until the page may use the client Main alone calls it, and one
  given up has nothing waiting that could begin (`Running`); each phase of Quit keeps
  what the phases before it waited for (`Quitting`). The inputs need
  two invariants more. On Windows a leader may leave descendants when it exits: what was
  sent to it is then over and completed, or it is being stopped, which waits for its
  tree, or the client has failed and confirms nothing any more (`Left`). And once a
  stop of Main was confirmed no process is there, and none has the input of a task
  that was freed (`Unread`).
- `VoiceScopeProofs`: `StopIsTrue` and `NothingAfterStop`, for any number of requests and
  adapters. `Traced` relates what the page knows of a request to what Main has of it,
  `LetGo` says that a record the scope gave up owns nothing, `Looked` that what a Stop no
  longer looks for in Main is over there, unless the fault makes the Stop fail, and
  `Helped` that a helper which is not prepared is being stopped or is a fault.

The lemmas state what the shared operators (cleanup, settle, stop) do to the
state, so that each action is one short case. Proved, and in no run: the types,
`PublishedOnDisk`, `NoGenerationLost`, `OneIntent`, `NoSecondStart`.

Only model-checked: the eight liveness properties (`EveryRequestAnswered`, both
`QuitEnds`, `EverythingSettles`, the two `EveryCallSettles`, `EveryClickSettles` and
`EveryStopSettles`), as fairness and ENABLED are beyond this prover. They are checked
on the instances of section 4 only. What the theorems cannot say either is
that the models are the program: that is the mapping in `PROJECT.json`.

## 7. Where code and documents differ

- `auth_logout`: logout() deletes the file and does not know of the refresh
  under way, which stores its tokens afterwards; the architecture document
  says that logout prevents a stale refresh from restoring credentials.
- `auth_single_use`: a request that read the record before a refresh stored
  its successor, and looks for a refresh to join after it ended, presents the
  spent token once more; a comment says that refreshes are single-flight
  because tokens are single-use.
- `quit_stranded`: on macOS a speech process that was killed, or ended with a code,
  is a fault of its producer for good, and the evidence of a release refuses a
  producer with a fault; so the lease is never released and before-quit prevents
  the end of the app at every attempt, although the process was reaped and its
  pipes drained. Two comments say that fully reaped faults permit Quit and that a
  forced but closed child cannot strand the app.

The lines are quoted under `findings` in `PROJECT.json`. Three more have no run of
their own. cancelLogin() only forgets the login, so a poll or a code exchange that
is under way stores its tokens although the login was cancelled (the actions
CancelLogin and TokensGranted in that order), while the same document says that
cancellation aborts in-flight device polling. A removal that fails half way
re-reads the states instead of keeping a stale one, says the comment at
`main.cjs:706`; if another installation returns during that refresh it raises the
serial at `main.cjs:860`, the refresh is void, and the model that was half removed
stays shown as installed. And a second Stop of a work scope does not reset
`stopped` (`desktop-voice-work-scope.js:37`), so that a page which began again
while it is under way would be admitted; the page awaits its Stop, which excludes
it.

## 8. What is not modelled

- `SpeechClient`: errors of the streams, the limit on their output, a Windows spawn
  that fails in the tick it was made in, the cap of 32 unresolved records on the
  other platforms, the framing and the contents of replies. The members of a macOS
  group are one fact, since the product's profile forbids its leader to fork.
- `DesktopMain`: the bundled and the development launch, the window cycle, the
  terminal receipt, and createWindow, whose documents are in `VoiceLedger`.
- The speech server: a sequential loop in a process of its own, of which
  `SpeechClient` assumes nothing. A backend that failed to initialise is never
  tried again in that process (`backend_registry.py:209`), which nothing here
  depends on.
- The page's own interface, recording, conversation and caches; the codecs of
  `native-audio.js`, which are a step of `VoiceScope`; the iOS shell, a separate
  implementation for another platform.
- Validation of manifests, trees, receipts, endpoints and payloads, which are
  functions of one input; the models take their verdict.
- Quotas of 4096 ids per document in the foundation-model service and the counter
  of revisions, which fences the domain at 2147483647.
- Build and packaging scripts, which run before the program does.
