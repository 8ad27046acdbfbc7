# Solomon: a TLA+ verification project

Solomon diagnoses shell commands. Shell adapters ask a local daemon about every
command before it is sent and after it has run; the daemon answers with
nothing, a hint, a rewrite of the buffer, or an interrupt that has to be
confirmed. This project models the parts of it that keep state or decide what
happens to the user's command, checks them with TLC on small instances, and
proves the main safety properties with TLAPS for every value of the constants.

## Inventory

| Component | State | Operations | Interacts with |
|---|---|---|---|
| Daemon service (`internal/daemon/service.go`, `protocol.go`) | three maps under one mutex: pending confirmations, pending undos, remembered failures | status, pre-send, post-failure, post-success, confirm, undo; one goroutine per connection | response policy, learning store |
| Response policy (`service.go`, `internal/diagnose/engine.go`) | none; reads the configuration of its process | `curatedDecision`, `learnedDecision`, `decision`, `finish`, `applyMode` | packs, learned rules, configuration |
| Endpoint and client (`server.go`, `listener.go`, `client.go`, `main.go` `requestDaemon`) | a Unix socket path, the processes behind it | listen, serve, close, stop; ask, ask again, start a daemon, poll | the operating system, every command that changes what daemons load |
| Learning store (`internal/localstate`) | SQLite tables: observations, drafts, rules | record a pair (two transactions), retention, activate, edit, set action, enable, disable, remove, purge | daemon service, `solomon learn` |
| Configuration (`internal/config`, `internal/securetemp`) | a global file, project files with a trust marker, the environment | load, migrate, validate, `config set`, `rule add/update/remove`, atomic replace | every process |
| Packs (`internal/packs`, `solomon pack`) | a pack and a signature file per installed pack, the keyring, bundled packs | install, uninstall, trust, load and verify, match | response policy, endpoint (restart) |
| Capture relay (`internal/capture`, `solomon capture`) | bytes kept back, the current command's output, whether it is active | feed, reset, read | terminal, shell adapters |
| Shell adapters (`internal/shell/scripts.go`) | per shell: pending rewrite, undo and key binding, failure token, handshake, hints shown | Enter, Ctrl-G, hooks before and after a command | user, daemon, relay |
| Release, update and platform code | none | checks of release files, operating-system calls | - |

What is hard in this code:

- **Handlers outlive their clients.** A client waits 15 ms and then sends the
  same request again (`requestDaemon`); the first handler still runs. Every
  locked section can be reached late, twice, or out of order.
- **Checks and uses are apart.** `recordSuccess` unlocks before it records;
  `removeStaleSocket` dials and then removes; `config set` reads and then
  replaces; trust is checked and then the file is read.
- **Several processes, no lock.** Daemons start each other's replacements at one
  socket path, and commands edit one file.
- **Two channels.** What the terminal shows reaches the relay through a pipe, and
  requests about it through a socket; nothing orders the two.
- **Several files, one meaning.** A pack and its signature are written and
  removed one after the other, and one bad pair makes loading fail for all.
- **Hooks see only a part.** An adapter is not told when a line is edited,
  abandoned, accepted by another key, or when a key is bound anew.
- **Authority.** Editing or blocking a command must be opted into, through a
  configuration that has seven schema versions, three sources and two pack
  paths with different rules.

What makes each component correct: a token takes effect at most once, for the
session and command it was issued for, in its lifetime (service); no edit
without opt-in or beyond what the user let a learned rule do, and no block
without opt-in (policy, configuration); one reachable daemon that serves what
is on disk, as long as it hears of changes (endpoint); rules only from enough evidence, and a purge that
forgets (store); commands that persist and files that load (configuration);
nothing loaded that was not signed by a trusted publisher, and no crash that
breaks loading (packs); the output of the right command and nothing else
(relay); corrections that are the user's own, an undo that fits its rewrite, a
key that is given back, and a second Enter that runs what the first one left
(adapters). `PROJECT.json` lists the hazards one by one, with the properties that
cover each, or the reason why none does.

## Modules

| Module | Models | Notes |
|---|---|---|
| `ResponsePolicy` | the decision path, as operators | a command line is a record of what the matchers find in it |
| `PolicyAnswers` | its callers: pre-send, post-failure, `check` | any configuration, any line |
| `DaemonService` | the service's maps and handlers | uses `ResponsePolicy` for the verdicts |
| `DaemonEndpoint` | processes, socket path, clients | `net.Listen` is two steps, bind and listen |
| `LearningStore` | the database | one action per SQL transaction |
| `ConfigStore` | files, editors and loaders | read and rename are two steps |
| `TokenLedger` | what a client may rely on about tokens | abstract; `DaemonService` implements it |
| `PackStore` | pack directory, keyring, `pack` commands, loaders | one step per file changed |
| `CaptureRelay` | the relay, the pipe, and the Zsh or Bash hooks | the constant `Shell` chooses the adapter |
| `ShellAdapter` | the four adapter scripts, with user and daemon | the variable `shell` is chosen in `Init` |
| `MC...` | instances for TLC | |
| `PolicyProofs`, `DaemonServiceProofs`, `EndpointProofs`, `LearningStoreProofs`, `ConfigStoreProofs`, `PackStoreProofs`, `ShellAdapterProofs`, `CaptureRelayProofs` | theorems | |

`DaemonService` and code: `confirmations`, `undos`, `failures` are the maps of
`Service`; `pc`, `req`, `resp`, `taken` are the local state of handler
goroutines, whose steps are the sections between lock and unlock; `waiting` is
what a client still waits for. Tokens are numbers in order of issue (the code
draws 128 random bits, which are taken not to repeat). `issued`, `redeemed`,
`delivered`, `retired`, `remembered`, `paired` are history variables that only
properties read. `Restart` is the end of the process: nothing in the maps is
persisted. The learning pair is recorded in `LearningStore`; in `DaemonService`
the call succeeds or fails.

`DaemonEndpoint` and code: `pc` follows a process through `daemon serve`
(load, `Lstat`, dial, remove, bind, listen, chmod, serve, close); `file` is
whose socket is at the path; `disk` and `loaded` number the versions of what
daemons load. A load may fail, which ends the process. `client` follows
`requestDaemon` and the commands that end in `restartDaemonIfRunning`, whose one
stop request may get lost (an early return, 15 ms that are over, a failed
write: the command ignores them all). `unheard` and `overlapped` are history: the
daemons that missed the last stop request for them; a start or close has
overlapped another, or a change.

`LearningStore` and code: the tables are sets of rows; `recording` is the pair
between `RecordLearningPair`'s two commits; `seen` is history, the pairs
recorded since the last purge. Identifiers are SQLite rowids, which come back
after a delete.

`ConfigStore` and code: a file is a schema version and the fields present in
it. The settings that are only stored (display, retention, undo, ceiling) behave
as `auto` does and are left out. `expected`, `overlapped`, `consent` and `swapped`
are history; a project file counts as consent only with its marker, and
`swapped` are the loaders behind whose check of the project file it has changed.

`TokenLedger` and code: `live` is the set of promises, one per token in the
confirmation and undo maps; `spent` the tokens that took effect. The refinement
mapping (`Ledger` in `DaemonService`) forgets sessions, handlers and lifetimes:
what is left is that a token is new when it is promised, that a promise is never
changed or revived, and that it ends when it is redeemed.

`PackStore` and code: `json` and `sig` are the two files under each name,
`keyring` the keyring file; `pc`, `work` a `pack` command between two of its file
operations; `lpc`, `lkeys`, `todo`, `got` a process in `runtimePackResolver` with
curated packs enabled. The two `Lstat`s of a command are one step, and so are the
two reads of one verification. Whether a pack is well-formed is its field
`valid`; a signature is the pack and the key it was made from. A write or removal may fail, and
a command may be killed anywhere. `overlapped`, `cut`, `disturbed` and
`everTrusted` are history.

`CaptureRelay` and code: `pending`, `output`, `active` are the fields of `Relay`;
`pipe` is what the terminal has shown and `FeedReader` has not yet read, handed
over in chunks of any length. Bytes are symbols that say what they belong to:
prompt, echo, text, a name (text of the command that reads like the typed line,
as the `make` of `make: ***` does), the two parts of something the filters
remove, and the parts of the marker. `late` are requests whose client gave up after 200 ms. `ref`
is the reference: everything that reached the relay since its last reset.

`ShellAdapter` and code: `pending` holds the rewrite, undo, key binding and
automatic-rewrite flag of the script; `token`, `lastToken`, `sequence` its failure
tokens; `ready` the remembered handshake; `count`, `seen` the hint limit. The four
scripts do the same thing in four languages, so that a definition stands for
all of them and the map names the lines of one; where they differ (the hook
before a command, restoring Ctrl-G, Bash) the definition does too. The daemon is
reduced to what `DaemonService` promises one session: at most one confirmation
and one undo. Records that the shell's `base64` rejects are modelled (the line
runs; or a rewrite stays without its undo, for which Zsh takes Ctrl-G all the
same); `Fold` is what PowerShell's `-eq`, which ignores case, compares. Left out
are branches for answers that the daemon never gives (an unsafe rewrite), and
PowerShell's pending confirmation, which is written and never used.

## Runs

Time is in units of the shortest lifetime. All bounds are constants of the cfg.

| Run | Bounds | Shows |
|---|---|---|
| `PolicyAnswers` | every configuration; lines in three families, confidences on both sides of each threshold | no edit without opt-in on either pack path or by the engine; learned rules, which need no mode, within their ceiling and their own action; blocking only before a command, in a blocking mode |
| `Service` | 2 sessions and callers without one, 2 handlers, 2 tokens, 1 tick; a line that needs confirmation and one that is rewritten | tokens take effect once; submits and undos are backed by a live token of that session and command; one undo per session, none after the session has moved on; the service implements `TokenLedger` |
| `ServiceLearning` | 1 session, 2 handlers, 2 failure tokens, 1 failure, 1 tick, two spellings of one command | one pair per failure, of the right command, in the window; confirmations by token |
| `EndpointLife` | 2 processes, 2 clients, 1 crash, 1 change on disk | starts and closes that do not overlap keep one reachable daemon; a daemon goes on serving old state only if its stop request was lost; a dead socket file is replaced |
| `LearningStore` | 2 pairs, 2 recorders, 3 recordings per pair, 2 identifiers, 1 day | rules are earned; keys are unique; evidence is backed and purged |
| `ConfigStore` | 2 editors, 1 loader, files of schemas 1, 4, 5, project files with and without version, mode and marker | authority is consented to; identifiers are unique; serial commands persist |
| `PackStore` | 2 commands, 1 loader, 4 packs under 2 names (two builds of one version, one that contends with a bundled pack, one that does not compile), 2 keys, 3 initial keyrings | loaded packs were signed; undisturbed loads are exact; a crash of an install never breaks loading |
| `CaptureZsh` | 2 commands of up to 3 symbols, one of them a name, limit 2, marker of 3 | the relay equals the reference however the stream is cut; a read returns that command's output, all text of it if it fits, but for a copy of the typed line that begins it |
| `ShellAdapter` | 4 shells, 5 lines, 3 commands, limit of 2 hints | the properties of an adapter named above |

The bounds let the interesting cases happen: two handlers are enough for a late
handler beside a retry, two tokens for an old one beside a new one, one tick
for a lifetime to end at its boundary, two processes for a start beside a close,
three recordings to reach the evidence threshold, a marker of three symbols to be
cut at two places, two builds of one version to overwrite each other, three
commands for a failure, an accepted rewrite and a correction. What they leave out (more
sessions, failures or packs, longer chains) is what the proofs are for.

Symmetry is used over interchangeable sessions, handlers, recorders, editors,
commands and pairs, only in runs without liveness properties (the
temporal properties under symmetry, `StaleFailuresAreDropped` and
`ImplementsLedger`, are conditions on single steps).

Three runs state what the documentation or a test says and find that the code
does otherwise:

| Run | Said | Found |
|---|---|---|
| `EndpointSingle` | stale_endpoint_test.go:68, a second daemon is rejected | two that start together can both serve: a dial between bind and listen is refused, and the live socket is removed |
| `ConfigLoads` | config.go:104, "rule exception command already exists" | `rule update` compares only with entries before the one it changes, and writes a file that nothing loads |
| `CaptureBash` | README.md:107-113, capture in Bash or Zsh, and the exit status only when the relay is unavailable | the Bash hook resets the relay before it reads: the output of a failed command is always erased first |

The models show further differences between documents and code, which the
properties above allow because they state what the code does, or leave out:

- README.md:154 calls installed packs hint-only; a high-risk match of one
  interrupts in a mode that does (`service.go:444`).
- README.md:139 says that exact-command exceptions suppress diagnostics; packs and
  learned rules are consulted before exceptions are (`service.go:424`), and
  `PolicyAnswers` reaches such answers. No property is stated about exceptions.
- README.md:81 says that a rewrite can be undone within its lifetime; the late
  handler of an abandoned request withdraws or replaces the undo that the
  session's retry was given (`service.go:576`).
- README.md:81 holds neither where `base64` wants padding: `daemonRecordWithUndo`
  (`main.go:435`) writes none, and the 32 characters of an undo token need it. The
  rewrite then has no undo (`scripts.go:120`), and a suggestion that cannot be
  decoded lets the line run, an interrupted one too (`scripts.go:107`).
- Enter, Ctrl-G, Enter rewrites a line again, without limit: no Enter runs a line
  whose rewrite is undone (`scripts.go:82-99`).
- A comment in `relay.go:154` says that removing the command text is a no-op in
  Zsh; it removes the beginning of the command's own output where that reads
  like the command.
- A stop request that is lost leaves a daemon that serves what was changed or
  removed, and that nobody asks again (`main.go:281`).
- A project file that is replaced between the check of its trust and the read is
  merged, approved or not (`config.go:336`).
- An uninstall that ends between its two removals leaves a pack that every load
  rejects (`packs.go:145`); install and uninstall of that version then report
  an error too.
- A captured shell exports `SOLOMON_CAPTURE_...` variables (`main.go:706`), and
  `ApplySessionOverrides` (`config.go:264`) rejects unknown `SOLOMON_` names in every
  process that loads the configuration with that environment. `CaptureRelay`
  leaves configuration out.

Each property of a passing run has a mutant in `PROJECT.json`: an operator
beside the original (`..._Keep`, `..._AnySession`) that changes the code the way
a plausible bug would and under which TLC finds the property violated.

## Fairness

Only `DaemonEndpoint` has a liveness property. It assumes weak fairness of each
process's steps through `Listen` and `Close` (the operating system runs what can
run; every step is a system call that returns), strong fairness of `Load` (what
a daemon loads is not broken for ever: a start that fails to load is tried again
by later requests, and one of them succeeds), weak fairness of each client's `requestDaemon`
(shells keep asking, its waits are bounded by timeouts), and of the pending stop
request of a command. Nobody is obliged to crash, interrupt or change anything.
`StaleEndpointReplaced` then says that a dead socket file does not stay for
ever. The stronger wish, that requests are answered again and again, does not
hold: starters that keep racing can remove each other's sockets for ever, which
is the hazard behind `EndpointSingle`.

## Proofs

Each proof module shows an inductive invariant and derives the properties from
it; Init and each action have a step of their own.

- `PolicyProofs`: the invariant `PolicyInv` adds to the types a bound on the verdict of each caller.
  Lemmas bound each of the three sources (packs, learned rules, engine) for every
  configuration and line. Theorems: `EditsOptedIn`, `LearnedBounded`,
  `PreSendActs`. Assumption: `PolicyAssumption` (constants have their types).
- `DaemonServiceProofs`: `TypeInv`; on top of it `TokenInv` (every entry of a
  map was issued with its session, command and lifetime, tokens in the maps are
  not redeemed, a prepared answer points at what was issued), `RetireInv`
  (a retired token is in no map, and whatever was delivered or retired had been
  issued, so that a new token is neither) and `FailureInv` (a failure is in the map, or
  with one handler, or paired, never in two places). The single properties are
  not inductive: that a token takes effect once needs that it leaves the map
  with the step that redeems it. Theorems: `TypeCorrect`, `TokensOnce`,
  `SubmitBacked`, `UndoBacked`, `SingleUndo`, `RetiredGone`, `PairOnce`,
  `PairsMatch`, `StaleDropped`, for any number of sessions and handlers.
  `LedgerImplemented` is the refinement: with `TypeInv` and `TokenInv`, each
  locked section is a step of `TokenLedger` or leaves it alone. It needs that
  tokens in the maps are below `nextToken` and not among those redeemed.
- `EndpointProofs`: `EndpointInv`, types and, unless something has overlapped,
  that at most one process is in transit or live, that the path is where its
  stage says, and that what it loaded is current, or a stop is due or was lost.
  Theorems: `LoneStarts`, `StaleServiceExplained`, for any number of crashes and processes.
- `PackStoreProofs`: `PackInv`: types; every pack in the directory, in a command's
  hands or in a loader's was signed under a key once trusted; without overlaps,
  what a command between two files has left is what its stage says, so that a
  pack's signature is there and its own; and an undisturbed loader's `todo` and
  `got` mirror the directory. `PairsIntact` alone is not inductive: an install
  about to write its pack must know that its signature is in place.
  Theorems: `LoadedSigned`, `QuietLoads`, `PairsKept`, `FailuresExplained`, for any packs, publishers and number of processes.
- `ShellAdapterProofs`: `ShellInv`: types and limit; how the pending undo, the saved
  binding and the key hang together in each shell; that a token is the latest
  failure's and that no command of the user's own has run since it was made;
  and what a second Enter meets (a pending rewrite equal to the buffer, or a
  confirmation that the daemon holds). Theorems: `ShellTypes`,
  `CorrectionsOwn`, `UndoFits`, `KeyLent`, `NothingPending`, `SecondEnter`,
  `OneUnasked`, for any lines, verdicts and number of commands.
- `LearningStoreProofs`: `StoreInv`, types, unique keys and earned rules
  together: a rule keeps its draft only because drafts never lose evidence and
  identifiers in use are not given out again. `BackedInv` adds, for each draft
  nobody edited, that its evidence and the recorders between their two transactions are
  together at most what was seen; without those recorders a second transaction
  could not be allowed to count, and several may be about to at once. Theorems:
  `RulesEarned`, `KeysUnique`, `StoreBacked`.
- `ConfigStoreProofs`: `ConfigInv`: types; whatever acts, in a file, in an editor
  or in a loader that read the project file it had checked, has been consented to; identifiers are distinct wherever a
  configuration is held; and without overlap an editor's result is what
  its command makes of what is expected. Lemmas say what `migrate`, `Overlay`,
  and the three exception operations preserve, and that a written file reads
  back as itself. Theorems: `AuthorityConsented`, `ExceptionIdsUnique`,
  `SerialUpdates`, for files of every schema version.

- `CaptureRelayProofs`: the properties compare sequences that filters and limits
  have shortened. The provers cannot do induction over data, so `Filtered` and
  `Text` are defined by positions (`At`), and the lemmas about them
  (`AtUnique`, `AtConcat`, `AtNested`) count positions and take the least one at
  which two sequences differ (`Least`, from the library's well-founded minimum).
  `RetainsMore` is the step of `appendLocked`: if the relay retains `out` of `x`, it
  retains `Appended(out, v)` of `x \o v`, a filter that sees only `v`
  notwithstanding. `CaptureInv` is: types; `own` belongs to the current command; and
  while resets are in order there is a `k` such that what was shown since the
  reset (`ref \o pipe`) has one marker, behind its first `k` symbols, or none yet
  (`ShellFollows`), and the relay is where that says (`RelayFollows`: waiting, with a
  possible beginning of the marker kept back, or holding what
  followed it). The properties are not inductive: `RelayMatchesStream` says nothing
  of what is kept back before a marker is complete, and nothing of the pipe,
  where a reset may meet an older marker. `TextTail` is what `TrimPrefix` does to the
  text of an answer that begins with a name. Theorems: `RelayTypes`, `StreamHeld`,
  `ReadsAreOwn`, for both shells, and `ZshReadsOutput` for Zsh (in Bash the
  property fails: `CaptureBash`), for any marker length, limit, number of commands,
  cutting into chunks, and timeouts. Assumption: `CaptureAssumption` (the constants have
  their types, marker and limit are not empty).

Only model-checked: `StaleEndpointReplaced`, because liveness is out of the
prover's reach. The runs show every other property on a small instance, and
a theorem states it for all.

## Not modelled, and limits

- Code that no command reaches: staged activation and pack state
  (`packs/staging.go`, `packs/state.go`), `Keyring.Revoke`, and the display helpers
  of `shell/actions.go` are called by tests only. Revocations in a keyring file
  are modelled as the input they are.
- Matching is an input. Tokenising, edit distance, PATH lookup, pack patterns and
  risk classification are string algorithms over one line; the models quantify
  over their outcomes. What the properties say of "safe" repairs is what the
  classifier calls safe.
- Evidence texts, rendering, argument parsing, checksums: I/O.
- Redaction and the credential store: patterns over text, and system calls.
- Release, update and platform code: stateless, or system calls. The endpoint is
  the Unix one; Windows pipes leave no file behind.
- The deadline of a request is a step at which a decision may fail, not a clock.

## Plan

Done: policy, service with its refinement of `TokenLedger`, endpoint, store,
configuration, packs, capture relay and shell adapters, with proofs for all of
them.

Next: `ConfiguredDaemon`, composing `ConfigStore`'s loaders with `DaemonEndpoint`:
the environment that a started daemon inherits (README.md:137 says that session
overrides affect only the invoking process), and `config set` without a
restart.
