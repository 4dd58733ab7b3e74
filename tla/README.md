# A TLA+ model of bwssh

bwssh is an SSH agent whose keys live in a Bitwarden vault. One process,
`bwssh-agentd`, listens on two Unix sockets: SSH clients talk to the *agent
server* (`daemon.py`), the `bwssh` command and the tray talk to the *control
server* (`control.py`). Both run as asyncio tasks on one event loop and share
the key registry, the Bitwarden provider, the authorizer and the lock state.
These modules model that process, in its two modes (keys from the vault, or a
bridge to a Windows SSH agent): what it does between any two suspensions of its
tasks, in every interleaving of them; its start and end, with the files it
shares with other instances; the bytes of its agent protocol; and the programs
of the desktop, the tray and `bwssh unlock` with its windows. Paths below are relative to
`src/src/bwssh/` unless they say otherwise.

## The parts of the system

| Part | State it keeps | Operations | Talks to |
|---|---|---|---|
| Control server, `control.py` | `_locked`, `_current_conn_ctx`, `_config`, one task per connection; in bridge mode `_bridge_keys` | `status`, `list_keys`, `lock`, `unlock`, `sync`, `reload_config`; `lock()` from the sleep watcher; bridge refreshes and poll | registry, provider, authorizer, bridge |
| Agent server, `daemon.py` | one task per connection | list identities, sign, refuse; in bridge mode proxy the whole connection | registry, authorizer, signing, bridge |
| Key registry, `keys.py` | `_identities`, `_private_keys`, both by public key blob | `add_key`, `clear`, `list_identities`, `get_private_key` | called by both servers |
| Bitwarden provider, `bitwarden.py` | `_session_key`, `_private_key_cache` | `unlock`, `lock`, `list_identities`, `get_private_key`, `configure_runtime` | the `bw` program, 10 s timeout |
| Authorizers, `polkit.py` | `_per_connection_cache`, `_ttl_cache` | `check_authorization` | polkit on the system bus |
| Peer credentials, `peercred.py` | none, builds each connection's context | `build_connection_context` | sockets, `/proc`, sysctl |
| Sleep watcher, `platform/` | a D-Bus or NSWorkspace subscription | locks when the system goes to sleep | control server |
| Windows bridge, `windows_bridge.py` | relay processes | `list_identities`, `proxy_client` | the relay program |
| Lifecycle, `daemon.py`, `control.py`, `cli.py` | sockets, pid file, shutdown events | start, signals, shutdown, restart | file system, systemd, launchd |
| Control client and commands, `control.py`, `cli.py` | none | one request per connection | control server |
| Tray, `tray.py` | last known state, poll timer | poll, lock, sync, unlock, notify | control server |
| Unlock interfaces, `ui/` | a window's state, a worker thread | ask the password, run `bw unlock`, send the session | `bw`, control server |
| Framing and encodings, `agent_proto.py`, `signing.py` | none | read and write messages, sign, encode | agent server |
| Configuration, logging, services, packaging | files | `load_config`, `install` | - |

What makes the daemon hard is that `unlock`, `sync` and a sign request *suspend*
in the middle: at the authorizer (as long as the user takes) and at `bw` (up to
10 s, once for the list and once more for every item whose private key the list
did not contain). While one is suspended every other task runs: another unlock
or sync, a lock, the sleep watcher, a sign request, a configuration reload; and
the vault itself may change. Nothing in the code holds a lock over a suspension.

What each part has to guarantee:

- *Registry and provider*: offered and signable keys are the same; a private key
  fits the blob it is stored under; every registered key is one the provider
  still has.
- *Lock*: once `lock()` has run nothing is offered or signable, and the agent
  refuses new sign requests, until a load brings keys again.
- *Unlock and sync*: a success tells the truth when it is written, unless a lock
  or another load came between the fetches of its items; an unlock that fails
  costs no key that was there; each request that starts `bw` is answered.
- *Agent*: a signature is by the key that was asked for, and only with the
  authorizer's consent.
- *Authorizer*: the user is asked exactly when he has not approved a request of
  the same connection, or of the same key and program, as the mode has it.
- *Bridge*: the state shown is one state and comes back to what Windows offers;
  a proxied client that keeps its connection open gets its answers, and the
  connection ends once one side does.
- *Lifecycle*: a process that is alone is reached at its paths, whatever killed
  ones left there; a signal ends it once its clients have left and its prompts
  are answered, and it leaves nothing behind.
- *Tray and interfaces*: success is claimed only when it happened, what is shown
  is true in the end, and no page stays for ever.
- *Framing and encodings*: the reader stays in step with the client, every
  answer can be read as the protocol says, and a malformed request costs its
  sender no more than a failure, unless it is a frame without a type.

## The modules

```
 SshKeys ─┬─ KeyRegistry ──────┬── ControlServer ──┐
          └─ BitwardenProvider ┘        │          ├─ Daemon ─┬─ MCDaemon (TLC)
             Authorizer ───────────────┴┬─ AgentServer        └─ DaemonProofs (TLAPS)
             KeyRegistry ───────────────┘           │  DaemonStoreProofs (TLAPS)
 KeyStore ◄─implemented by──────────────────────────┘
 ApprovalPolicy ◄─implemented by─ CachingAuthorizer ─┬─ MCCaching (TLC)
                                                     └─ CachingProofs (TLAPS)
 BridgeState ──┬─ WindowsBridge ─┬─ MCBridge (TLC)
 BridgeProxy ──┘                 └─ BridgeProofs (TLAPS)
 Lifecycle ─┬─ MCLifecycle (TLC)
            └─ LifecycleProofs (TLAPS)
 DesktopDaemon ─┬─ UnlockCommand ─┬─ Desktop ─┬─ MCDesktop (TLC)
                └─ Tray ──────────┘           └─ DesktopProofs (TLAPS)
 AgentProto ── Signing ─┬─ Wire ──────────┬─ MCWire (TLC)
                        └─ EncodingProofs ┴─ WireProofs (TLAPS)
```

- **SshKeys**: vault items and key pairs. A blob and its private half are both
  the pair, so "fits" is equality.
- **KeyRegistry**: the two dictionaries, as total functions. `AddKeys` is
  `add_key` for a set of items at once; when two items hold the same key either
  may be the last (the order of the listing is left open).
- **BitwardenProvider**: session, private key cache, and a `bw` per request that
  is started, *reads the vault at some later moment* (`BwReads`) and hands its
  answer over later still. `EditVault` is the user changing the vault.
  `ListsPrivate` says which items `bw list items` returns with their private
  key; for the others `get_private_key` runs `bw` again on a cache miss. A listing
  caches private keys as it parses items, and may break off at one.
- **Authorizer**: the authorizer as the servers see it: it answers without
  suspending, or suspends (`polkit`), or always refuses (`deny`: the system bus
  is unavailable). `RequiredAtStart` ties it to the configuration the daemon
  started with.
- **ControlServer**: one action per stretch of a connection's task between two
  suspensions. `pc` names the suspension: `idle` (waiting for a line), `prompt`
  (authorizer), `list` and `get` (`bw`). `RunLoop` is the loop over the
  identities from where it stands to its next suspension or its end: it is a
  single step because the code does not suspend on a cache hit. `reply` is the
  last response. Three ghosts record history for the properties: `stale[c]`, a
  lock ran since `c` started `bw`; `crossed[c]`, a lock or another load reached
  the registry while `c` fetched items one by one; `sinceLock`, what has been
  loaded since the last lock: nothing, cache entries of a listing that broke off,
  or keys, by a load that had begun after the lock or before it.
- **AgentServer**: SSH connections. `held` is the private key a sign request
  took from the registry before it asked the authorizer.
- **Daemon**: both servers over the shared state, and the properties.
- **KeyStore**: abstract. What the daemon is to its clients (SPEC.md 1.1 and
  2): one store of keys that is locked and loaded and makes signatures with the
  key found when it was asked. It has no vault, `bw`, session, cache or
  authorizer, one dictionary where `keys.py` has two, and a load is one step per
  delivery. `Daemon` gives the mapping: a client waiting for `bw` is a load under
  way, the two dictionaries are the store where both have the blob.
- **ApprovalPolicy**: abstract. What SPEC.md 4.3.4 promises: the user is asked
  about a request exactly when he has not approved one of the same scope within
  the lifetime of an approval. The scope is computed from the request alone: its
  requester's connection, or its key and the program that asks (`ScopeOf`). The
  policy has no caches, keys of caches, or addresses.
- **CachingAuthorizer**: `polkit.py`'s caches: checks of several connections
  suspended at once, the per-connection cache keyed by the *address* of a
  context that is freed with its connection, the ttl cache keyed by fingerprint
  and program and aged by the wall clock. `ReusesMemory` and `ClockJumps` say
  whether addresses are used again and whether the clock may be set. The branch
  for forwarded connections is left out: `build_connection_context` never marks
  a connection as forwarded.

- **BridgeState**: the control server in bridge mode. A refresh is a task that
  asks (`asking`), gets an answer (`answered`, the answer being what Windows
  offered *then*) and takes it up some steps later; the watcher's poll is one
  more such task. Lock requests and the sleep watcher write the same pair of
  variables in between.
- **BridgeProxy**: `proxy_client` for each SSH connection, its two pumps, the
  relay process and the client, which may shut its sending side, or leave, at
  any point. What is copied is counted in requests and answers. A peer that stops
  reading a full pipe, for which `drain` waits, is left out.
- **WindowsBridge**: both, with the fairness and the properties. The proxied
  connections never look at the control server's copy, as in the code.
- **Lifecycle**: several processes of `bwssh-agentd`, each from `main_entry` to
  its end, with what they share: two socket paths and the pid file. `serve` is
  where each of the two server tasks is, `conns` whether a client holds a
  connection, `prompts` whether a handler is suspended at the authorizer; it does
  not notice its client leave, so `wait_closed` waits for both (`NoConnection`).
  `LeftAt` is what a failing process can leave at its paths. The ghost `overlapped`
  records that two processes were alive at once: then the code protects neither
  from the other, and `Reachable` claims nothing.
- **DesktopDaemon**: the daemon as the desktop programs see it (down, locked,
  unlocked), changing at any moment, and the three ends of an exchange with it:
  an answer, nobody listening, or no line at all.
- **UnlockCommand**: `bwssh unlock` with the graphical window, the TUI, the
  terminal of its own or a given session. The graphical window has a thread:
  `worker` is where it is, `idle` the callbacks it has handed to the main loop,
  and `closing` the close handler between its look at the result and its store.
- **Tray**: `tray.py` and the command that guards it. A poll blocks the main
  loop from its start (`caller`) to the daemon's answer and what is shown of it.
  Notifications are left out: they are optional (`tray.py:289`), a failing one is
  swallowed (`tray.py:330`), and nothing depends on them.
- **Desktop**: the tray beside the command its menu starts.
- **AgentProto**: numbers, strings and frames of the protocol as sequences of
  bytes.
- **Signing**: the algorithm that a key and the flags of a request choose, the
  mpints of ECDSA signatures and the signature blob. What the cryptography
  library makes of the data is a constant, `Signature` or `Numbers`, applied to
  the data: any function will do.
- **Wire**: one agent connection byte by byte: the reader of frames, the requests
  parsed from their payloads, the answers. The client sends messages whose bytes
  are spelled out (`Body`): a sign request is its blob, data, flags and any bytes
  after them; a "malformed" one is any bytes behind the type that do not hold all
  of these (`Complete`), be they cut within a length field, a string or the flags,
  or name a length that goes past their end. They arrive in chunks of any size. `Answers` says what the protocol asks for in reply, in terms of a
  reader of the client's own (`NumberAt`, `EndOf`, `StringAt`, `Number`), which
  shares nothing with the code's packing and unpacking.

The operators commented *Mutant* are faulty variants of the definition after
them; no specification uses them. Each is what a plausible slip in the code
would give, and breaks the property it is paired with in `PROJECT.json`.

### Actions and code

| Action | Code |
|---|---|
| `ControlServer!Accept`, `Close`, `Request` | `control.py` `handle_client`: context built, published with each line, dropped in `finally` |
| `Query` | `status`, `list_keys`, malformed lines, unknown methods |
| `LockRequest`, `SleepLock` | `ControlServer.lock` with `AgentServer.lock` and `BitwardenProvider.lock`, by request and from the sleep watcher |
| `ReloadConfig` | `_handle_reload_config`; only `require_polkit` is read afterwards |
| `UnlockRequest`, `UnlockPromptAnswered` | `_handle_unlock` up to the authorizer, and from its answer to `bw` |
| `SyncRequest` | `_handle_sync` up to `bw`, or its answers without `bw` |
| `ListReturns`, `GetReturns`, `BwFails` | the rest of both, when `bw` has listed, fetched, failed or been killed |
| `ListBreaks` | `list_identities` raises at an item without a public key it can parse, having cached the private keys of those before it |
| `AgentServer!Connect`, `Disconnect`, `RequestIdentities`, `Unsupported` | `daemon.py` `handle_client` |
| `SignRequest`, `SignPromptAnswered` | `_handle_sign_request` before and after the authorizer |
| `CachingAuthorizer!Check`, `Approved`, `Refused` | `check_authorization` to its suspension, and polkit's answers |
| `BridgeState!RefreshRequest`, `Refreshed`, `BridgeQuery`, `BridgeLockRequest`, `BridgeSleepLock` | `control.py`'s handlers in bridge mode; the two halves of `refresh_windows_bridge_state` |
| `Poll`, `Polled`, `WatcherEnds`, `SetShutdown` | `auto_unlock_watcher` and the end of `_main_async` |
| `RelayAnswers`, `RelayFails` | `windows_bridge.py` `_request` and every way it fails |
| `BridgeProxy!ProxyStart`, `PumpIn`, `PumpOut`, `CancelPumps`, `ProxyEnd` | `proxy_client`: start, the two pumps, `asyncio.wait` with `FIRST_COMPLETED`, terminating the relay |
| `Lifecycle!StartProcess`, `AuthorizerReady`, `Signal`, `Die`, `End` | `daemon.py` `main_entry`: pid file, authorizer, signal handler, kill, `finally` |
| `Listen`, `ListenFails`, `CloseServer`, `ServerClosed` | `serve` of both servers: `_remove_stale_socket` and bind, failure, `close`, `wait_closed` and unlink |
| `ClientConnects`, `Prompt`, `PromptAnswered`, `ClientsLeave` | the handlers, as far as `wait_closed` depends on them |
| `UnlockCommand!Launch`, `Submit`, `SubmitEmpty`, `Bw...`, `Accepts`, `Refuses`, `KeysLost`, `Stores`, `Failed`, `ThreadEnds` | `cli.py` `unlock` and the workers of `ui/_graphical.py` and `ui/_tui.py`, statement by statement where another actor can come between |
| `RunIdle`, `CloseLooks`, `CloseCancels`, `CloseScreen`, `Returns` | GLib's idle callbacks, `_on_close_request`, `action_close_screen`, `run` |
| `TerminalEnds`, `Checks`, `DirectAnswer` | `ui/_terminal.py`, and `unlock` with a session it is given |
| `Tray!TrayStart`, `PeriodicPoll`, `OneshotPoll`, `Status`, `StatusLost`, `Show` | `tray.py` `run`, the two timers, `_do_poll` and `_notify_state_change` |
| `OnUnlock`, `OnLock`, `OnSync`, `OnItemLost`, `OnQuit` | the menu |
| `Wire!ReadLength`, `ReadBody`, `ReadNothing`, `ReadFails` | `agent_proto.py` `read_message` in `daemon.py` `handle_client`, up to the answer that is written |
| `Wire!ClientSends`, `Arrive`, `ClientCloses` | external: an SSH client and the socket |

### Abstractions

Keys, items, connections, addresses, fingerprints and programs are elements of
constant sets. A failed parse, an unsupported type and a key that cannot be
loaded are nondeterministic or given by `Unloadable` and `Unsignable`. Time is a
counter in the authorizer's module only. A client that closes its end while its
handler is suspended is noticed when the handler waits again, as in the code.
Response texts, logs, fingerprints and comments are left out.

## What is checked

Every run is exhaustive for its instance. Deadlock is checked except in
`CachingConnection` (the supply of addresses runs out), `Lifecycle` (every
process has ended) and `Wire` (the connection is closed).

| Run | Instance | Shows |
|---|---|---|
| `DaemonControl` | 2 control clients, 1 SSH client, 1 item, 2 keys, listing with private keys | `TypeOK`, `KeysMatch`, `UnlockedHasSession`, `ContextIsLive`, `SignatureMatches`, `LockedAgentRefuses`: unlocks, syncs, locks, sleep and sign requests that wait for a prompt overlap in every way while the item's key is replaced; no item is fetched by itself |
| `DaemonItems` | 1 control client, 2 items of which one is listed without its private key, 1 key that cannot be loaded | `RegisteredIsCached`, `QuietLock`, `ResponseIsTrue`, `FailureKeepsKeys`: listings that break off, loads that fetch item by item, fail half way, or have a lock fall in their middle; `LoadEnds`: every request that started `bw` is answered; `ImplementsStore`: to their clients such loads are loads of one store |
| `DaemonDenied` | 1 control client, 1 SSH client, 1 item listed without its private key, 2 keys, one of an unsupported type, an authorizer that refuses | `DeniedNeverSigns`: without the system bus no client known by its peer gets a signature, however the configuration is reloaded; `ImplementsStore`, with the signatures of clients that are not known |
| `CachingConnection` | 2 connections at a time, 3 addresses, 2 fingerprints, per_connection mode, the clock may be set | `ImplementsPolicy`, if no address is used twice |
| `CachingTtl` | 2 connections, 2 fingerprints, 2 programs, lifetime 2, clock to 3 | `ImplementsPolicy`, `TypeOK`, addresses being used again |
| `Bridge` | 1 control connection and the watcher, 1 identity, 1 proxied connection with 2 requests | `BridgeTypesOK`, `LockedMeansNoIdentities`, `AvailableIsTrue`, `AnswersAccountedFor`; `AnswersArrive`: the relay's answers reach a client that keeps its connection open, if no write to the relay fails; `FollowsWindows`, `LocksWhenUnreachable`: the daemon comes back to what Windows offers; `ProxyCloses` |
| `Lifecycle` | 2 processes, each started once, 1 client and 1 prompt per server | `TypeOK`, `Reachable`, `LeavesNothing`; `SignalledEnds`: a signal ends the process if its clients leave and its prompts are answered; `StartedServes`: it serves once its authorizer is set up |
| `Desktop` | every interface, 1 unlock command at a time, 1 tray | `TypeOK`, `ShownIsSaid`, `ErrorStays`, `SuccessIsTrue`; `LoadingEnds`, `TrayFollows` |
| `Wire` | 4 keys of 4 kinds, up to 2 messages of every kind, a sign request cut at every place and with either length a lie, ECDSA numbers around the sign bit of 1 to 4 bytes | `TypeOK`, `InStep`, `Understood`, `ClosesForCause` |

Why these bounds. In the daemon the races are between two loads, or a load and a
lock, or a prompt and either, so two tasks of which at least one can be
suspended are enough to have each; two keys are enough for a replaced one to be
taken for its predecessor; two items are enough for a loop that stops between
them. In `CachingTtl` the clock passes the end of an approval given at time 0 or
1, and two connections can wait for a prompt about the same pair. In the bridge
two refreshes are enough for the older answer to be the last; what is shown is a
set, replaced as a whole, so one identity tells locked from unlocked and old
from new; with `MaxRequests` = 2 one answer can be delivered and one be on its
way when a pump ends. Two processes are a restart with its overlap, or a crash and its
successor; what a client can do to a closing server is hold it open, so one per
server is enough. A queue of callbacks holds at most four entries, for only the page
they bring back lets the next attempt begin. Two messages let an answer be
followed by a request in the same chunk, or one frame be misread as part of the
next; chunks are of every size. All of this is beside the proofs, which hold for
any number of each.

### Where code and documents disagree

Each of these runs checks one statement of a document or comment, and TLC finds
it violated; the counterexample is short and follows the code.

| Run | Statement | What happens |
|---|---|---|
| `FindLockUndone` | README.md:143, keys are cleared on sleep | a lock does not stop the unlock or sync that waits for `bw`: its keys arrive after the lock, and unlock clears the flag |
| `FindReusedContext` | SPEC.md:227, once per agent connection | a new connection whose context is allocated where an old one was inherits its approval |
| `FindStuck` | `ui/_graphical.py:456`, `TimeoutError` when `bw` does not finish | `subprocess.run` raises `TimeoutExpired`, which none of the thread's handlers catches: the window stays on its loading page |

Others are visible in the models, and are stated here without a run of their
own:

- `control.py:97` and `:100` call `ControlServer.lock` the single source of
  truth and `_locked` in sync with the keys. A sync with a session of its own,
  or with the one an unlock stored before it failed, loads keys on an agent that
  goes on saying it is locked (`SyncRequest`, `RunLoop`).
- SPEC.md:166 has a locked agent answer a sign request with failure. A request
  that waits for its prompt when the lock comes is signed afterwards with the
  key it holds (`SignPromptAnswered`). `LockedAgentRefuses` is about new ones.
- SPEC.md:333 has sync refresh the keys. After an unlock that a lock overtook
  the agent is unlocked without a session, and sync reports success without
  asking `bw`; `UnlockedHasSession` says that this is the only way.
- SPEC.md:68 asks for a valid signature for a matching key. When listings omit
  private keys, a replaced key is paired with its predecessor's cached private
  key (`GetReturns`); `KeysMatch` and `SignatureMatches` are checked, and
  proved, for listings that carry them.
- A lock clears the provider's private keys, but a listing under way puts some
  back even if it then breaks off at an item it cannot parse
  (`bitwarden.py:107`): private keys stay cached on a locked agent until the next
  lock. Nothing is registered, so nothing can be signed (`ListBreaks`,
  `QuietLock`, `LockedAgentRefuses`).
- A load that fetches items one by one does not notice a lock or another load
  between two fetches; its success then claims keys that are gone. `ResponseIsTrue`
  excepts it (`crossed`).
- A sync clears the registry before it loads (`control.py:333`), so one that fails
  half way costs the keys that follow; `FailureKeepsKeys` is about unlocks.
- A client of the bridge that shuts its sending side and reads on may lose
  answers: the end of its input cancels the pump of the answers
  (`windows_bridge.py:78`). `AnswersAccountedFor` excepts it.
- `_current_conn_ctx` is shared by all connections, so the refusal at
  `control.py:275` may log another connection's pid or fail on `None`; the
  client gets an error either way, which is what `UnlockPromptAnswered` says.
- An approval's age is measured with `time.time()`, so setting the clock back
  extends it.
- The settings under `ssh` and `auth.deny_forwarded_by_default` (README.md:103
  and the configuration guide in `docs/content/3.guide/`) are parsed and printed
  by `config show`, and read by nothing else.

### Fairness

Safety is checked of every behaviour; these are assumed for liveness only.

- `Daemon!FairSpec`: weak fairness of "the `bw` of this request ends", for each
  client. `_run_bw` kills `bw` after 10 seconds and raises, and the event loop
  then resumes the task, so the step stays enabled and must be taken. Nothing is
  assumed of clients, of the vault, or of the user in front of a prompt, for the
  code bounds none of them.
- `WindowsBridge!FairSpec`: a relay answers or is given up after 5 seconds, the
  poll's interval passes, and the event loop resumes tasks and pumps.
  `FollowsWindows` says "again and again", not "for ever", because a client may
  lock the agent as often as it likes and an older answer may be taken up last.
- `Lifecycle!FairSpec`: the two server tasks go on, and `main_entry` ends when
  both have. Nothing is assumed of the authorizer's set-up, whose connection to
  the system bus has no timeout (`platform/_linux.py:135`), nor of clients and
  prompts, for the code bounds none of them. So `StartedServes` begins where the
  set-up has ended, and `SignalledEnds` has `NobodyStays` as its antecedent: a
  client that keeps its connection keeps the process, and so does a prompt nobody
  answers after its client has left.
- `Desktop!FairSpec`: `bw` has a timeout (30 s), threads and main loops go on,
  the tray's timer fires and the daemon answers a status at once. Nothing is
  assumed of the user, nor of how long an unlock takes, which may wait for a
  prompt: `LoadingEnds` therefore excepts a window that waits for the daemon,
  and one whose thread has died, which is `FindStuck`. `TrayFollows` excepts a
  tray that was closed or whose timer an unhandled error has removed
  (`tray.py:256`).

## What is proved

TLAPS checks these for every number of connections, items and keys.

`DaemonProofs`, of `Daemon!Spec`:

| Theorem | Statement | Argument |
|---|---|---|
| `TypeCorrect` | `[]TypeOK` | inductive; one lemma per group of steps |
| `LockIsComplete` | `[]QuietLock` | inductive as it stands; `OtherSteps` says that only locks, loads and listings that break off touch the state it speaks of |
| `LockedMeansRefused` | `LockedAgentRefuses` | from `QuietLock`: the request finds no private key |
| `RegistryWithinCache` | `[]RegisteredIsCached` | inductive; a load only adds to the cache and registers from it (`LoadUsesCache`) |
| `SessionStaysWithUnlock` | `[]UnlockedHasSession` | needs `UnlockHoldsSession`: an unlock that no lock overtook runs with the session stored |
| `KeysAlwaysMatch` | `[]KeysMatch`, if every configured item is listed with its private key | needs `NoFetch`: then no item is fetched alone, and the cache was refreshed by the listing being loaded |
| `SignaturesMatch` | `[]SignatureMatches`, same hypothesis | needs `HeldIsAsked`, which a new request gets from `KeysMatch` |
| `DenialHolds` | `[]DeniedNeverSigns` | needs `NoPromptIfDenied`: nobody waits for a prompt |
| `ContextStaysLive` | `[]ContextIsLive` | inductive |
| `ResponsesAreTrue` | `ResponseIsTrue` | needs `NoReplyYet`: a request in the middle of a load has no response yet; and, for a load that fetched items, that what it has registered so far is still there as long as nothing crossed it |
| `UnlockFailsSafely` | `FailureKeepsKeys` | needs `UnlockUnanswered`: an unlock under way has no response yet, so an error is its own; `AddingKeeps`: a loop over items only adds |

`DaemonStoreProofs`, of `Daemon!Spec`, whatever the listings carry:

| Theorem | Statement | Argument |
|---|---|---|
| `DaemonImplementsStore` | `ImplementsStore` | refinement of `KeyStore`; the invariant `StoreInv` says that both dictionaries have the same blobs (so `clear`, `add_key` and a lookup act on them as on one), that no stored key is one the parser rejects, and that whoever waits for `bw` is in an unlock or a sync. Each control step is a step of one load, a lock, or none; each step of an SSH client is an `Ask`, `Grant`, `Refuse`, or none |

TLC checks the same refinement in `DaemonItems` and `DaemonDenied`, in which no
request waits for a prompt before it signs; the theorem covers those too.

The hypothesis of `KeysAlwaysMatch` and `SignaturesMatch` cannot be dropped: a
key that is fetched by itself may come from the cache after it was replaced (see
SPEC.md:68 above).

`CachingProofs`, of `CachingAuthorizer!Spec`:

| Theorem | Statement | Argument |
|---|---|---|
| `CachingTypeCorrect` | `[]TypeOK` | with `AsksInMode`: who waits has an open connection and a scope of the mode |
| `CachesImplementPolicy` | `ImplementsPolicy`, if the clock is not set and, in per_connection mode, no address is used twice | refinement; the invariant `CacheInv` says what each cache knows of past approvals, `CachedIsCovered` that a cache answers exactly when the policy covers the scope that follows from the request, and each step is one step of the policy or none |

`FindReusedContext` shows that the hypothesis on addresses is needed.

`LifecycleProofs`, of `Lifecycle!Spec`, for any number of processes:

| Theorem | Statement | Argument |
|---|---|---|
| `LifecycleTypeCorrect` | `[]TypeOK` | inductive |
| `OverlapRecorded` | `[]OverlapsSeen` | two processes that are alive at once are both recorded as overlapped, so that `Reachable` leaves out no process that was alone |
| `AloneIsReachable` | `[]Reachable` | uses `OverlapsSeen`: another process that takes or removes a path is alive, and so is this one |
| `EndLeavesNothing` | `[]LeavesNothing` | needs `ServersOver`: a server that is over has left its path, and a process has ended only with both over |

`BridgeProofs`, of `WindowsBridge!Spec`, for any number of tasks, identities and
proxied connections:

| Theorem | Statement | Argument |
|---|---|---|
| `BridgeTypeCorrect` | `[]BridgeTypesOK` | needs that no connection passes on more than its client wrote |
| `LockStateIsOne` | `[]LockedMeansNoIdentities` | inductive: every step that writes one of the two writes the other |
| `AvailableAnswers` | `AvailableIsTrue` | of the steps that leave a task idle only its own `Refreshed` applies |
| `NoAnswerLost` | `[]AnswersAccountedFor`: no answer is passed on twice or before its request, and one is lost at the end of a connection only if the client had shut its sending side or left, or writing to the relay had failed | needs `ProxyInv`: why each pump is over, and that `proxy_client` goes on only when one is |

`DesktopProofs`, of `Desktop!Spec`, for any set of interfaces:

| Theorem | Statement | Argument |
|---|---|---|
| `CommandInvariant` | `[]CommandInv` | inductive: `Places` (which page, worker and queue can be at once), `Queue` (the order of the callbacks), `ErrorComes`, `SessionShown`, `SessionAccepted` |
| `TrayInvariant` | `[]TrayInv` | inductive: a poll runs only in a process |
| `DesktopTypeCorrect`, `SuccessShownIsSaid`, `ErrorIsShown` | `[]TypeOK`, `[]ShownIsSaid`, `[]ErrorStays` | parts of the two invariants |
| `SuccessReported` | `SuccessIsTrue` | from `SessionAccepted`: what `Returns` reports was stored after the daemon accepted it |

`EncodingProofs`, of the operators of `AgentProto` and `Signing`:

| Theorem | Statement |
|---|---|
| `Uint32RoundTrip` | every number of 32 bits becomes four bytes that are read as that number |
| `StringRoundTrip` | every packed string of bytes is unpacked as itself, at any place, whatever follows, and the reader goes on right behind it |
| `MpintRoundTrip` | the mpint of every natural number of at most `MaxBits` bits, for any `MaxBits`, is read back as that number by a reader that accepts only the shortest two's complement form |

The operators of `Signing` that go over the bits of a number are recursive
functions. The library's induction theorems take an operator as a parameter and
cannot be used; `Induction` is proved instead for sets of numbers, from the
well-foundedness of `<`, and `RecursionExists` and `RecursionUnique` from it. For
`MpintRoundTrip`, `BytesRead` says that reading the first *i* bytes of a number
gives it shifted right by what is left, and `BitLengthIs` that the sign bit is
then clear and no byte is superfluous. `Holds(data, k, part)`, that the bytes of
`part` stand in `data` after the first `k`, is what the other lemmas are about: it
is split where bytes are joined, and kept when more is appended.

`WireProofs`, of `Wire!Spec`, for every registry, set of messages, number of
requests, cut of the stream, signature and pair of ECDSA numbers:

| Theorem | Statement | Argument |
|---|---|---|
| `WireInvariant` | `[]WireInv` | inductive: `Framing`, the stream is the frames of the requests and `ends` their ends; `InStep`; `Waiting`, the length that is waited for is that of the next request, so that the body cut out of the stream is its `Body`; and the four below |
| `RepliesAreFrames` | `[]TypeOK` | from `Answered` |
| `ReaderInStep` | `[]InStep` | `ReadLengthKeeps`, `ReadBodyKeeps` |
| `RepliesUnderstood` | `[]Understood` | `Answered`: the answer to any body with a type is the reply the protocol asks for. For the identities, the *j*-th string of the answer begins at `Mark(j)` (`IdentitiesListed`); for a sign request, `SignRequestRead` says that its parts are found, `IncompleteRead` that a payload which does not hold them all is never taken for one that does, and `SignReplySigns` reads the reply back, down to the numbers of an ECDSA signature |
| `HandlerClosesForCause` | `[]ClosesForCause` | a length of zero is that of an empty message only (`BodyIs`) |

`WireAssumption` is what they rest on: blobs differ from each other, bytes are
bytes, each length has four of them, names of algorithms are shorter than 100
bytes, signatures shorter than 65,536, and ECDSA numbers have at most 521 bits,
the size of the largest curve's order. `WireInv` also
holds on the instance of the run, with the bound of `Uint32` lowered to what
TLC's integers hold.

The assumptions on the constants are the modules' named `ASSUME`s: that the
stand-ins for "none" are not elements of the sets they complete, that the
configured and special subsets are subsets, the ranges of the settings, and
`WireAssumption`. TLC evaluates them in each run.

Only model-checked: everything temporal (`LoadEnds`, `FollowsWindows`,
`LocksWhenUnreachable`, `ProxyCloses`, `AnswersArrive`, `SignalledEnds`, `StartedServes`,
`LoadingEnds`, `TrayFollows`), for liveness is out of the prover's reach,
and the violated statements. Every invariant and every action property of the
passing runs is a theorem, and so are both refinements.

## What is not modelled

`PROJECT.json` lists every component with its status, and every hazard with the
properties that cover it or the reason none does.

- **`configure_runtime`** (which `bw` program and `PATH` are used) and polkit's
  own protocol: the first tells nothing the properties could see, the second is
  other people's code, and answers yes, no or not at all in the models.
- **Reading credentials and process metadata** (`/proc`, sysctl, socket
  options): input without state. What becomes of a connection with and without a
  context is modelled.
- **The forwarded-connection branch** of `CachingAuthorizer`:
  `build_connection_context` never marks a connection as forwarded.
- **The commands that print**: `status`, `keys`, `lock`, `sync`, `config`,
  `doctor`, and `unlock` in bridge mode (`cli.py:408`) send one request, or none,
  print the response and keep nothing.
- **Notifications of the tray**, and the back-pressure of a proxied connection.
- **Which interface is chosen** (`ui/_detect.py`) is the set `Uis`; a second
  window of one GTK application, which shares its process with the first, is
  left out, and is named among the hazards.
- **`install`, the service units, socket activation, logging, packaging**: files
  and other programs without state of bwssh's own. The sleep watcher's D-Bus
  and AppKit set-up: the models have a lock at any moment, which covers a
  watcher that works and one that does not.
- **Reading configuration files**: a function of one file; what a reload
  changes in a running daemon is an action.
- **Cryptography, GTK, GLib and Textual** beyond what the code in
  `src/src/bwssh/` relies on.

What could still be added: two unlock commands at once; and `Daemon` and `Lifecycle`
in one module, for an unlock that is in flight at a shutdown.
