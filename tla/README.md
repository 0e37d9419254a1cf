# TLA+ models of FiSH_11

FiSH_11 encrypts IRC conversations inside mIRC. One DLL (`fish_11_inject`)
hooks the socket functions of the process and hands lines to registered
engines; another one (`fish_11_dll`) is such an engine, keeps keys and answers
the calls of mIRC scripts; the scripts (`scripts/mirc`) run the key exchanges
over NOTICEs. This directory models the parts of that program whose
correctness depends on the order of steps, on failures or on what is left in
memory and on disk, checks the models with TLC and proves theorems about eight
of them with TLAPS.

Contents: [parts of the system](#parts-of-the-system),
[plan](#plan), [modules and code](#modules-and-code),
[runs](#runs), [bounds](#bounds), [fairness](#fairness),
[proofs](#proofs), [disagreements](#disagreements-with-comments-and-documents),
[what is left out](#what-is-left-out). File names without a directory are under
`fish_11_dll/src`, `fish_11_inject/src` or, for the master key,
`fish_11_core/src`.

## Parts of the system

| Part | State it keeps | Operations | Talks to |
|---|---|---|---|
| Configuration access (`config/config_access.rs`, `file_storage.rs`, `models.rs`) | `CONFIG` behind an `RwLock`, its dirty flag, the INI file and a temporary file | `with_config_mut`, `ConfigWriteGuard` and its Drop, `save_config`, `load_config`, the counters | every exported function of the DLL |
| Key store (`key_management.rs`, `networks.rs`, `ini_helpers.rs`) | entries by nickname and network, nickname to network mapping, `CURRENT_NETWORK`, lifetime of keys | `set_key`, `get_key`, `delete_key`, `get_key_ttl`, `check_key_expiry`, network changes | configuration access |
| Key exchange (`fish11_exchangekey.rs`, `dll_interface/key_management.rs`, `fish11_key_exchange.mrc`, `fish11_key_management.mrc`) | keypair, hash table `fish11.dh`, timers | `X25519_INIT`, `X25519_FINISH`, timeout | key store; the peer through NOTICEs |
| Channel keys (`channel_encryption/`, `state_management.rs`, `fish11_channel.mrc`) | channel key, ratchet state, manual key | distribute, process, encrypt, decrypt, remove | key store; members through NOTICEs |
| Receive pipeline (`hook_socket.rs`, `hook_ssl.rs`, `incoming_irc.rs`, `buffers.rs`) | `received_buffer`, `processed_incoming_buffer` of a `SocketInfo` | `hooked_recv`, `hooked_ssl_read` | engines, the application |
| Engine registry and sockets (`engines.rs`, `hook_socket.rs`) | `ENGINES`, the pre and post lists, `registered_ptrs`, `ACTIVE_SOCKETS` | register, unregister, a pass of callbacks, `get_or_create_socket`, `closesocket` | engine DLLs |
| Outgoing pipeline (`fish11_encrypt_out.mrc`, `hook_socket.rs`, `outgoing_irc.rs`, `protocol_detection.rs`, `attempt_encryption`) | `outgoing_line_buffer`, state and flags of a `SocketInfo` | the on INPUT handler, `hooked_send`, `on_sending` | engines, the peer |
| SSL mapping (`ssl_mapping.rs`) | two maps between SSL contexts and sockets | associate, look up, remove, repair | `hooked_ssl_*`; nothing that runs associates |
| Hook life cycle (`helpers_inject.rs`, `hook_ssl.rs`, `hook_socket.rs`, `dll_interface.rs`) | a detour per hooked function in a mutex, `ORIGINAL_SSL_WRITE`, `SSL_HOOKS_INSTALLED` | `LoadDll`, `UnloadDll`, partial installation and its rollback, the calls of the hooks | the process |
| Master key (`fish11_masterkey.rs`, `master_key/`, `encrypted_file_storage.rs`) | `MASTER_KEY`, `KEY_SYSTEM`, the keystore file, the sealed configuration | init, unlock, lock, change password, seal | scripts |
| Legacy FiSH 10 (`legacy/`, `dh1080.rs`, `fish11_legacy.mrc`) | `legacy_keys`, `blowfish.ini`, `dh1080_keys`, hash table `fish10.dh` | set, delete, topic setting, DH1080 exchange | the peer through NOTICEs |
| Command line client (`fish_11_cli`) and the key functions of `dll_interface/` | a process per call with its own `CONFIG`; the file all share | check the line, load the DLL, call one function, print the answer | the DLL; mIRC through the file |

What makes them hard:

* **Threads.** mIRC's main thread calls the DLL, hooks run on whatever thread
  uses a socket, and the locks (`parking_lot` and `DashMap`) are not
  re-entrant. Every part with shared state is modelled with one action per
  section a thread executes under one lock.
* **Processes.** `fish_11_cli` and mIRC each have the whole configuration in
  memory and write all of it to one file that nobody locks.
* **Failure in the middle.** A file operation can fail after the temporary file
  was written, a distribution can fail for one member after the key was
  installed, a process can stop between two saves, `send()` can take a part of
  what it was given.
* **Ordering on the network.** Two clients may start exchanges at the same
  time; a FINISH may arrive after its exchange has timed out; an old notice is
  in flight while a new key is installed.
* **Boundaries.** A line is cut by `recv` or by the application anywhere; a
  buffer is smaller than a line; a key is exactly as old as its lifetime.
* **Two implementations of one thing.** The script's functions and the engine
  each seal and open lines; `CONFIG` and `blowfish.ini` each keep keys;
  `MASTER_KEY` and `KEY_SYSTEM` each say whether the master key is there.

What makes each part correct:

* *Configuration*: the file is always a whole configuration, never newer than
  memory was and never older than it has been; a clean configuration is on
  disk, unless the file could not be read; a save that fails is not forgotten;
  every call returns.
* *Key store*: the three readers of a key's age agree; a manual key disappears
  only when someone deletes it; what was set is what is read; a restart that can
  read the file keeps the keys and their networks, but for names that an INI
  reader takes for something else.
* *Key exchange*: "key exchange complete" means that both sides hold the same
  key; a secret is never separated from the keypair it was made with; a
  placeholder key does not outlive an undisturbed exchange; an exchange whose
  timer lives ends.
* *Channel keys*: members who have a coordinator's latest key can read what it
  sends; members told of the same key agree; the ratchet state is not what
  decides which key is used (`RatchetUnreached`).
* *Receive pipeline*: the lines the application reads are the lines the server
  sent, decrypted where an engine decrypts them, whole and in order; 0 is
  returned only when the connection closes; the buffer stays bounded.
* *Engine registry*: threads do not wait for each other in a circle; no callback
  runs in an engine that unregistered and has gone; the lists match the registered
  pointers; a socket has one `SocketInfo`.
* *Hook life cycle*: `UnloadDll` returns and leaves no function that jumps into
  the DLL; SSL is hooked whole or not at all; a hook refuses a call only while
  hooks come or go.
* *Outgoing pipeline*: a connection is taken for what it is once and for all;
  the engines see each line once and whole; a text that is to be encrypted does
  not leave in clear; what one side seals the other reads.
* *Master key*: the password that was accepted opens the keystore, and no other
  one; what was sealed under a keystore stays readable with it; only its owner
  replaces it.
* *Legacy FiSH 10*: a saved key is the one that is loaded; an exchange that
  nothing disturbs leaves both sides with one key, and every exchange whose timer
  lives ends.
* *Command line client*: a generated key replaces none; the key that was set is
  the key that is told, to processes that are in step with the file.

## Plan

The order follows what a user would notice first when it goes wrong: keys lost
on disk, keys that differ, lines that disappear, a client that hangs.

1. `ConfigAccess`, which implements the abstract `ConfigFile`, with
`ConfigurationProofs` — done. 2. `KeyStore`, with `KeyStoreProofs` — done. It
takes the configuration as one atomic structure, which `ConfigAccess` justifies:
`with_config_mut` holds the write lock. 3. `RecvPipeline`, which implements the
abstract `LineStream`; its buffer is proved about in `PipelineProofs` — done. 4.
`ChannelKeys`, with `ChannelKeysProofs` — done. 5. `EngineRegistry`, with
`EngineRegistryProofs` — done. 6. `KeyExchange`, with `KeyExchangeProofs` — done.
7. `HookLifeCycle`, with `HookLifeCycleProofs` — done. 8. `MasterKey`, with
`MasterKeyProofs` — done. 9. `Legacy`, with the DH1080 exchange; its proofs are in
`KeyStoreProofs` — done. 10. `LineCrypto` and `SendPipeline`, which composes the
script, the hook and the engine, with `PipelineProofs` — done. 11. `CommandLine`;
its proofs are in `ConfigurationProofs` — done.

Dropped: `SslMapping`. Only `hooked_ssl_set_fd` and `store_ssl_mapping` add to
the two maps; the first is never installed and the second never called, so the
maps are empty in every run of the program.

Next, were the project to go on: a second `LoadDll` after `UnloadDll`, with the
engines (`HookLifeCycle` over `EngineRegistry`); a key agreement that
`KeyExchange` implements when nothing fails; proofs of the steps of `RecvPipeline`
that `LineStream` allows.

## Modules and code

### ConfigAccess and ConfigFile

`mem` and `dirty` are `CONFIG` and its flag, `disk` and `tmp` the file and the
temporary file as versions (or `Torn` while one is written). A thread acquires
the write lock, runs its closure (`Closure`: changes something or nothing,
returns Ok or Err), and goes through `save_config` step by step (`OpenTmp`,
`WriteTmp`, `RenameTmp`, each of which may fail) before its guard is dropped
and the lock released. `Clone` and what follows it is the snapshot save of
`FiSH11_ExchangeKey`, which clones the configuration and calls `save_config`
without the lock. `Restart` is a crash at any point followed by
`init_config_file` and `load_config`, which gives the file (`Load`) or fails on a
good one (`LoadFails`: locked by another program, or slower than its five
seconds). `CONFIG` then starts from the defaults with a clean flag, and the next
save replaces the file: `unread` remembers this until it has happened, and the
properties exclude it by name. A configuration is abstracted to the number of the
change that made it: no property distinguishes its content. `newest` is the last of
these numbers, since a change after a failed load makes a version that neither
memory nor the file has had.

`ConfigFile` is what this amounts to for the process: a memory that changes, a
file that a save replaces in one step by what memory holds, and a restart that
goes on from the file or, when it cannot be read, from the defaults. Opening,
writing and renaming the temporary file, and all that fails, are stutters but for
the rename. Its `loose` is `snapshots`: after a snapshot save the file may be any
earlier version or a torn one, and this is as much as the code ensures.
`ImplementsConfigFile` is the refinement.

### KeyStore

`entries` maps a nickname and network to a key, its age and whether it was
exchanged, `mapping` a nickname to its network, `current` the network of the
script's last call. Dates are ages that `Tick` advances. A step is one section
under the lock: `set_key` has two (`SetEntry`, `SetMapping`), `get_private_key`
three, with other threads in between. `ReadLifetime` and `CheckKeyExpiry` are those
of `check_key_expiry`, which may judge an entry by a lifetime that has been changed
meanwhile; `FinishGet` is `get_key`. The readers of a key's lifetime are operators
(`TtlText` and what is built on it: `GetKeyTTL`, `Status`, `AboutToExpire`,
`AllKeysWithTtl`), which `ReadersAgree` compares with what `get_key` returns and
`check_key_expiry` deletes. Lifetimes out of range stand for what a user may have
written into the INI file.

`Restart` says what comes back from the file. Names are written into it as they are,
so an entry of a `#channel` is a comment to the reader, and one of a `[tag]nick` is
the header of a section: neither comes back, and after a header the lines that
follow belong to another section (`Misread`, `Survivors`). How many these are
depends on how the names sort, so any of them may be lost. `RestartUnread` is a
restart that cannot read the file at all.

### RecvPipeline and LineStream

`wire` is what the server has still to send: symbols for the text, the CR and the
LF of each line. `Receive` takes a chunk of any size, or whole lines; `Process`
and `ProcessLossy` are `process_received_lines` with its two branches (UTF-8 and
not), which run the engines over each line; the second one converts the text
first, which makes three bytes of each one that is not valid (`Lossy`); `Return`
is what `hooked_recv` copies into the application's buffer: whole lines, if one
fits, or a piece. `LineStream` promises that the application gets lines in order,
whole, each as the engine made it, and some of them perhaps not at all;
`ImplementsLineStream` is the refinement with the lines in the application's
buffer as the abstract state. It is stated for connections that deliver whole
lines which fit the application's buffer after that conversion (`Fitting`): when
they do not, `hooked_recv` clears complete lines. For lines cut by `recv`,
`CompleteLinesDelivered` is what holds. `ReceivedBounded` allows for one chunk
that alone is over the limit, which the code takes after it has emptied the
buffer. The names of this module's specification start with `Recv`, as those of
`Legacy` start with `Legacy` and those of `CommandLine` with `Cli`, so that each
can be extended together with another module.

### ChannelKeys

Clients with `channelKey`, `ratchet` and `manual` key each, and `link`, the
notices and messages in flight from one to another in IRC's order.
`FiSH11_InitChannelKey` installs the coordinator's new key before it wraps it
for the members one by one, which may fail (`DistributeFails`). The notices come
back to the script in one answer, which is cut at 900 bytes without an error: when
they are too many, only some members are told (`Reached`, with room for
`channel.fits` of them), and `group` has only these.
`FiSH11_ProcessChannelKey` accepts a key from the coordinator it expects and
refuses others. `SetManualChannelKey` and `RemoveManualChannelKey` are a user's
own key for the channel, which comes first. Wrapping is perfect: only the one it
is for can unwrap a key. The ratchet itself is not modelled: no client ever has a
ratchet state without a channel key beside it, and a channel key comes first
(`RatchetUnreached`, a lemma of `ChannelKeysProofs`).

### EngineRegistry

Threads run `register`, `unregister`, a pass (`on_incoming_irc_line` and the
like), `get_or_create_socket` and `closesocket`; `at` is where a thread is.
The locks are `ENGINES`, the two lists (write locks that wait for readers,
`asked`) and a shard of `ACTIVE_SOCKETS`. `get_or_create_socket` clones the
`Arc` in `ENGINES` before it enters the shard; `hooked_closesocket` keeps a read
guard on the shard while it tells the engines; an engine that is given a line
asks `GetNetworkName`, which reads `ACTIVE_SOCKETS` from inside the callback.
`FiSH11_InjectDebugInfo` reads the sockets (`Statistics`), locks `ENGINES`
(`LockForNames`) and then reads the lists (`Names`): since every writer of a
list holds `ENGINES`, it never waits for one. `Forgetful` engines are those
whose DLL is unloaded without `UnregisterEngine`. `fish_11_dll` is one, and the
instance has it beside an engine that unregisters. Nothing keeps a pass from calling
a forgetful engine after it has gone, so `CallbacksReachLoaded` is about the others.

### KeyExchange

Any number of clients, each with `mem` and `saved` configurations (a keypair
number and a key per nickname), `dh` and `timer` of the script, and a FIFO
`link` to each other client. A key is what it was made of: the pair of public
keys, or a client's random placeholder. mIRC runs one handler at a time, so a
handler is one action; what a call into the DLL may leave, with every failure
of a save it makes, is a set of outcomes (`ExchangeKey`, `ProcessPublicKey`).
Points where the model follows the code closely:

* `FiSH11_ExchangeKey` stores a random key before anything is agreed. A later
  failure leaves it there, and the OPEN handler, which asks whether there is a
  key, does not retry.
* `get_keypair` generates a keypair itself when there is none, so the
  `was_generated` flag of `get_or_generate_keypair_internal` is never true and
  a keypair made when a key already existed is saved only by the guard's Drop.
  `SecretsOverOwnPair` shows that no secret is left behind by that.
* A FINISH that arrives after the timeout is refused, which leaves one side
  with the secret and the other with its random key. The properties exclude it
  (`disturbed`) where the code does not promise more.
* The timer runs out after a completed exchange too, and a timer of the same
  name is replaced by a restarted exchange.
* The timer is started without `-o`, so mIRC turns it off when the connection is
  lost (`Disconnect`), while `fish11.dh` keeps its mark. `untimed` are the
  exchanges that this has left without a timer; `ExchangesEnd` excludes them.
* `SetKey` changes memory whether or not its save fails.
* With two clients both readings of `$hget(fish11.dh,$nick).item` coincide.

### HookLifeCycle

`patched` are the functions whose first bytes jump to their hook, `stored` those
whose detour is in its static, `original` and `installed` the slot and the flag of
the SSL hooks, `lock` who holds the mutex the hook of a function takes. The loader
thread goes through `install_socket_hook` for each function (`Enable` before
`Store`), `install_ssl_hooks`, which takes all its locks first and rolls back
(`SslFails`), and on unload `uninstall_ssl_hooks` and `uninstall_socket_hooks`,
where a mutex that is not free for five seconds leaves its detour (`Remove`). A
call enters its hook, takes the mutex (or gives up: `TimeOut`), copies the way to
the original function and releases the mutex before it calls it (`Fetch`, `Call`).
That way is the trampoline for all functions but `SSL_write`, whose slot has the
address that is patched. The detours' own behaviour is the `retour` library's:
enabling and disabling are one step each and either may fail. At its end
(`Finish`) `UnloadDll` locks `ENGINES` without a limit of time, unlike the hooks'
mutexes; that this wait is not part of a circle is `NoCircularWait` of
`EngineRegistry`. mIRC is taken to call `UnloadDll` before it frees the DLL, after
a `LoadDll` that failed too.

### MasterKey

`masterKey` and `keySystem` are the two places where a key may be; `store` the
keystore file of each directory, `config` the key under which the configuration of
each directory is sealed. A key is the password and the salt it was derived from.
A password is a sequence of words, because `FiSH11_MasterKeyChangePassword` gets
both of them in one text and cuts it at the first space: what an old password has
after a space becomes the beginning of the new one (`OldHeard`, `NewHeard`), and
`slipped` remembers it. The calls come from mIRC's script thread and are one
action each; a call that is refused changes nothing. A write leaves the new file,
the old one, an empty or a torn one (`Save`). The keystore file is itself
encrypted under the working directory, so a file written from another one does not
load (`Loads`), and the reading of a good one may fail (`LoadFails`), which
`Unlock` takes for a first start like any other error. `debug` is the build:
release builds do not save what `Unlock` and `ChangePassword` make.

### Legacy

Each client has `keys`, its `file` as a sequence of lines (a key, or bytes that
are not UTF-8), the key pair kept for the peer (`private`) and the script's mark
of an exchange in progress (`dh`). `WriteFile` lets every write fail or stop
after any line; `LinesAt` keeps the lines at some positions, which is how a line is
removed. A reading of the file, when the DLL is loaded, may fail and leaves no keys.
`Rewritten` is what a topic setting makes of the file through rust-ini: lines of
`#channel` were comments and are gone, and `[tag]bob=...` was the header of a section
with a line for `bob`, which is what it is from then on (`Bare`). The exchange is
three handlers and a timer, which a disconnect turns off (`adrift`); every INIT
makes a new key pair, which replaces the one kept. `apart` and `settled` are
history: they say for which targets memory and file need not agree, and for which
exchanges the program can be held to something.

### LineCrypto and SendPipeline

`LineCrypto` has no state: it gives, for the keys of a client and a target, what
`FiSH11_EncryptMsg`, `FiSH10_EncryptMsg` and `attempt_encryption` make of a text,
and what `FiSH11_DecryptMsg` and `attempt_decryption` make of a line. A sealed
body is its mark, its key and its associated data; a target is a channel or not,
in lower case or not, with a STATUSMSG prefix or not. A text that is `Long` is too
long for the answer that brings it sealed to the script, which is cut at 900 bytes
and cannot be opened any more (`Carried`).

`SendPipeline` puts it between a user and a reader. `Type` is the on INPUT
handler, with a key that may expire in between (`Age`); what mIRC puts out is a
stream of tokens, four for each line, of which `HookedSend` passes any number
to `on_sending` and the original `send()` takes any part. `HookedConnect` may
come before. `on_sending` gives whole lines to the engines; their result (`made`)
is thrown away by the code, which sends the buffer it was given, so what the
reader sees (`Read`) is what the script sealed. `SealedIsRead` is about both. `KeyOf` says
which key goes with a line, and `ReadBack` which lines the code cannot open again
even with it.

### CommandLine

Processes over the same files: the runs of `fish_11_cli`, and mIRC, which loads
the DLL once and may change `MIRCDIR` afterwards. Each has its own `CONFIG`
(`memory`), made of the file of its directory when the DLL is loaded, or of the
defaults if that fails (`ReadConfig`); what the INI reader makes of channels and
bracketed nicknames is `Loaded`, as in `KeyStore`. Each call that may change the
configuration saves the whole of it (`Save`), which may fail without the caller
being told. All processes write through one `fish_11.tmp`: when another one is in a
call that saves there at that time (`AlsoSaving`), the file may come out empty or
end among the entries of either (`Mixed`). A run goes from the checks of its line
(`Accepted`, `Callable`) through the call to the answer (`Return`) and, after
`genkey`, a second call (`AskForKey`); it may end anywhere (`End`). `set_key` is two
steps (`Store`, `SetMapping`). `inStep` and `told` are history: the file is as the
process has read it whole or saved it last, and the key that the last finished and
saved `SetKey` left for a nickname. An outdated process that overwrites newer keys
is part of the model, not of the properties. `RequestAssumption` says which
requests are considered: directories, networks and values in their places
(`ParamsTyped`).

## Runs

`tlc -config X.cfg M` with the module of the table.

| Run (cfg) | Module | Shows |
|---|---|---|
| `ConfigAccess_calls` | `MCConfigAccess` | With two threads, two faults (of the file's operations or its reading) and a crash: `CleanMeansPersisted`, `NeverTorn`, `DiskNotAheadOfMemory`, the refinement of `ConfigFile` and `CallsReturn`; the first two exclude snapshot saves, which break them |
| `KeyStore_calls` | `MCKeyStore` | `ReadersAgree`, `ManualKeysStay`, `ReadYourWrites`, `RestartKeepsKeys` with two threads, two networks, lifetimes in and out of range, and a `#channel` or a `[tag]nick` in the file |
| `RecvPipeline_calls` | `MCRecvPipeline` | `CompleteLinesDelivered`, `ZeroOnlyAtClose`, `ReceivedBounded` and the refinement of `LineStream` over six connections |
| `ChannelKeys_calls` | `MCChannelKeys` | `CoordinatorHeard`, `GroupConverges` for a pair, a group, one too large for an answer, and clients who refuse each other |
| `EngineRegistry_calls` | `MCEngineRegistry` | `NoCircularWait`, `ListsMatchPointers`, `CallbacksReachLoaded`, `OneInfoPerSocket` with three threads, `fish_11_dll` as it is and an engine that unregisters |
| `KeyExchange_calls` | `MCKeyExchange` | `CompleteMeansShared`, `SecretsOverOwnPair`, `NoStrandedKey`, `ExchangesEnd` for two clients, with disconnects, restarts, lost notices and failed saves |
| `HookLifeCycle_calls` | `MCHookLifeCycle` | `UnloadRemovesAll`, `SslTogether`, `RefusedOnlyInTransit`, `UnloadReturns` with two threads that call hooked functions |
| `HookLifeCycle_write` | `MCHookLifeCycle` | A violation: the hook of `SSL_write` enters itself |
| `MasterKey_calls` | `MCMasterKey` | `AcceptedPasswordOpens`, `SealedConfigOpens`, `OnlyOwnerReplaces` for both builds, with failing writes, a failing reading, a password with a space, restarts and a changing directory |
| `Legacy_calls` | `MCLegacy` | `SavedKeysReload`, `QuietClientsAgree`, `ExchangeEnds` for two clients, one of whom edits keys and settings over files written by hand, with a `[tag]nick` |
| `SendPipeline_calls` | `MCSendPipeline` | `EnginesSeeLines`, `ClassifiedOnce`, `TextNeverPlain`, `SealedIsRead` over nine conversations: private and on a channel, with FiSH 11, legacy or no keys, with TLS, with other settings, with a text too long for an answer |
| `CommandLine_calls` | `MCCommandLine` | `GenerateKeepsKeys` and `ToldKeyIsKept` with two runs of `fish_11_cli` at once beside mIRC, whose loads and saves may fail or tear |

Every property of a passing run has a mutant in the modules, an operator next
to the one it changes marked "Mutant" in its comment, under which TLC finds the
property violated: a dropped lock, a swapped order, a missing reset.

Each module with state has a type invariant, `TypeOK` (`RecvTypeOK`, `LegacyTypeOK`
and `CliTypeOK` in the modules with prefixed names). All of them but `RecvTypeOK` are
proved. They are not among the runs' invariants, which are kept for what can go
wrong; they hold in all of them, which a configuration with `INVARIANT TypeOK` shows.

## Bounds

* `ConfigAccess`: `MaxVersion` 3 lets two changes overlap a snapshot of a third
  one; two faults let the temporary file's write and its removal fail in one
  save, or a save and the load after the crash; one crash, because after a restart
  everything but the two files is initial.
* `KeyStore`: two networks, because a third behaves as the second; two keys, to
  tell a replaced key; valid lifetimes are 0 and 1, a hand-edited one is 2, and
  `MaxAge` 3 exceeds the largest valid one and the grace (1) by one; ages stop
  there. One plain nickname, with a `#channel` and a `[tag]nick`: entries of
  different names meet only in the file. The constraint `FewMisread` keeps one of
  the two others at a time, on one network, with keys that have no age.
* `RecvPipeline`: a buffer of 16 symbols truncated to 13 stands for the code's
  1,000,000 bytes truncated to 990,000; connection `Endless` has a line longer than that,
  `Sparse` more lines than one buffer holds, `Swollen` lines that no longer fit the
  application's buffer once they are converted.
* `ChannelKeys`: room for one notice in the answer of a group of two members, where
  the code has room for about six; two distributed keys, so that one is replaced
  while the other is in flight; two notices in flight on a pair and one in a group, where
  interleaving of members matters and not depth.
* `EngineRegistry`: three threads, because the longest chain of waits is a thread
  for the shard, one for a list and one in a callback; one engine per list, one of
  them forgetful; one socket, because shards are independent; two `SocketInfo`
  objects, to tell a replaced one.
* `KeyExchange`: two keypairs per client (a lost one and its replacement), two
  notices in flight each way (crossing exchanges and a repeated one), three
  faults (such as a failed save, a disconnect or restart, and a lost notice).
* `HookLifeCycle`: two threads, because a mutex has one holder and one thread
  that waits; all six functions. Deadlock is not checked: the system stops when
  the DLL has gone.
* `MasterKey`: three salts, so that a keystore is made, changed and made again;
  two directories, which serve as `MIRCDIR` and as working directories; two
  strong passwords, one of which is the other with a space and a word after it, and
  a weak one that is this word, so that what slips makes passwords of one another;
  one reading of a good keystore that fails.
* `Legacy`: two exchanges started, which may cross or follow one another; one
  channel, one bracketed nickname, which stands for the other client's, and one
  manual key; files without lines, with two lines for one nickname, and with a bad
  line, which the constraint `Short` keeps to three lines. Only one client edits: the
  files of two clients never meet.
* `SendPipeline`: two inputs after the registration line, because a chunk that
  spoils one line may reach into the next and the damage must end there; one
  call of `send()` that takes less than it is given. One text stands for all that
  are too long (over some 630 bytes; the script lets 850 characters through).
* `CommandLine`: three calls in all (one sets, one interferes, one reads), two
  directories, one nickname, one channel and one bracketed nickname, three keys. The
  constraint `Earlier` gives the directory mIRC starts in a file with keys. Settings
  and mappings stand before the entries in the file (`config_to_ini`), which is why
  a file that ends early loses entries only or everything; that bytes of two saves
  are mixed is abstracted to the beginning of one of them, and a save that goes on
  in a file another one has renamed already is torn then and not later. Deadlock is
  not checked there, nor in `SendPipeline`: both stop when their bounds are reached.

Symmetry is declared only for values the model treats alike, and only in runs
whose properties are invariants or action properties.

## Fairness

* `ConfigAccess`: weak fairness of a thread's own next step (the scheduler runs
  every thread) and strong fairness of taking the lock, in a read or a write
  section: `parking_lot`'s `RwLock` hands the lock over fairly from time to
  time, so a waiting thread is not starved for ever.
* `RecvPipeline`: weak fairness of `RecvNext`, for the refinement only: the
  application keeps reading and the server keeps sending.
* `KeyExchange`: weak fairness of each timer that is running: mIRC fires it, and a
  disconnect turns it off, which takes it out of `timer` and disables the action.
  Nothing is assumed of the network or the users: `ExchangesEnd` holds by the timers
  alone, except for exchanges that a disconnect has left without one.
* `Legacy`: weak fairness of the exchange's timer, which likewise is disabled by a
  disconnect (`adrift`).
* `HookLifeCycle`: weak fairness of the loader's step. A caller may stay in a
  hook, with its mutex, for ever: `UnloadReturns` must hold against that.

The other runs check safety only.

## Proofs

| Theorem | Module | Says, for all values of the constants |
|---|---|---|
| `TypeCorrect` | `ConfigurationProofs` | `Spec => []TypeOK` |
| `NotAhead` | `ConfigurationProofs` | `DiskNotAheadOfMemory`: the file never has a version that memory has not reached, but for one that could not be read |
| `CleanIsPersisted`, `WholeFile` | `ConfigurationProofs` | `CleanMeansPersisted`, `NeverTorn` |
| `ForwardOnly` | `ConfigurationProofs` | Without snapshot saves no save puts an older version over a newer one, but for the first after a load that failed |
| `Implementation` | `ConfigurationProofs` | `ConfigAccess` implements `ConfigFile` (`ImplementsConfigFile`) |
| `CliInvariant`, `CliTypeCorrect` | `ConfigurationProofs` | `CliSpec => []CliInv`, and `CliSpec => []CliTypeOK` with it |
| `GenerateKeepsKeysHolds`, `ToldKeyIsKeptHolds` | `ConfigurationProofs` | The action properties of the same names |
| `TypeCorrect` | `EngineRegistryProofs` | `Spec => []TypeOK` |
| `ListsMatch`, `OneInfo` | `EngineRegistryProofs` | `ListsMatchPointers`, `OneInfoPerSocket` |
| `CallbacksAlive` | `EngineRegistryProofs` | `CallbacksReachLoaded`, whichever engines are forgetful |
| `NoDeadlock` | `EngineRegistryProofs` | `NoCircularWait` |
| `TypeCorrect` | `KeyExchangeProofs` | `Spec => []TypeOK` |
| `OwnPairs` | `KeyExchangeProofs` | `SecretsOverOwnPair` |
| `CompleteIsShared` | `KeyExchangeProofs` | `CompleteMeansShared` |
| `NoneIsStranded` | `KeyExchangeProofs` | `NoStrandedKey` |
| `Invariance`, `TypeCorrect` | `MasterKeyProofs` | `Spec => []IInv`, and `Spec => []TypeOK` from it |
| `OwnerGetsIn`, `ConfigStaysReadable` | `MasterKeyProofs` | `AcceptedPasswordOpens`, `SealedConfigOpens` |
| `OwnerReplaces` | `MasterKeyProofs` | `OnlyOwnerReplaces` |
| `StoreInvariant`, `TypeCorrect` | `KeyStoreProofs` | `Spec => []StoreInv`, and `Spec => []TypeOK` from it |
| `ReadersAgreeHolds` | `KeyStoreProofs` | `ReadersAgree` |
| `ManualKeysStayHolds`, `ReadYourWritesHolds`, `RestartKeepsKeysHolds` | `KeyStoreProofs` | The action properties of the same names |
| `SavedInvariant`, `SavedKeysReloadHolds` | `KeyStoreProofs` | `LegacySpec => []SavedInv`, and `SavedKeysReload` from it |
| `ExchangeInvariant`, `QuietClientsAgreeHolds` | `KeyStoreProofs` | `LegacySpec => []ExchangeInv`, and `QuietClientsAgree` from it |
| `LegacyTypeCorrect` | `KeyStoreProofs` | `LegacySpec => []LegacyTypeOK` |
| `HookInvariant`, `TypeCorrect` | `HookLifeCycleProofs` | `Spec => []HookInv`, and `Spec => []TypeOK` from it |
| `UnloadRemovesAllHolds`, `SslTogetherHolds`, `RefusedOnlyInTransitHolds` | `HookLifeCycleProofs` | The invariants of the same names |
| `KeysInvariant`, `TypeCorrect` | `ChannelKeysProofs` | `Spec => []KeysInv`, and `Spec => []TypeOK` from it |
| `GroupConvergesHolds`, `CoordinatorHeardHolds` | `ChannelKeysProofs` | The invariants of the same names |
| `PipelineInvariant`, `BufferInvariant`, `TypeCorrect` | `PipelineProofs` | `Spec => []PipelineInv`, `Spec => []BufferInv`, and `Spec => []TypeOK` from both |
| `ClassifiedOnceHolds`, `TextNeverPlainHolds`, `SealedIsReadHolds`, `EnginesSeeLinesHolds` | `PipelineProofs` | The invariants of the same names |
| `ReceivedInvariant`, `ReceivedBoundedHolds` | `PipelineProofs` | `RecvSpec => []ReceivedInv`, and `ReceivedBounded` from it |

*ConfigAccess.* `AheadInv` says that memory and file have no version that was never
made, that the file is not ahead of memory unless a load has failed (`unread`), and
that what a thread writes comes from memory, which is inductive with the types. The
three other theorems need `LockedInv`: as long as
no snapshot save has happened, a thread that is saving holds the write lock, so
the temporary file belongs to it, the image it writes is the memory's, and a
clean configuration whose lock is free is on disk, or is the defaults of a load
that failed. A snapshot save breaks each
of them: two threads are then in `save_config` at once and share the temporary
file's name. `Implementation` uses both invariants: `LockedInv` says that what is
renamed under the lock is what memory holds, `AheadInv` that what a snapshot save
leaves is at worst earlier or torn.

*EngineRegistry.* `ListInv` follows one engine through the gap between
`registered_ptrs` and the lists: the thread that holds `ENGINES` is the only one
in that gap (`Holding`), each list differs from the pointers at most in the
engine that thread works on (`Counted`), and the engines of a pass stay in the
list while it is read (`Passing`). `NoDeadlock` gives every place in the code a
rank such that a thread waits only for threads of a lower rank, so a circle of
waits would have to fall for ever: `ENGINES` and the shard come before the read
side of a list, that before its write side, that before a callback.

*KeyExchange.* `ExchangeInv` is `TypeOK` with three facts. `Owned`: the secrets
a client has in memory and in its file were made with the keypair that is
there. `Current`: the notices a client has in flight carry its present public
key; it is what keeps a restart with a lost keypair harmless, because a restart
takes the notices with it. `Agreed`: while a FINISH of a client is in flight, a
secret it holds for the addressee is the one the addressee is about to compute.
`CompleteMeansShared` follows from `Agreed` in the step that takes the FINISH.
The assumption `KeyAssumption`, that no user types in a shared secret, is used
for `SetKey`. `NoStrandedKey` needs only the types besides itself: without a fault
`FiSH11_ExchangeKey` puts the random key in place in the step that sends the INIT,
the INIT is taken in the step that sends the FINISH, and the FINISH in the step that
replaces the key; that `NoKey` is not a random key is assumed for the initial state.

*MasterKey.* Neither `AcceptedPasswordOpens` nor `SealedConfigOpens` is
inductive: an unlock must be known to give the key that sealed files agree
with. `IInv` adds what makes it so. A keystore's verifier is absent or that of
the key its own salt and password give, behind the words that slipped
(`OwnVerifier`); no two keystores have
one salt and no salt is in a file that was not counted (`SaltsDiffer`,
`SaltDrawn`); and a key in memory or under a sealed configuration that has the
salt of a keystore with a verifier is the key of that verifier (`Agrees`). All
of it rests on a salt being drawn once. `SaveKeepsOrder` carries it through
every way a write can end, so each call is a short step. `OnlyOwnerReplaces` is
read off the actions: the others leave the file, need one that does not load, or
count a reading that failed.

*KeyStore.* `ReadersAgree` needs no history: `OutcomeText` compares, by arithmetic
on one entry's age, what `get_key`, `get_key_ttl` and `check_key_expiry` compute
of it, for any lifetime within the limits. `ManualKeysStay` needs `Origins`, that
an entry is marked as exchanged only if it was: a restart loses the mark, so the
converse does not hold. `ReadYourWrites` and `RestartKeepsKeys` are about the two
resolutions of a network, before and after the step; without a header among the
lines `Survivors` leaves no choice, so the plain names come back as they were.
`KeyStoreAssumption` says that the outcome `Expired`, like the others, is no key.

*HookLifeCycle.* What is hooked is known only if the loader's place is: `Statics`
gives, for each stage of `LoadDll` and `UnloadDll`, the functions that are patched,
stored and still to be dealt with, and `Lists` how far the two lists of functions
have been worked off. `UnloadRemovesAll` and `SslTogether` are its cases for the last
stage and for the stages at rest. `RefusedOnlyInTransit` needs `Quiet`: a call that
no stage of the loader has overlapped began between `LoadDll` and `UnloadDll`, so its
function has a way to the original. A lock that timed out, or a detour that could not
be disabled, ends both (`spoiled`).

*ChannelKeys.* `Expected(c, d, k)` is the key d holds after the first k items that c
has sent it. With one coordinator it changes only when that coordinator installs a
key and tells the group in the same call, which is what `GroupConverges` says of the
last item and `Heard` of every message in flight; `CoordinatorHeard` is `Heard` for
members without a key of their own. Both need `Traffic` (only coordinators send keys)
and `Own` (a call that is under way is about the channel key just set, and a ratchet
state has a channel key beside it, which is `RatchetUnreached`). The lemmas about
`HeldAfter` say what appending and taking an item does to the last key among some
items. It is written with the largest position instead of a fold, so that they follow
from one fact, that a set of numbers has a least element (`Smallest`, from the
well-foundedness of `<` on the natural numbers).

*SendPipeline.* The invariant speaks of each line by itself: it is `WellSealed` (its
key is a key, and its mark and associated data are those that go with its target) and
`NotPlain`. `ScriptSealsWell` and `EngineSealsLineWell` show that each way of sealing
leaves such a line whatever the keys are, `WellSealedIsRead` that every reader with
its key is shown its text whether the engine or the script opens it; these three
lemmas are where the two implementations are compared. `InOrder` (put out before
sent, sent before shown) says that what is shown is a line already put out.
`ConversationAssumption` says what an input and the keys of a conversation are.

*SendPipeline, the line buffer.* `EnginesSeeLines` speaks of lines that are long
gone, so `BufferInv` follows each line through the buffer. While a line goes out and
nothing spoils it, the buffer holds it as far as it went and nothing else
(`LineInBuffer`, `LastInBuffer`); after its end nothing of its text is left
(`SentNotInBuffer`); and it was passed on once if its end was sent, and not before
(`SeenOnce`). What a spoiled chunk leaves in the buffer is cut off with the next line
end: `Remaining` is what follows the last end (a maximum, by `LastPosition`), so a
whole line is found by its position and not by an induction over the buffer.
`TypesInv` adds to these invariants that a line in clear is nothing but its text
(`ClearIsText`), so that what the engine changes is sealed: that the prefix is not
the mark of a text in clear is assumed for it.

*RecvPipeline.* `write_received_data` drops from the front what exceeds the limit
and `Process` stores back a part of what it took, so `ReceivedInv` is one inequality
with the fact that the buffer is a sequence. The lemmas say what the functions on
sequences that the model uses do to lengths.

*CommandLine.* `InStepAgrees`: a process whose file is as it read it whole or saved it
last has the keys of that file in memory; every step of another process that writes
the file ends it, and so do a load that fails, a save that fails or is torn, and a
header among the lines. `ToldIsStored`: the key that a finished and saved `SetKey` left
for a nickname is in the file of its directory, for which `MappedIsStored` must say
that between the two critical sections of `set_key` the key is in memory already.
`LoadedKeys`, `SavedFile` and `KeptKeys` say what each outcome of a load and of a save
means for the keys, so that the actions need not look into them.
`GenerateKeepsKeys` and `ToldKeyIsKept` follow in the step that saves or answers. The
types need one thing more, that only a call that sets a key has a mapping to write
(`MapIsOfKey`). `RequestAssumption` is needed for them and for the shape of what is
stored, since the functions check no network's name.

*Legacy.* `SavedInv` is `SavedKeysReload` with the shapes of what clients hold. A
file gives for a target the key of its last line (`Loaded`), and an edit replaces
all lines of that target or drops them (`Updated`), so the proof is about what
`LinesAt` does to the last line of each other target: nothing (`LoadedKept`, by the
ranks of the positions that are kept). A
write that stops, a reading that fails and what a topic setting gives away leave
their targets in `apart`. `ExchangeInv`
says of a settled exchange, for each side: the last notice in flight to it carries
the pair the other side keeps (`LatestPair`), a side that waits
has a pair (`WaitsWithPair`), a FINISH is in flight only to a side that waits and an
INIT only from one (`FinishAwaited`, `InitAwaited`), and a side that neither waits nor
has a notice to read holds the key of the two pairs (`KeyOfPairs`), which for both
sides is `QuietClientsAgree`. The types need `MadeInv`: every pair that is kept, sent
or used in a secret was generated.

Only model-checked:

* Everything temporal under fairness (`CallsReturn`, `ExchangesEnd`, `ExchangeEnds`,
  `UnloadReturns`, and `ImplementsLineStream`, whose abstract specification is fair):
  the prover does not reason about fairness, as little as about ENABLED.
* `CompleteLinesDelivered` and `ZeroOnlyAtClose` of `RecvPipeline`, and its
  `RecvTypeOK`: the stream a server sends is its lines joined one after the other, and
  what the application has got is compared with it through folds and selections over
  sequences. What these compute is an induction over the sequence, which the
  installed provers cannot instantiate from the library.

None of the modules uses RECURSIVE operators.

## Disagreements with comments and documents

`HookLifeCycle_write`: `hook_ssl.rs:37` says that SSL operations go through the
original functions; `ORIGINAL_SSL_WRITE` is the patched address, so
`hooked_ssl_write` calls itself. TLC finds the property violated that states
that sentence.

The models also follow the code in these points, where a comment, a document or
a script says something else.

Configuration and keys:

* A load that fails on a good file is only logged: `CONFIG` starts from the
  defaults, clean (`config/mod.rs:73-79`), and the next save replaces the file.
* A save that fails is only logged too: the caller of `FiSH11_SetKey` is told that
  the key is set (`config_access.rs:156-161`).
* A closure that failed is saved by the guard's Drop, because the dirty flag was
  set (`config_access.rs:66`, against 167-170).
* `README.md:38` promises expiry of exchanged keys; `load_entries`
  (`ini_helpers.rs:161`) reads every key back as a manual one, so after a restart
  none expires.
* `set_key` replaces an entry without touching the mapping when the network is
  given (`key_management.rs:302`); its first test for an existing entry uses the
  name of an older format, only the last one works.
* The grace period lets a reader return a key that the lifetime calls expired.
* `config_to_ini` saves neither channel keys nor ratchet states, and the reader
  takes entries whose name starts with `#` for comments: keys of channels do not
  survive a restart, and generating one again is not refused.
* Names are not escaped in the file: an entry of a nickname like `[tag]bob`, which
  `set_key` accepts, is read as the header of a section; it and entries after it
  are not among the keys of the next process, whose first save drops them.

Channels and lines:

* `fish11_encryptmsg.rs:14`, `fish11_decryptmsg.rs:89` and 103 and
  `docs/FCEP-1_DRAFT.txt` speak of a symmetric ratchet for channel messages, which
  one distributed key encrypts until the coordinator re-keys; no ratchet state is
  without a channel key, which comes first (`RatchetUnreached`). The ratchet
  state keeps the first key when a channel is re-keyed (`state_management.rs:14`).
* An answer of the DLL is cut at 900 bytes and nobody is told
  (`buffer_utils.rs:63`). Of a distribution to many members only the first notices
  arrive whole, while the log and the coordinator take all of them for told. A
  text of more than about 630 bytes, which the script accepts up to 850 characters
  (`fish11_encrypt_out.mrc:25`), is sent sealed and nobody can open it.
* A message encrypted with a key that another coordinator has replaced meanwhile
  cannot be read.
* `docs/FCEP-1_DRAFT.txt:245` wants the channel in lower case as associated data;
  `FiSH11_EncryptMsg` and `attempt_encryption` take it as written, while
  `attempt_decryption` lower-cases it. A topic set with upper case letters is
  read by nobody.
* `FiSH11_SetKey` on a channel makes `FiSH11_EncryptMsg` seal without associated
  data, which no reader accepts.
* The engine writes a legacy topic as `+OK` without a space
  (`engine_registration.rs:507`), which the reader's prefix does not match; an
  action under a legacy key is never decrypted.
* The script seals private messages with the legacy key first, the engine with
  the FiSH 11 key first; on a channel that has only a legacy key the script
  refuses. A changed `encryption_prefix` is not used by `FiSH11_EncryptMsg`.
* `KEY_EXPIRED` is an error text that no script knows; whether it is sent in
  place of the user's text depends on what mIRC does with a result that is a
  command.
* Comments of `FiSH11_EncryptMsg` speak of falling through to plain text; it
  returns an error.

Sockets and engines:

* `hook_socket.rs:203` keeps what does not fit the application's buffer and line
  241 clears it: complete lines are lost.
* A chunk that is not UTF-8 becomes longer by its conversion and may no longer fit
  the application's buffer, with the same result (`incoming_irc.rs:264`).
* `incoming_irc.rs:110` says that engines see only complete lines, which the
  branch for data that is not UTF-8 does not ensure.
* The engines' result for an outgoing line is not sent; `on_sending` sees a text
  twice when `send()` took a part of it, and two lines as one when a chunk
  between them was not UTF-8. TLS data never reaches the engines, because nothing
  associates an SSL context with a socket.
* `engines.rs:57` takes for granted that engines unregister, and its comment on
  callbacks that "the engine lifecycle management" keeps the DLL loaded; `UnloadDll`
  of `fish_11_dll` does not unregister (`core.rs:308`), and nothing else keeps a
  pass from calling it afterwards.
* A trampoline is called after its mutex was released, so a `recv` that blocks
  outlives the detour it came through (`hook_socket.rs:49` says that the pointer
  is valid only while the detour is installed). `hooked_closesocket` forgets the
  socket before it takes the lock that may time out.

Key exchange:

* The scripts start their timers without `-o` (`fish11_key_management.mrc:143`,
  `fish11_legacy.mrc:92`), so a disconnect turns them off while the hash tables keep
  their marks: with a nickname whose exchange was in progress the OPEN handler
  starts none again until the user does.

Master key:

* The status calls look at `KEY_SYSTEM`, which only Init fills, and sealing at
  `MASTER_KEY`, which Unlock and ChangePassword fill and Lock does not clear; the
  scripts' loop until unlocked waits for `yes` where the call answers `1`.
* Release builds do not save a changed password, whatever the comment at
  `fish11_masterkey.rs:265` says. A password with a space cannot be changed: the
  call compares its first word, and where there is no verifier it lets that pass
  and puts the rest before the new password (`fish11_masterkey.rs:199-209`).
* `password_change.rs:3` speaks of preserving access to encrypted data; a password
  change draws a new salt and seals nothing again, so a configuration sealed before
  it is not opened by the new password (`SealedConfigOpens` is about configurations
  sealed under the salt the keystore has).
* Unlock takes every error of `Keystore::load` for a first start, also a keystore
  sealed from another working directory or one that could not be read this once;
  an emptied keystore lets any old password through in a change.

Legacy:

* rust-ini drops lines that start with `#`, so setting a topic option drops the
  keys of channels from `blowfish.ini`; a line `[tag]bob=...` comes back as one of
  `bob`, so the key of one nickname becomes that of another.
* One line that is not UTF-8 keeps every key from being loaded, and so does a file
  that cannot be read: both are only logged (`legacy/mod.rs:47`).
* A secret agreed by DH1080 is not saved and is gone after a restart; an answer
  to an earlier attempt, or a third start, leaves the two sides with different
  keys.
* The FiSH 10 engine of `fish10_engine.rs` is never registered.

Command line:

* `docs/API_REFERENCE.md:60` says that `FiSH11_GenKey` fails if there is a key;
  with two processes, or after `SetMircDir`, the one in the file is overwritten.
  `SetMircDir` changes the file that is saved, not the one that was loaded.
* Two processes that save at once share `fish_11.tmp` (`file_storage.rs:234`), which
  may leave an empty or a shortened file.
* `fish_11_cli` asks for the key after `genkey` whatever was answered, and prints
  the old key as the new one.
* `CLI_REFERENCE.md` gives `setkey` two parameters, which `FiSH11_SetKey` refuses;
  `setnetwork` changes only its own process; `FiSH11_FileListKeysItem` indexes a
  hash map whose order is another one in each process; answers are cut at the
  buffer's end without a sign.
* `INI_SetString` answers that an unknown name was set and stores it nowhere;
  `INI_SetInt` keeps one byte of `mark_position`.

## What is left out

* The SSL mapping, which stays empty, and the part of `hooked_ssl_write` that
  depends on it; the rotation of master keys, the nonce counters of the keystore,
  the FiSH 10 engine and the topic functions, which nothing calls.
* The ratchet's window and the nonce cache: no message is sealed with a ratchet
  state (`RatchetUnreached`).
* Names like `[tag` without a closing bracket, which make the INI reader refuse the
  whole file (in `KeyStore` that is `RestartUnread`, in `Legacy` it is left out), and
  tags that are named like a section of the file.
* Error texts of the DLL other than `KEY_EXPIRED` that the script does not know
  either (`Answered`): they too would be sent in the text's place, and the text does
  not leave.
* Texts between 630 and 900 bytes that fit an answer or not by their exact length:
  a text is `Long` or not.
* Cryptography: encryption, wrapping and key agreement are perfect operations.
* `try_lock` failures and lock timeouts of the hooks: one thread reads a
  connection at a time in the receive model; `HookLifeCycle` and `HookedSend`
  have the timeouts.
* A second `LoadDll`, and what `UnloadDll` clears besides the hooks.
* Malformed notices and keys, which the handlers refuse before they change
  anything.
* In `CommandLine` the commands whose functions are modelled elsewhere, and
  blanks at the end of settings, which the INI reader drops.
* Logging, wording of answers, menus of the scripts, and the detection of SSL
  libraries and memory pages: output, or inspection of the host process.
