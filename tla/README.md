# A formal model of the Remote Desktop Tool

TLA+ modules that model the concurrent, stateful and failure-prone parts of this
program, TLC configurations that check them on small instances, and proofs,
checked by TLAPS, of what holds for every instance. Paths below are relative to
`crates/` of the repository unless they say otherwise.

    tlc -workers 2 -config manager_safety.cfg MCSessionManager.tla
    tlapm AgentProofs.tla

`PROJECT.json` lists the components, the runs and what each checks, the source
lines each definition models, the hazards of the code with the properties that
cover them, and for each property a plausible bug in the code (an operator of
the module, defined just before the one it would replace) that breaks it.

## 1. The system

One desktop process (`rdt-ui`), one background agent (`rdt-agent`) and one
command line tool (`rdt-cli`) share a configuration file, a vault, a
`known_hosts` file, a file of certificate pins and an audit trail. Inside the
desktop process a UI thread draws and edits, a command worker takes commands
from a queue, and every session is meant to be a task of its own on the
asynchronous runtime, with further threads for the protocols.

| Component | State it keeps | Operations | Talks to |
|---|---|---|---|
| **Session manager** `rdt-session/src/lib.rs` | table of slots (state, attempt, token, sender) behind a mutex; broadcast channel | `register` `transition` `cancel` `cancel_all` `prune` `send` `list` | tasks, UI, agent, audit trail |
| **Session handle** `rdt-session/src/handle.rs` | command channel, event channel | send a command, drain events | UI, tasks |
| **Configuration store** `rdt-config/src/store.rs` | the document, the dirty flag (a lock each), the file | `load` `save` `reload` `add` `update` `remove` `set_settings` | UI thread, command worker, agent, file system |
| **Settings and profiles** `rdt-config/src/settings.rs`, `profile.rs`, `migrate.rs` | the text of the document | defaults, validation, migration | store |
| **SSH host keys** `rdt-ssh/src/known_hosts.rs`, `handler.rs` | a database of lines per connection, the file | `load` `check` `accept` `save`; the prompt and its answer | `connect`, the user, file system |
| **SSH session** `rdt-ssh/src/session.rs` | connection, channel, command queue, event queue | `connect` `authenticate` `send` `resize` `eof` `disconnect`, the pump task | russh, the handler, the manager |
| **SFTP** `rdt-ssh/src/sftp.rs` | a cancel flag shared by the transfers | `upload` `download` `remove` ... | remote and local files |
| **RDP session** `rdt-rdp/src/session.rs` | closing flag, command queue, framebuffer | `connect` `send` `resize` `disconnect` `Drop`, the session task | IronRDP, framebuffer, manager |
| **Framebuffer** `rdt-rdp/src/framebuffer.rs` | pixels, size, one damage rectangle | `resize` `blit` `fill` `take_damage` | session task, renderer |
| **Certificate pins** `rdt-rdp/src/tls.rs` | host to fingerprint, the file | `load` `verify` `pin` `save` | `connect`, file system |
| **Secret store** `rdt-secrets/src` | vault handle behind a mutex, vault file | `unlock` `lock` `create_vault` `store` `read` `read_lenient` `delete` `migrate` `change_passphrase` | file system, keystores |
| **OS keystores** `rdt-secrets/src/keystore.rs` | DPAPI blobs, the keychain, the secret service | `detect` `set` `get` `delete` | operating system |
| **Agent** `rdt-agent/src/lib.rs` | control socket, a task per connection | status, list, connect, disconnect, reload | manager, store, clients |
| **Platform services** `rdt-platform/src/service.rs` | unit files, the service manager | install, uninstall, status | systemd, Windows SCM |
| **UI** `rdt-ui/src` | command queue, status, caches | pages, `command_worker` | everything |
| **Logs** `rdt-logging/src` | audit file, ring buffer, pending text of the redacting writer | `record` `read_recent` `push` `write` `flush` | everything |
| **Terminal** `rdt-terminal/src` | parser state, grid, cursor, margins, modes | `advance`, `resize`, `scroll`, key encoding | SSH session, renderer |
| **Shared types** `rdt-types/src` | none | reconnect delays, identifiers, redaction | everything |

### What is hard, and what makes each part correct

* **Session manager.** No operation holds the table's lock for its whole
  length: `transition` updates the slot, broadcasts and audits in three steps,
  and `cancel` removes the slot before it fires the token. Correct if the limit
  holds, a running task can always be cancelled (its token is reachable, fired,
  or in the hands of exactly one thread about to fire it), subscribers and the
  audit trail hear what the table shows, and a session ends once.
* **Configuration store.** Edits, saves and reloads run in different threads
  and processes, take two locks one after the other, and a save is six system
  calls of which any can fail or be the last. Correct if the file is always one
  whole private document, names stay unique, what the user saved arrives, and
  what is saved loads again as what was shown, whatever text was there before.
* **SSH host keys.** The check waits for a person in the middle, every
  connection has its own copy of a file that is written back in place, and the
  prompt travels on a stream whose reader is waiting for the prompt's outcome.
  Correct if nothing is trusted that neither the file nor the user vouched for,
  revocations count, accepting a key removes nothing, and an attempt ends.
* **SSH and SFTP sessions.** Closing races with queued input; the transfers'
  cancel flag is shared and reset when a transfer starts; an upload replaces
  its target by a removal and a rename. Correct if input arrives in order or is
  lost with the session, a session nobody holds lets go of its connection, and
  a target is the old file, the new one or absent.
* **RDP session and framebuffer.** A flag and a queue tell the task to stop,
  and two places report the end. Damage is merged while the renderer takes it
  and the server resizes. Correct if the picture is the server's, whoever
  follows the events sees it, accepted input is served, and there is one end.
* **Certificate pins.** The decision rests on its caller's word about authorities;
  every connection writes its own copy back in place. Correct if a self-signed
  certificate is accepted only when it is the pinned one.
* **Secret store.** Memory changes before the file does and the file can fail;
  `create_vault` writes outside the mutex; each keystore has steps of its own
  without a lock; migration copies a snapshot. Correct if the vault can be opened
  by a passphrase the user gave, and what a caller was told it stored is read.
* **Agent and its service.** Agents displace each other's socket; an
  installation is a chain of system calls over whatever an earlier call left.
  Correct if replies answer their lines, only the owner is answered, a reachable
  socket is private, and a call that reports success had its effect.
* **Logs.** One pending text is shared by the writers; a redaction must see
  whole lines; two processes append to one audit file. Correct if no text is lost
  or escapes redaction and a short write costs little.
* **Terminal.** Long sequences of legal input must keep every index in range at
  every size, sequences must mean what their text says whatever precedes them,
  scrolling must stay in its region and the primary screen must come back.

## 2. The modules

| Module | Models | Kind |
|---|---|---|
| `SessionPool` | what admission promises | abstract specification |
| `SessionManager` | `rdt-session/src/lib.rs`, `command_worker`'s and the agent's calls | component |
| `ConfigStore` | `rdt-config/src/store.rs`, the UI's and the agent's calls | component |
| `ConfigDocument` | `settings.rs`, `profile.rs`, `migrate.rs` and the edits of `store.rs`, as text | component |
| `HostKeys` | `rdt-ssh/src/known_hosts.rs`, half of `handler.rs`, the part of `connect` around it | component |
| `SshSession` | `rdt-ssh/src/session.rs` but for the host keys | component |
| `SftpTransfer` | uploads and downloads of `rdt-ssh/src/sftp.rs` | component |
| `SecretVault` | `rdt-secrets/src/vault.rs`, the vault half of `lib.rs` | component |
| `SecretStore` | the rest of `rdt-secrets/src/lib.rs`, `keystore.rs` | component |
| `Framebuffer` | `rdt-rdp/src/framebuffer.rs` | operators on buffers and rectangles |
| `RdpSession` | `rdt-rdp/src/session.rs`, the repaint of `rdt-ui/src/pages.rs` | component, uses `Framebuffer` |
| `CertificatePins` | `rdt-rdp/src/tls.rs`, what `connect` tells it | component |
| `VtParser` | `rdt-terminal/src/parser.rs` | component |
| `Terminal` | `rdt-terminal/src/term.rs`, `grid.rs` | component |
| `Sgr` | renditions and colours of `term.rs` | algorithm and its definition |
| `TerminalInput` | `rdt-terminal/src/input.rs` | algorithm |
| `ReconnectPolicy` | `ReconnectPolicy` of `rdt-types/src/proto.rs` | algorithm |
| `Redaction` | `rdt-types/src/redact.rs` | algorithm and its definition |
| `Lists` | filters and splits of a sequence, for `Logs` and `VtParser` | operators |
| `Logs` | `rdt-logging/src/redact_writer.rs`, `buffer.rs`, `audit.rs` | component, uses `Redaction` |
| `AgentSocket` | `serve` and `handle` of `rdt-agent/src/lib.rs` | component |
| `PlatformService` | `rdt-platform/src/service.rs` | component |
| `ConfigProofs` | of `ConfigStore`, `ConfigDocument`, `ReconnectPolicy` | proofs |
| `SecretVaultProofs` | of `SecretVault`, `SecretStore` | proofs |
| `RdpSessionProofs` | of `RdpSession`, `Framebuffer` | proofs |
| `IdentityProofs` | of `HostKeys` | proofs |
| `AgentProofs` | of `SessionManager` with the refinement of `SessionPool`, `AgentSocket`, `PlatformService`, `Logs` | proofs |
| `SshProofs` | of `SshSession`, `SftpTransfer` | proofs |
| `TerminalProofs` | of `Terminal`, `VtParser`, `Sgr`, `TerminalInput` | proofs |
| `Induction` | induction and recursion over the numbers, and what scans over sequences compute | proofs |
| `MC...` | values of the constants for TLC | instances |

Five of the `MC` modules join components that share no state (`MCAgent`, `MCConfigStore`,
`MCSecretVault`, `MCTerminal` for the four parts of the terminal, and `MCSsh`, which
puts `MCTerminal` next to the session and the transfers): a variable, `part` or
`side`, chosen at the start, says which one a behaviour is about, and every state of
each is explored. The other variables stay at one initial value, so the parts add up
and do not multiply.

### SessionManager

`slots[i]` is the table's entry for session `i`, or `NoSlot`; `token[i]` says
where its cancellation token is: `armed` in the slot, `taken` by the thread that
removed the slot, `fired`, or `dropped` with a pruned slot. `at[i]` is the state
the session's task believes itself in, `last` and `told` what was broadcast,
`audited` what was written to the trail. `pc`, `call` and `todo` are the threads'
places in their calls. Each critical section, broadcast and audit append is one
action: `Register` (limit check and insertion under one lock), then `Update`,
`Send`, `Log`, `Release` for each transition, `Take` and `Fire` for a
cancellation, `CancelAll` and `CancelNext`, `Prune`.

The tasks that drive sessions are not in the repository: nothing calls
`register` outside its tests. A task is therefore a parameter, `Moves`, the set
of pairs of states it may report one after the other. What a task does on its
token (`Stop`) is external for the same reason. Audit appends are assumed to
succeed here (`Logs` has their failures); `send` on the broadcast channel never
fails in a way the code looks at.

### ConfigStore and ConfigDocument

In `ConfigStore` a window is a process with two threads. The UI thread changes
`mem` under the write lock (`Add`, `Update`, `Remove`, `SetSettings`) and then
sets `dirty` (`MarkDirty`): two actions, because it releases one lock before it
takes the other. The worker takes a `SaveConfig` from its queue and goes through
`Snapshot`, `Create`, `RestrictToOwner`, `BeginWrite`, `FinishWrite`, `Rename`,
`MarkClean`, one system call each. The agent reloads in three steps. `dir` maps
the two names to files and `content` says what a file holds, so a name that
moves while another process has the file open behaves as it does on a POSIX
file system. Permissions are one bit per file, because `restrict_to_owner` acts
on a name after the file exists. `Die` may strike any process at any moment and
`SaveFails` any system call.

`ConfigDocument` makes a save one step and looks at the text instead: the
version and whether it is a number, the table of the window with its two kinds of
default (an attribute's, and that of a missing table), profiles in order with
duplicates and invalid ones, names that differ in case. `WriteByHand` puts any
text of `Documents` in the file; one process loads, edits, saves, reloads and
restarts. One field stands for those that behave alike.

### HostKeys and CertificatePins

Each connection has `db`, its own copy of the lines, and `attached`, whether
that copy knows a path: `load` of a missing file returns one that does not.
`CheckServerKey` is the handler up to its `await`; `Answer` is what follows the
user's reply; `Timeout` is the one `connect` puts around the dial and the
handshake. A save truncates and writes in place (`Truncate`, `Write`). Where two
saves overlap, what the longer text has beyond the end of the shorter stays
(`Rests`), and it may begin inside a line, without its marker or some of its
patterns (`Ends`). A write that is cut short leaves whole lines and perhaps one
that is not: cut in its key, which still parses when a multiple of four
characters is left (`Cuts`; such a key is `Broken`), or joined to the end of an old
line (`Joints`). All pattern syntax, wildcards, negations and hashes come down to
which hosts a line applies to. A host is a name with a port; the line that `accept`
writes for port 22 names no port and applies to every port of the name, and
`Reach` says so.

As the code stands nobody can answer a prompt: prompts are put on the event
stream whose receiver `connect` returns only at the end (`session.rs:207-244`,
393-428). `Answerable` says so. The passing run sets it, so that the answer, the
saving and their interleavings, the code's own steps, are explored; the two
violation runs do not need an answer and leave it out.

`CertificatePins` has the same shape: `LoadPins` gives each link a copy, `Verify`
is the decision under each policy, `Record` the first use, and `TruncatePins`,
`WritePins`, `RestrictPins` the save in place. Names are folded by `Lower`. The
handshake is external and returns a certificate, or an empty one. `ByAuthority` is
what `connect` passes for "an authority vouched for it": that the certificate is not
empty (`session.rs:694`, 709-715). So no certificate that a server presents is ever
compared with a pin, none is recorded, and what the pins would promise of
overlapping connections has no behaviour to be checked in; the one statement about
them is the violation `SelfSignedIsPinned`.

### SshSession and SftpTransfer

`step` is where `connect` is, one step per `await`, with every `AuthMethod` and
source of its secret; the timeout covers the dial only. Once live, `owner` holds
the session and calls append to `queue`; `Pump` serves the oldest command
(`Deliver`), `PumpEnds` is its end (the queue is closed and empty; a channel or
connection that fails ends it in `Deliver`), `Disconnect` closes the channel,
`LastHandleGone` is the closing of a connection no handle is left of. `issued` and
`remote` are what the calls returned Ok for and what the server received. `room`
says whether the server's window takes data: sending may use it up, and until the
program on the server reads (`PeerReads`) the pump waits at `session.rs:363`, without
a timeout (`Blocked`).

A transfer is `Begin` (which clears the flag shared by all), `Create` the
temporary file, `Look` at the flag and `Copy` a chunk in turns, `RemoveTarget`
(uploads), `Rename`, or `RemoveTemporary` after a cancel; `Fails` may strike at
any `await` and leaves the temporary file. The rename takes effect in one step and is
answered in another (`Answered`), so that a call may fail, or be abandoned, although
the target was replaced. (A download that is abandoned while its rename waits for a
thread of the blocking pool may see it done after the call is gone; that lateness
is left out.) Names lead to inodes, so a second
transfer that truncates a temporary file writes into the first one's. `clashed`
records the transfers to which that happened.

### SecretVault and SecretStore

`handle` is what the mutex protects: a vault (passphrase and entries) or `None`
when locked. `file` and `tmp` are the two files and `fd[t]` which of them thread
`t` has open: a rename takes the descriptors of others along (`Moved`). The key
is derived from the passphrase and a salt stored in the same file, so a file
opens exactly with the passphrase it was sealed with, if it is whole. `Set`,
`Delete` and `ChangePassphrase` change memory and keep the mutex through
`Create`, `BeginWrite`, `FinishWrite`, `Restrict` and `Rename`; `CreateVault`
goes through the same steps without it and takes it at `Reopen`. `StepFails`
may end any step, `Crash` the process.

`may` and `tried` record the answers callers were given: what each entry and the
passphrase may be, given the last call that succeeded and those that failed
since. A failed `set` may still be written out by a later call, and a failed
passphrase change may still take effect, because memory changed first; the
properties allow exactly that. `overlapped` records that two writing calls were
under way at once, which only `create_vault` makes possible.

`SecretStore` is what stands in front: `machine` decides the keystore once, a
call on the vault is one step that may fail with memory changed, and a keystore
entry is written in that keystore's own steps (`SecretTool`; `DpapiTruncate`,
`DpapiWrite`, `DpapiRestrict`; `KeychainReplace`, `KeychainAdd`). `Migrate` copies
the vault's entries under the lock and writes them one by one. `known` is what
the answers given say must be there; an entry is `Unsure` after a failure or when
two callers met at it.

### Framebuffer and RdpSession

`Framebuffer` has the code's operations as operators on a record: `Clamped`,
`Union`, `MarkDirty`, `Resize`, `Blit`, `TakeDamage`, with the index arithmetic
of the flat pixel array and one colour per pixel. `fill`, which only tests call,
is left out. Products of sizes are 32-bit numbers of bytes, that is of pixels modulo
`Word`, 2^30 (`Area`): a desktop of 32768 by 32768 gets an array of no pixels (a
debug build panics in the product), and the first bitmap or resize indexes outside
it. Runs and theorems assume that the sizes of a session do not get there
(`SizesFit`): with them nothing indexes outside.

`RdpSession` has three parties. Callers go through `send` in two steps (look at
`closing`, then queue) and through `disconnect` and `drop` in two (raise the
flag, then queue). The task waits in `Selecting` for a command (`Serve`) or a
PDU (`ReadPdu`), whose outputs it applies one by one; `ApplyOutput` ends with the
release of the framebuffer's lock and `TellOutput` sends the event about it, so
that a repaint or a consumer may come in between. It leaves over `Leave`,
`Shutdown` and `Finish`, the moment from which its queue refuses commands. The
renderer (`Repaint`) takes the damage as `pages.rs:286` does. IronRDP's decoder
is external: a PDU or a command yields any batch of outputs, or an error.
`connect` is one step, since a failure of it leaves nothing behind.

Two variables are there for the properties: `desktop`, what the server has drawn
according to its own bitmaps (two-dimensional, nothing clamped), as long as it
keeps to its desktop; and `screen`, the picture of an application that does what
the documentation of the events says: upload a Frame's damage, start over at a
Resized, reading the buffer as it is when the event is consumed.

### VtParser, Terminal, Sgr, TerminalInput

`VtParser` steps over bytes that are numbers, one match arm a disjunct, and
collects the actions of one `advance` in `out`; a full reset replaces the parser
after the slice (`EndBatch`). `since` is the text of the sequence being read, for
the definition of what it means. The parameters of a sequence with `:` collapse to
those up to the first sub-parameter, as the code has them; that it is dispatched
with its `ignore` mark set, and so does nothing on the screen, is under "disagree"
below. `Terminal` is the screen as one record and its
methods as operators on it: printing with wrap and wide characters, cursor moves,
erasures, insertion and deletion, scroll regions, saved cursor, the alternate
screen, modes, history, `resize`, `reset`, snapshot. An operation that would index
outside a row sets `fits` to false, and the model ends there as the code would
panic. `Sgr` applies a list of codes as the loop does: `Rounds` is the state after
each round, `Extended` what codes 38 and 48 take with them. The property speaks of
lists cut behind a complete code, whatever is in the pieces. `TerminalInput` encodes
a key press as the bytes that are sent, with the modifier's digit where it stands.
`Lists` has the scans over a sequence that parser and logs share.

### Logs, Redaction, ReconnectPolicy

`Redaction` is the replacement of secrets and the scan for sensitive pairs on
lines of symbols, each a function of the rounds of its loop. `ExactlyRedacted` says
independently what a redacted line may and must look like: the line with stretches
replaced that may go (`MayGo`), the value of a sensitive key not left where the scan
has to look at it (`MustGo`), no secret anywhere. The scan does not look into the
value of an earlier pair, sensitive or not: in `error: password=x` the header's value
is the rest of the line, and the password in it stays (redact.rs:141-157);
`Looked` says so. `Secrets` is any list of words without line breaks, which redacting
line by line would never find, and without `#`: a secret that can overlap the marker
`<redacted>` may come back with it. Registering (`with_secret`) only leaves out words
of the list. `Logs` has the writer's pending text, shared by the threads, with
chunks that cut lines anywhere and an inner writer that may fail, which loses the
line at hand and leaves those behind it pending. A chunk is bytes, and each write
decodes its own (`Lossy`): a character of two bytes, `m`, that is cut between two
writes becomes two U+FFFD. `Logs` also has the ring buffer
and the audit file, to which the attached processes append in one write, or in
part (`AppendPart`), with the rest, or not. `ReconnectPolicy` computes delays in
numbers below `Word`, with saturation and overflow where the code has them.

### AgentSocket, PlatformService

An agent goes through `MakeDirectory`, `RemoveOld`, `Bind`, `RestrictSocket` (which
acts on the path, and so on whoever's socket is there), then accepts; a
connection's task handles a line and writes the reply in two steps; agents stop
at any moment. In `PlatformService` a call is a chain of system calls, each an
action that can fail, over the state systemd or the Windows service manager keep:
the unit file (`Rendered`), what is loaded, enabled, starting and running, and an
entry that is marked for deletion. The machine may reboot and the service may end
between any two. What `systemctl` and the SCM do is what the code expects of them.
`ComesUp` says what is started at boot: an enabled unit whose `wantedBy` target the
manager has and whose program says that it is ready, or an automatic entry of
Windows. `unheeded` records the scopes whose `disable --now` failed, which a removal
ignores.

## 3. The runs

| Run | Instance | Shows |
|---|---|---|
| `manager_safety` | 2 sessions, 2 controllers, 1 place, 1 reconnection, 1 call each | table against broadcasts and audit trail, no task whose token is lost, and that the manager implements `SessionPool` |
| `manager_cancel` | the manager with tasks that may fail; 2 service calls of every kind, 1 failure or reboot; 2 agents, 2 clients, 2 lines, 1 end; 2 threads with 2 writes of a log writer; 4 audit records, 2 cut short | `cancel_all` sweeps all it found; service calls that report success had their effect; the control socket is orderly; log text is accounted for and redacted exactly; a short audit write costs at most one record beside its own |
| `manager_listed` | 1 session, 1 controller | a cancelled session does not stay listed as a test expects |
| `config_store` | 1 window, 1 agent, 2 profile identifiers and names, 3 edits, 2 saves, 1 fault; 5 steps over 47 texts; every policy below 13, 8 attempts | whole and private file, unique names, a pressed Save arrives; a saved document loads again as it was; delays in their bounds |
| `config_dirty` | 1 window, 1 edit, 1 save | an edit during a save is left undirty |
| `host_keys` | 2 connections, 2 hosts, 3 keys of 2 algorithms, files of up to 2 lines, 1 fault | verification before trust, genuine lines, nothing removed, every attempt ends |
| `secret_vault` | 2 threads, 2 entries, 2 secrets, 2 passphrases, 4 writing calls, 2 faults; 2 callers, 4 machines, 3 calls, 1 fault | the vault file is whole; entries and passphrase are what their callers were told; what was stored is read; a migration that succeeds is complete |
| `rdp_session` | 2 callers, 2 calls, 2 desktop sizes up to 2 by 2, 3 bitmaps | the picture, the follower's screen, accepted input, the end and its last event |
| `ssh` | 20 bytes, sequences of up to 5; a screen of up to 3 by 3, 4 operations out of 60 and 4 sizes; lists of up to 6 out of 6 codes; all keys and modifiers; 7 ways to log in, 3 commands; pairs of transfers of up to 2 chunks, 1 cancel, failures anywhere | a dispatched sequence is what its text says; indexes in range; scrolling confined; the primary screen returns; renditions; distinct keys send distinct bytes; input in order, delivered unless the session ends; a session nobody holds closes; targets are whole |
| `host_keys_revoked` | 1 connection | an earlier plain line hides a revocation |
| `host_keys_asked` | 1 connection | accept-new asks |
| `pins_self_signed` | 1 connection, 2 certificates | an unpinned self-signed certificate is accepted |

**Why the bounds are enough.** The hazards of the manager are between two
callers on one session, and between two sessions for the last place: two
sessions, two controllers and one place are the smallest instance that has both,
and one call each already lets a cancel overlap a cancel, a `cancel_all` or a
prune at every step. The theorems cover larger instances. In the store, three
edits allow an edit before, during and after a save; two presses put a second
save behind one that took an older copy; one fault leaves a temporary file for
the next save to meet, and the theorem about the file holds for any number.
Two names and two identifiers are what a clash needs; five steps are load,
change, save and load again with one more change. Numbers below 13 let every
factor, cap and jitter saturate, overflow or not, and the theorem holds for any
word. Two lines in `known_hosts` are what an order of lines needs, three keys of
two algorithms what "same type, other key" and "other type" need, two connections
what overlapping writes need. In the vault,
four calls are a creation, a change that fails, another entry's change that
writes the first one out, and one more; two faults make a failure and a death. The
theorems hold for any number of each. In the store in front of it two calls meet
at an entry and the third finds what they left. In the RDP session, two calls by
two threads put a `disconnect` between the two halves of a `send`; a column and a
row on desktops of two widths tell a right index from one with the wrong row
length, and both reach over the edge of the narrow desktop. `MaxEvents` stops the
task from reading while the queue is that long, and thus bounds how far the
application falls behind, not how long the server talks. Two service calls are an
installation over another one and its removal; four audit records and two short
writes put a whole record between torn ones and two torn ones together. Two agents
displace each other at every step. A first log write completes a line of three
pieces, the second one completes what the first left open, in the middle of a
character too, and each may be either thread's. A text of five bytes behind the
introducer, the final byte among them, has room for a marker, a parameter, a
separator and another one, or for a sub-parameter; four operations
are a switch to the alternate screen, a change there, a resize or reset and the
way back; two or three rows are the least in which a region leaves rows outside.

**Deadlock** is not checked where the system comes to rest: users stop editing,
sessions end, attempts end, a bound is reached.

**Fairness.** In `manager_cancel` a thread inside a call of the manager
continues: it waits for nothing but a mutex nobody keeps. No call is ever
forced to begin and no task to report. In `config_store` the worker, which wakes
every 16 ms and takes the commands queued since (`rdt-ui/src/lib.rs:268-272`), runs
as long as its process and an edit that began is finished; nobody is obliged to edit, press or start a
process, and `SavePressReachesDisk` is about what happens after the last edit
and the last fault. In `host_keys` a runnable connection runs and a timer goes
off; nobody is obliged to answer. In `ssh` the runtime schedules the pump unless it waits for the window, and a
disconnect that began, and a connection without handles is closed by russh; no
caller is forced to call, no server to answer and no program to read: that it reads
again and again is a hypothesis of the two properties that need it
(`PeerKeepsReading`). In `rdp_session` the task is
scheduled, calls that began go on, and `Serve` is strongly fair because
`tokio::select!` without `biased` picks at random among its ready branches; that a
write to a peer returns at all is assumed, the code has no timeout there. The
server may fall silent or talk for ever, and the application owes nothing.

### Conditions in the properties

Some properties hold under a condition, because the code does not do better; each
is stated in the property's comment. `VaultIsWhole` and its companions: no
`create_vault` overlaps another writer. `TargetIsWhole`: no other transfer used the
temporary name. `LinesAreGenuine`: a key that was cut is exempt, and while saves
overlap only the keys of lines are compared. `PictureFaithful`, `ScreenCatchesUp`: the
sizes fit (`SizesFit`), and the server keeps to its desktop.
`StoredIsRead`: the entry's last call succeeded and met no other.
`AcceptedArrives`: the session was not disconnected, and the program on the server
reads. `ForgottenSessionCloses`: it reads. `TextIsAccounted`, `RedactedExactly`: of a
text as each write decodes it; a character cut between two writes is lost, and a
secret that has it passes. `RedactedExactly` also leaves a value inside an earlier
pair's value, and one next to a secret that covers its key or separator.
`DispatchMatchesText`: whether a sequence with sub-parameters is marked is left open. `IndicesInRange`: no restore
after a resize. `AuditSurvivesShortWrites`: no character was cut in half.
`CallsTakeEffect`: what a `disable --now` that failed left running or enabled stays
(`unheeded`), an entry of Windows goes when its service ends and is not started by
its installation, and coming up at the next boot is claimed of units of the machine
whose program notifies, and of Windows entries.
`DelayInBounds`: the sum does not overflow, for the lower bound. Without the
condition TLC finds the counterexample that the list below describes.

### Where the code and its documentation disagree

Checked by a run: the five findings of `PROJECT.json` (a cancelled session
leaves the table at once; an edit during a save loses its dirty mark; a
revocation below a plain line; accept-new asks instead of recording; a self-signed
certificate is accepted without a pin).

Met while modelling, without a run of their own:

* **Session manager.** `rdt-session/src/lib.rs:279` calls `cancel` idempotent; a
  second call broadcasts and audits again. `:9-10` speaks of a single end, yet a
  task that has not seen its token may broadcast after `Cancelled`. `:165` says
  newest first, `:169` sorts the oldest first. `:298-300` says a sender is dropped;
  a clone is. The documented machine (`:12-17`) lets a task go from Failed to
  Reconnecting, which can exceed the limit once another session took the place,
  and after a prune the task can no longer be cancelled; this is why the theorems
  assume that tasks leave no terminal state.
* **Configuration.** `rdt-config/src/store.rs:290` names the temporary file
  `<path>.tmp`, `:331` replaces the extension. Two windows use the same temporary
  name and can publish each other's half-written file; `config_store` and the
  theorem are about one window. A test at `:360` expects a new store to be dirty,
  `:93-98` makes it clean. `LoadError::Missing` is never produced. A window table
  without `start_page` gets "" (`settings.rs:66-67`), a document without the table
  gets "dashboard" (`:82`). Loading does not validate profiles, a version that is
  no 32-bit number counts as 0 and is stamped, unknown fields are lost at the next
  save, and a window of an older build that still runs overwrites a newer document
  (`migrate.rs:3-6` intends otherwise). The agent goes on with an empty store in
  memory when loading fails (`rdt-cli/src/main.rs:326-330`).
* **Files.** `docs/CONFIG.md:72-73` says of the files it lists, `known_hosts` and
  `pins.json` among them: "Writes are atomic: write a temporary file, `fsync`, apply
  permissions, rename. A crash mid-save cannot corrupt the store." These two are
  truncated and written in place, without a sync, and restricted afterwards
  (`known_hosts.rs:482-489`, `tls.rs:110-118`). A crash leaves part of the text, and
  two saves at once a mixture: a line of `known_hosts` may lose its `@revoked `. Where
  `LinesAreGenuine` asked for whole lines under overlapping saves TLC would find that.
* **SSH.** With no `known_hosts`, an accepted key is not written
  (`known_hosts.rs:333`, `:472`), whatever `handler.rs:24` says. Strict never
  asks, while `rdt-types/src/proto.rs:169` describes a user decision. Connections
  lose each other's additions. The connect timeout covers only the dial
  (`session.rs:67` says more); a refused `none` and an unanswered
  keyboard-interactive challenge go on to open a channel; agent authentication
  always fails; nothing sends `SessionCommand::Disconnect` or `SshEvent::Output`;
  `resize` leaves the stored size; input queued at a disconnect is lost.
  `docs/SECURITY.md:22` describes a `Drop` that `SshSession` does not have, and the
  comment on `_guard` (`session.rs:179`) says that "a forgotten session cannot keep a
  socket open": while the program on the server does not read, the pump of a dropped
  session waits for the window and keeps the connection. A key accepted for port 22
  is trusted on every port of the host (`known_hosts.rs:223-229`, 429-433).
* **SFTP.** Downloads of `a.txt` and `a.csv` share the temporary `a.rdt-part`, two
  uploads to one name theirs, and may leave a mixture under the target's name; a failed
  transfer leaves it behind, or fails after its rename was carried out; a transfer that
  starts clears the flag by which another was just cancelled.
* **Secrets.** `rdt-secrets/src/vault.rs:214` says a save is atomic. While
  `create_vault` runs (`lib.rs:100-105`, outside the mutex) it is not: one thread
  truncates the temporary file that another then renames over the vault, which is
  left empty. Dropping `~overlapped` from `VaultIsWhole` shows this in nine steps.
  `read_lenient` (`lib.rs:156`) falls back on any error, a locked vault included,
  and may return an older copy; `default_backend` is never consulted
  (`lib.rs:108-115`); a migration overwrites newer entries and stops at the first
  failure; the keychain's old item is deleted before the new one is added, a DPAPI
  blob is written in place, and two keystores cut line breaks off the secret.
* **RDP.** `rdt-rdp/src/session.rs:146` calls `Closed` the end of the session. The
  task sends one when the server says farewell and goes on (`:551-553`, bitmaps may
  follow), one for an error, and one at the very end (`:497`); only the last event
  is sure to be the end. `resize` does not look at the flag (`:382`), so it returns
  Ok after `disconnect`, and until the task's last instant. The task takes a
  bitmap's damage under the lock under which it drew (`:520-521`), so a renderer
  that polls the damage (`rdt-ui/src/pages.rs:285-286`) sees that of resizes only;
  nothing fills the UI's table of framebuffers yet. A bitmap over the right edge
  is read with the clipped row length and one beyond it is moved onto the last
  column (`framebuffer.rs:26`, `:144`). A desktop whose bytes 32 bits cannot count
  panics (`:78`, `:110`).
* **Pins.** A missing file gives a set that knows no path, so a first use fails to
  save and the connection is refused; the test at `tls.rs:253-261` expects success.
  Overlapping connections would overwrite each other's pins, if any were written:
  `connect` counts any certificate that is not empty as verified by an authority
  (`session.rs:709-715`), against `docs/SECURITY.md:15`.
* **Agent and service.** The later of two agents takes the path; the earlier one
  lives on unreachable, and when the later one dies nobody is reachable
  (`rdt-agent/src/lib.rs:196-199`). Disconnecting an unknown session reports ok;
  Connect starts nothing. The unit says `Type=notify` (`service.rs:128`) and nothing
  in the repository notifies, so `restart` waits until it gives up and the
  installation fails for the agent itself. A user unit is written to a directory
  systemd does not search unless the configuration directory was moved, and is
  wanted by `multi-user.target` (`:169`), which a user's manager does not have: it
  never comes up by itself. A removal ignores a failed `disable` and then says not installed while the service
  runs. `start_now` only sets the start type on Windows (`:27-28`), and a
  reinstallation over a running service fails.
* **Logs.** The key of a pair that is not sensitive swallows its value unscanned: in
  `error: password=x` the password stays, which `docs/SECURITY.md:17` does not say;
  a secret with a character that two writes share passes (`redact_writer.rs:77`);
  `partial_lines_are_assembled_before_redaction` expects a text that `write` does
  not produce. A write error leaves the remaining lines pending. The record after a
  torn one is lost with it, and a character cut in half makes the whole audit file
  unreadable (`audit.rs:197-201`). A process that cannot open the trail discards its
  records. Log files are never rotated, whatever `rdt-logging/src/lib.rs` is
  configured to.
* **Terminal.** A cursor or screen saved before a resize is restored unclamped and
  the next operation panics (`term.rs:180-206`, 430-434, 461-465, 525-543). The
  alternate screen's lines go to the history. `CSI ? n X` with any final but `h`
  resets a mode. SOS, PM and APC strings end at BEL, CAN or SUB only
  (`parser.rs:154-155` says ST). A sequence with `:` is said to "collapse to the first
  value, which is what terminals display" (`:310-311`), and the test at 664 that
  `CSI 4:3 m` is a plain underline; its parameters do collapse, but it is dispatched
  with `ignore` set (`:380`), so the terminal does nothing (`term.rs:238-240`). And ESC c resets the parser after the slice it came in. F5 to F12
  with modifiers send `ESC[1;m;NN~`. The desktop never feeds output into its
  terminal (`rdt-ui/src/pages.rs:176`).
* **Shared types.** `rdt-types/src/proto.rs:552` says 25 % jitter, the code allows
  75 %; delays can shrink once the factor saturates; nothing calls `validate`.

## 4. The proofs

Each module of constants has a named assumption (`ManagerAssumption`,
`StoreAssumption`, `DocumentAssumption`, `WordAssumption`, `VaultAssumption`,
`SecretStoreAssumption`, `RdpAssumption`, `ColoursAssumption`, `SizesFit`,
`HostKeysAssumption`, `SocketAssumption`, `ServiceAssumption`, `SshAssumption`,
`SftpAssumption`, `TerminalAssumption`, `InputsAssumption`, `ParserAssumption`,
`SgrAssumption`, `InputAssumption`, `LogsAssumption`, `SecretsAssumption`);
TLC evaluates them in the runs. Most only say that bounds are numbers and that
markers such as `None` are no values. Those that say more:

* `StoreAssumption`: the file system holds two more files than are ever in use.
* `SftpAssumption`: a file is not the temporary file of another transfer, uploads
  and downloads are on different machines, and the old files are not the new ones.
* `SecretStoreAssumption`: `NameOrder` lists every name once, and what a reader cuts
  off a secret leaves a string.
* `SizesFit`: the bytes of every desktop size of the session can be counted by 32 bits.
  It is an assumption about the server, which sends two 16-bit numbers.
* `HostKeysAssumption`: a line saved for a host applies to that host, and a key that was
  cut is no key that a server presents.
* `SecretsAssumption`: the secrets have no line break and cannot overlap the marker.
* `ServiceAssumption`: a rendered unit is neither no file nor a torn one.
* `InputsAssumption`: what the parser prints is a character and its parameters are
  numbers, which `ParserTheorem` is about.

`OneWindow` and `TerminalIsFinal` are hypotheses of the theorems that need them.

**Induction** has what the other modules prove about data with. The induction
principles of the library take a predicate as a parameter, which the provers cannot
instantiate; here they are stated of sets and functions, and follow from the least
number of a nonempty set (`LeastNumber`). `Induction`: a set of numbers that has 0
and the successor of each of its members has them all. `Recursion` and `Solvable`: a
function on 0..n with a first value and a step exists, which is what a recursive
definition needs before anything can be said of it. From these follow the facts
about joining, splitting, selecting and reading sequences element by element
(`FlattenSteps`, `KeptAppend`, `SplitAppend`, `SpelledAppend` and others), with
which a model's scan can be followed step by step.

**AgentProofs**, of the session manager. The inductive invariant is `IInv == TypeOK /\
Control`. The properties alone are not inductive: they speak of threads between
two steps of a call, so `Control` says what a thread in each step has already
done. `TaskCalls`: a task in a call transitions its own session to the state it
believes itself in, and has been registered. `Unregistered`: a session that
never registered has no slot. `ControllerCalls`: a controller's transitions are
to Cancelled and their session has already left the table. `SlotFollowsTask`:
the slot of a listed session shows its task's state, or an update on the way.

* `TypeCorrect`, `BroadcastTheorem`: for any sessions, controllers, moves.
* `LimitTheorem`, `FinishedTheorem`, `PoolTheorem`: the limit, the single end and
  the refinement of `SessionPool`, assuming `TerminalIsFinal` (no pair in `Moves`
  leaves a terminal state). Each step either leaves the set of unfinished
  sessions alone, adds one when the limit admits it, or takes one out; `prune`
  takes out none of them.
* `OrphanTheorem`: `NoOrphanTask`, under the same assumption. A token is handed to
  one thread because no thread can be firing it while the session is listed
  (`NobodyFiresListed`), and `prune` drops the tokens of tasks that have ended only.
* `AuditTheorem`: `AuditFollowsBroadcast`. `TrailLags` adds that no transition is to
  Idle (so that two reported states have different records, `RecordIsInjective`)
  and that only finitely many threads stand before an audit, however many there
  are: each of the set's changes adds or takes one thread.

**ConfigProofs**, of the store. `WholeInv == TypeOK /\ SaveProgress /\ Apart /\
FileIsWhole`. That the file is whole follows from the rename only if the
temporary file was whole and private before it: `SaveProgress` says, for each
step of a save, what the temporary file already is, and `Apart` that the two
names never share a file, so that truncating one does not touch the other.

* `TypeCorrect`: for any windows, agents, edits, faults.
* `WholeTheorem`: assuming `OneWindow`, with any number of agents, edits, faults
  and deaths the file is absent or whole and private.
* `NamesTheorem`: `NamesUnique` without that assumption. `NamesInv` is about every
  copy there is: a worker's snapshot, an agent's half of a reload, and each file
  whether a name leads to it or not, since a reload may bring any of them back.

Of the document: `DocumentInv` says that a store has every default filled in, and
that the file is the encoding of what was saved unless somebody else wrote it.
Defaults leave no field out and change nothing the second time, and migration
ends at the version of this build, whatever the text (`SavedTheorem`).

Of the reconnect policy: a saturating product by the factor never makes a number
smaller (`DoubledGrows`), the base lies between the first bound and the cap
(`BaseInBounds`), the jitter is at most three quarters of the base
(`JitterInBounds`), and a sum that fits is what the addition gives
(`RemainderOfSmall`).

* `DelaysAreBounded`: for every policy, every attempt and every word.

**SecretVaultProofs**, of the vault. `VaultInv == Base /\ (~overlapped => Orderly)`.
`Base` holds in any case: types, `Calling` (a thread in no call has nothing to do
and no file open) and `Mutex` (one call at a time on the open vault, which stays
open and shows the change under way). `Orderly` adds what needs one writer at a
time: `Solo`, `SaveProgress` (what the temporary file already is at each step, and
that `create_vault` finds its own file when it reopens it), `Creating` and the
three properties. An entry in the file is accounted for after a rename because
the one in memory was, which is why the property speaks of both.

* `TypeCorrect`, `WholeTheorem`, `EntriesTheorem`, `PassphraseTheorem`: for any
  threads, entries, secrets, passphrases, calls and faults, with no further
  assumption.

Of the store: `StoreInv` says that what is known is there (`RingKnown`,
`VaultKnown`), that an entry somebody is at is not known and that two callers at
one entry both know that they met (`Meetings`), that a blob written alone is the
secret (`Written`), and of a migration that what it took is written, still in its
list, or was touched by somebody else (`Migrating`). The list is taken from the
front, so what leaves it is what was just written (`InOrder`: no name twice).

* `StoredTheorem`, `MigrationTheorem`: for any callers, names, secrets, kinds of
  keystore, calls and faults.

**RdpSessionProofs.** Lemmas about the operators first: whatever rectangle the
server names, `Clamped` lies inside; unions of what is inside are; a cell inside a
grid has its index inside the grid's array (`CellInArray`) and no other cell has
it (`CellOfIndex`), the two pieces of nonlinear arithmetic, and the area of a size
that fits, or of a rectangle inside it, does not wrap (`AreaOfFitting`, `AreaInside`),
so that neither `Blit` nor `Resize` indexes outside or draws into another row.
`RdpInv == TypeOK /\ DamageInside /\ NothingHeldBack /\ EndIsTold`: that Closed is
the last event needs that the task holds none back once it left its loop.

* `TypeCorrect`, `DamageTheorem`, `EndTheorem`: for desktops of every size that fits,
  bitmaps of every size, any callers, calls, batches.
* `PictureTheorem`: `PictureFaithful`. `Blit` and `Resize` do to the array what the
  server's bitmap or new size does to its picture, cell by cell (`BlitDraws`,
  `ResizeDraws`).
* `ScreenTheorem`: `ScreenCatchesUp`. The property speaks of the moment when no
  event is left, so `Followed` says what holds before it: every cell is shown as
  it is, or lies in the damage of an event queued or about to be sent, or a
  Resized is on its way. A renderer that takes the damage first takes it of
  resizes only, which a Resized covers.

**IdentityProofs.** `KeyInv` has every line of every copy and of the file `Sound`: one
of the first file or of those that were accepted, whole or with its key cut short; once
saves have overlapped, any line with a key of one of those, which is what a mixture
keeps. It says for each connection, at each step, what its copy knows of the key:
unknown while the user is asked, trusted while it is saved. `Alone`, until saves
overlap: one connection writes at a time, over an empty file, so that nothing is left
for its text to mix with.
`UnknownReplacesNothing`: a copy that does not know a key has no line that
accepting it would replace, because such a line would make it trusted or changed.
`Accept` spells out that a filter that takes nothing out returns its list, which
the provers cannot derive of `SelectSeq`.

* `VerifiedTheorem`, `GenuineTheorem`, `AcceptTheorem`: for any connections, hosts,
  keys, files, faults and deaths.

Nothing is proved of the pins: see `CertificatePins` above.

Of the socket and the service (also AgentProofs): `SocketInv` adds to the types that only connections of the
agents' user are open, that an agent between `bind` and `accept` has its socket at
the path or was displaced, that a running agent made the directory private first,
and, for each client, the lines handled and the replies entry by entry (`InStep`),
since a property stated with `SubSeq` alone is not inductive. `ServiceInv` says
for each system call of an installation (`Installing`) and of a removal
(`Uninstalling`) what those before it achieved, that nothing runs or is enabled of a
unit the manager does not know, unless a failed disable left it (`UnknownIsQuiet`),
which a removal that finds no unit relies on, and the same of an entry of Windows that
does not exist (`Entries`).

* `OrderTheorem`: `ControlIsOrderly` for any agents, clients, lines and stops.
* `CallsTheorem`: `CallsTakeEffect` for any requests, machines, calls and faults.

Of the logs: what a write decodes to is text, whatever its bytes (`LossyIsText`), and a
further write brings its own text behind the earlier ones' (`BroughtMore`); the lines of
a text, joined, are the text up to its last line break
(`LinesAreText`), by induction over the lines, so that taking any number of them loses
nothing; the latest entries of a list that grows are those of its latest entries
(`LatestOfLatest`). Of the audit trail, `TrailInv`: every record that was
reported written begins somewhere in the file, pieces stand where the steps of an
append put them, and no more places are cut short than there were short writes. A
record that is not read back is charged to the cut in its own line or in the line it
was swallowed by, and no cut is charged by more than two.

* `TextTheorem`: `TextIsAccounted` for any threads, bytes, capacities and failures.
* `TrailTheorem`: `AuditSurvivesShortWrites` for any processes, records and cuts.

Of the redaction: each symbol of a result is given the part of the line that it stands
for (`Origins`), itself or, for a marker, a stretch, and such lists compose
(`OriginsCompose`). `str::replace` leaves none of its word and a later one brings none
back (`ReplacedAll`, `OccursBack`: a word in the result is a word in the line). The
invariant of the scan of pairs (`Scrubbed`) has that the key before the next symbol is
what was copied last (`KeyIsCopied`), so that taking it back and copying it again
changes nothing, and that no separator which counts was passed over (`NoneMissed`).
What both leave and take is then read in the first line: a position that is in no
secret is still there after the replacement, next to the same neighbours
(`StaysPlain`, `StayTogether`), so a pair that must be looked at is still a pair.

* `RedactionTheorem`: `RedactedExactly` for any lines, secrets and cuts into writes.

**SshProofs.** `SessionInv` has the order entry by entry: what arrived is the
beginning of what was issued (`Arrived`), and the queue is the rest as long as
channel, connection and pump last (`Waiting`). `TransferInv` follows files and not
names: no two names lead to one file (`OneName`), transfers that use one temporary
name at one time have clashed (`Sole`), a file being written is reached through its
writer's temporary name only (`Sinks`), and a transfer that has not clashed has in
it what it has copied, and no other writer (`Owned`). A target may hold the source of a
transfer that failed, if that one got as far as its rename (`Reached`). Without `Sinks` and `Fresh` a
later transfer might still write into a file that was already renamed.

* `InputTheorem`: `InputInOrder` for any commands and ends.
* `TargetTheorem`: `TargetIsWhole` for any transfers, lengths, failures, cancels.

**TerminalProofs**, of the screen. One lemma for each method: from a terminal on
which every index is in range (`Sound`) it makes another, and leaves alone what it
has no business with (`Same`). `TermInv` adds what a restore needs: while no resize
came in between, what was saved fits, and the saved screen is the primary one.

* `IndicesTheorem`, `ScreenTheorem`, `ScrollingTheorem`: for every size, history,
  input and number of calls.

Of the parser: `ParserInv` says in which states each collected part may be
nonempty (`StartsClean`, `CollectedInState`), and that a partial character is
shorter than it announced. A sequence may start from any state, since ESC breaks
off whatever is being read, so the invariant is about all of them.

* `ParserTheorem`: for every text and every limit.
* `DispatchTheorem`: `DispatchMatchesText`. `TextInv` says what was read so far of the
  bytes behind the introducer: the fields between its semicolons are the parameters
  pushed and the one being read (`Read`), a state past the entry means that no byte so
  far breaks the form or begins a sub-parameter, and `CsiIgnore` that one did, or that
  the parameters are those in front of the first sub-parameter (`Collapsed`). One lemma each follows a digit, a
  semicolon and a marker into the fields; saturating at every digit gives the saturated
  number (`SaturateOnce`), and a text that is malformed stays so (`Malformed`).

Of renditions: the rounds over a list are followed one by one. A round reads only
codes at and behind its own, so that over a list cut behind a complete code the
rounds first do what they do for the first piece and then, shifted, what they do for
the second; a list never needs more rounds than it has codes.

* `RenditionTheorem`: `SgrIsSequential` for lists of any length.

Of the keys: from the bytes a special key sends the kind of key and the modifiers can be
read back (the first bytes tell the form, the digit the modifiers), so no other press in
the same mode sends the same.

* `KeyTheorem`: `KeysUnambiguous` for any number of function keys.

The type invariants of these modules are theorems and no longer part of the runs,
like the limit, the single end and the damage, of which the theorems say more.

**Only model-checked:**

* liveness, because the prover has neither fairness nor ENABLED: `CancelAllSweeps`,
  `SavePressReachesDisk`, `EveryAttemptEnds`, `InputIsServed`, `SessionEnds`,
  `ForgottenSessionCloses`, `AcceptedArrives`.

Every safety invariant that a run checks is a theorem.

## 5. Not modelled

* **Session handle and commands** (`rdt-session/src/handle.rs`): nothing makes a
  handle or reads its queue. `send` of the manager always refuses.
* **RDP clipboard** (`rdt-rdp/src/clipboard.rs`): the backend never calls the
  bridge.
* **Drawing, themes, accessibility** of `rdt-ui`: pages read state and call the
  modelled operations. The command worker's Connect only sets a status text.
* **Path tables, probes and the dependency report** of `rdt-platform`, and the
  **command line's** one-shot commands: inputs of the operating system and output
  without state.
* **The one-call operations of SFTP** (list, mkdir, remove, rename, preview), the
  wire form of RDP input, cell attributes on the terminal's screen: data that no
  property tells apart.
* **The socket check of the SSH agent** (`rdt-ssh/src/agent.rs`), which always
  refuses afterwards.
* Power failures that lose synced data; cryptography, which is exact here; the
  build scripts, packaging and vendored code.

## 6. Plan

1. An abstract specification of a file that is replaced in one step, and the saves
   of `ConfigStore` and the transfers of `SftpTransfer` shown to implement it, as
   `SessionManager` is shown to implement `SessionPool`.
2. The store and the vault in one model, so that a caller's view spans
   `SecretStore` and the steps of `SecretVault`'s save.
