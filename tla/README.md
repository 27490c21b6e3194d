# A TLA+ verification project for resccom

resccom builds "islands": small self-contained mobile networks (an Open5GS
core, a RAN, local services, WAN backhaul) whose subscribers may roam between
islands. Nearly all packet handling is third-party software. What resccom
itself adds is the code that *keeps the pieces consistent*: who is a
subscriber, which uplink carries the traffic, what configuration is signed,
written and running. That code is small, is run by several people and scripts
at a time, holds no locks, and is interrupted in practice by Ctrl-C, power cuts
and unplugged cables. This project models that code.

Line references are to files of the repository (`store.py:95` is line 95 of
`sim-tools/resccom_sim/store.py`; `wand.py` is `stack/backhaul/config/wand.py`;
`apply.py`, `render.py`, `checks.py`, `cli.py` are `island-init/island_init/`, except
`sim-tools/.../cli.py` where said so; `two-island.sh` is in
`stack/federation/`, `island.sh` at the root).
`PROJECT.json` maps every definition to its lines.

## 1. Inventory

### Modelled

| component | state | operations | interacts with |
|---|---|---|---|
| **Subscriber store** (`resccom_sim/store.py`, `model.py`, `crypto.py`, the `sub` commands of its `cli.py`) | one encrypted SQLite file, replaced whole | `sub add`, `add --if-missing`, `edit`, `remove`, `list`, `show`; migration of old files | any number of rigs, `island.sh`, operators, through the file |
| **Core synchronisation, inbound roaming** (`sync.py`, `roaming.py`) | Open5GS's `subscribers` collection in MongoDB | `db sync`, `roaming export / import / remove` | reads the store; shares the collection with Open5GS, which writes to documents of attached UEs |
| **WAN failover daemon** (`wand.py`) | health, active uplink, time of the last change; in the kernel: tables, default route, HTB classes, iptables chain | monitor thread: check every uplink, pick the best, move route and shaping; `GET /status` | Docker's networks, gateways, DNS; restarts with its container |
| **Host-side apply** (`apply.py`, `render.py`) | `draft.yaml`, `island.yaml`, rendered files, what running containers have read | `island.sh apply`: validate, sign, render, write, restart containers, clear the draft | the console through the draft; Docker |
| **Operator console** (`console/server.py`, `static/app.js`) | the draft; each browser's copy of the document; an uploaded map | load, preview, save draft, draft status, coverage maps | apply, through files only |
| **Island identity** (`wizard.py`, `migrate.py`, `crypto.py`, `cli.py`, `apply.py`) | `island.yaml`; `signing.key` and `wireguard.key` of each island id; the draft | `island-init new`, `migrate`, `check`, the signing in `apply` | read by everything; edited by hand too |
| **island.yaml checks** (`checks.py`) | none | PCI reuse, overlapping prefixes, production profile, signature, key on disk | asked by `new`, `migrate`, `check`, `apply`, the console |
| **island.sh lifecycle** | what is running; the files of secrets, the rendered settings, the operator's token, Postgres's volume | `up` with its first-run secrets, `down`, `apply` | runs `island-init`, starts core and services |
| **Two-island harness** (`stack/federation/two-island.sh`, `two_island_setup.py`) | island A's core, rendered tree and federation; island B's checkout and containers; a state file saying whether A's core was there before | `up`, `verify`, `roam`, `drill`, `down` | the developer's own island A, its subscriber store, `island.sh up` and `down` from another terminal |

What is hard, and what makes each correct:

* *Store.* Two commands rewrite the file from copies read at the same time; a
  command is killed between truncating and filling it; an IMSI is chosen in one
  read and inserted in another; an old file is migrated by whoever opens it
  first. Correct: a command acts as one step on a map from IMSIs to subscribers;
  what was reported added is there; nothing overwrites credentials.
* *Core synchronisation.* A script is many database calls; the store is edited,
  a UE attaches, another script runs, or the script dies between two of them.
  Correct: one document per IMSI; a finished sync mirrors its list; a live
  session is not disturbed; roamers and locals never overwrite each other.
* *wand.* The network changes between any two shell commands, none of whose
  results is looked at. Correct: route, published status and shaping agree, and
  once the network is quiet wand sits on the best uplink that works.
* *Apply.* Five different things (draft, signed document, files, containers, the
  browser) hold a version of the configuration, and a run may stop between any
  two updates. Correct: success means files and containers agree with the
  document; an interrupted run is completed by the next.
* *Identity.* Three files must agree and are written one after the other; `check`
  reads only two of them; drafts outlive the identity they were staged under; and
  the file may be edited or put back by hand. Correct: what a finished command
  leaves is accepted, an accepted file has its signing key, and `apply` and
  `migrate` change neither identity nor signedness.
* *First run.* `up` generates six files of secrets and a token, and takes a file that is
  there as done, so what an interrupted run leaves is what the next one trusts.
  One password stands in two files and a volume. Correct: no secret is a committed
  example's and the three copies agree, unless a filling was cut.
* *Harness.* It borrows a real island, its steps fail and its runs are killed,
  most of the teardown ignores errors, and the next run starts from whatever is
  left. Correct: it destroys nothing it found, and a teardown that gets to its
  end leaves nothing of its own, on the host or in the subscriber store, except that a
  core of its own which a later `up` found there is kept (two-island.sh:142-143).

### Not modelled

| component | why |
|---|---|
| the harness's drills (`two-island.sh:1058-1266`), `roam_test.py` | they stop an overlay or a guest and read logs: tests of third-party programs between the `up` and `down` that are modelled |
| the JSON schema of `island.yaml` | one flag of a document: whole, lacking what `migrate` fills in, or lacking more |
| `island.sh status`; what is asked of NOMAD's API | reads, and calls of a third-party program |
| coverage tool (`console/coverage.py`) | floating-point arithmetic, no state |
| captive portal | stateless: probes and answers |
| CoreDNS, Matrix, Jitsi, Nomad, Element; core, RAN and federation compose files | configuration of third-party programs |
| verification scripts | test rigs; what they expect is used as properties |
| SIM card programming | stubs that raise (`sim-tools/.../cli.py:372-383`) |

The hazards of all components, each at its line and with the properties that
catch it, are in `PROJECT.json`. Hazards with no property carry a note.

## 2. Modules

    AtomicStore        the store's promise: a map, one command a step
      ^ implemented by
    SubscriberStore    read / truncate / write of one file  -- SubscriberStoreProofs
    Registry           a core's own subscribers and its guests, apart
      ^ implemented by
    Overlaps           CoreSync, with what scripts that overlap
                       do to each other                       -- CoreSyncProofs
      ^ extends
    CoreSync           scripts against MongoDB and its UEs
                       (instantiates AtomicStore for the local store's edits)
    Failover           what a reader of /status sees of wand
      ^ implemented by
    Wand               the monitor thread against the network -- WandProofs
      ^ extended by
    Passes             Wand, counting passes since the last disturbance
    Apply              console, apply, up, down               -- ApplyProofs
    Checks             the checks as operators                -- ChecksProofs
      ^ extended by
    Identity           island.yaml and its private keys       -- IdentityProofs
      ^ extended by
    Bootstrap          all of `up` around Identity            -- BootstrapProofs
    Harness            two-island.sh on a developer's island  -- HarnessProofs

`MC<Module>.tla` gives each its small constants; the `.cfg` files are the runs.
A definition whose comment begins "Mutant of" is no part of a specification: it
is a plausible bug, used to show that a property can fail.

### SubscriberStore

`st`/`rows` are the file; `pc`, `cmd`, `snap` a process's command and private
decrypted copy. `_with_db` (store.py:67-99) is three steps: **Load** (read,
decrypt, migrate, run the SQL on the private copy), **Truncate** and **Seal**
(the two halves of `write_bytes`). **Pick** is the separate read by which
`sub add --test` chooses an IMSI; **LoadFails** a refusal after it; **Crash** a
kill at any point. `stale`, `raced`, `overlapped`, `killed`, `owed` are history: which
copies are older than the file, whether one was written, whether a command truncated the
file while another was between Truncate and Seal, whether a write was killed, and what
was reported. Two writes that overlap may leave either copy, or, when they differ in
length, a mixture whose tag does not fit (`garbled`): a file that is `Torn`, as the
empty one is, and refused by every later Load until somebody replaces it.

Abstractions. A credential stands for key, OPc, AMF, label and notes. The SQL
runs on a private file and is merged into Load. Commands that only read, and
commands refused from the start, change nothing and are no action. An IMSI is
its number after the test PLMN. Initially the file is absent, or left by a release whose
rows have no roaming mode.

`AtomicStore` states the promise with the code's two limits: a killed write
destroys the store, and after a write from a stale copy nothing is promised.
`storeBar` is the refinement mapping: the migrated file, or, while a write is
under way, the copy being written.

### CoreSync

`mongo` maps an IMSI to its *sequence* of documents (nothing in `src/` creates
a unique index). A script is a loop: **SyncLeaves**/**SyncFinds** (findOne and
decision) and **SyncWrites** (insertOne or replaceOne) are separate steps,
**SyncDeletes** the final deleteMany; imports likewise. Loop order is left open.
**Attach** is Open5GS adding its own keys, **LocalEdit** an AtomicStore command
by whoever shares the store, **Kill** a script that stops. MongoDB and Open5GS
are external, modelled as the scripts use them: `Where` is a filter, whose
documents are those at the `Places` where it holds. Export is a read; its result is
any set of policy records. `MaxRunning` says how many scripts may overlap: two
do when two rigs sync, or when a killed client leaves mongosh running and the
operator retries.

`Overlaps` adds two history variables: `overlapped` (a script has started while another
was running) and `beaten` (another script has written to the IMSI that this one has
looked up and is about to write). What depends on nobody else writing to the collection
is promised until two scripts overlap; what a script's own lookup secures is promised
of every script that is not beaten, however many run.

`Registry` is what the commands promise about the collection until two of them
overlap (its `raced`): a table of the island's
own subscribers and one of guests, no IMSI in both. A sync **Begin**s with a copy of
the store, **Put**s one row at a time, and **Finish**es, when every listed row is there
unless a guest stands in its way, by dropping the others, or it **GiveUp**s;
**Admit** and **Dismiss** are guests, between syncs, **Edit** the store. Lookups,
documents and Open5GS's own keys are below this view. The mapping (`oursBar`,
`guestsBar`) reads the tables off the documents.

### Wand

One action per shell command or assignment of `check_uplink`, `set_active` and
`monitor_loop`, in their order, except that the three commands of
`setup_policy_routing` (wand.py:145-148) and those of `setup_qos` (193-217) are one step
each, so that no event falls between them; between any two, **Unplug**, **Plug**,
**Change** or **Restart** may happen. `tbl`, `dflt`, `shaped`, `chain` are the
kernel; `iface`, `pub`, `active` are wand's memory. A probe over a path that is
not the uplink's own may answer either way. Docker gives a default route when
the container starts and none on reconnection; an interface's routes and qdiscs
go with it, the iptables rules naming it stay.

`QuickFlap` says whether an interface name that wand still remembers may come
back on another connection. The timestamps and the `attached` flag of the status
are left out, and `ip`, `tc` and `iptables` are taken to return within their
timeout. `Failover` is the /status reader's view: results appear one by one, the
active uplink changes only to the best published one, and does so if it must.

`Passes` is Wand with one history variable: `calm` counts the passes of
`monitor_loop` that have ended since the last event, up to `Enough`, which is 3. Three
passes are needed: the pass under way may already be through with the checks that the
event spoils, the next finds remembered interfaces wrong and forgets them, and the
one after that looks for them again. With `Enough` = 2 TLC finds RightAfterCalm
violated.

### Apply

`page` (browsers), `draft`, `island` (island.yaml), `files` (rendered) and
`running` (what each file's reader read at start), with `pc`, `cmd`, `cand`,
`todo`, `restarts` of the one host shell. **ApplyStarts** loads, validates,
signs and renders (reads only); **DumpIsland**, **WriteFile**, **Restart** /
**RestartFails**, **ClearDraft** follow in the order of `apply_draft`. **Up...**
start core, check, render, start services. **Die** is a kill or a full disk,
which may leave the file being written `Torn`; **SaveCut** the same for the
console. **UploadMeasured** is the upload of measured points: the draft becomes
island.yaml's document with one field that no rendered file shows.

Abstractions. A document is what its rendered files say; identity, signature,
`draft-meta.json` and logs say nothing a later step acts on. Invalid documents
are refused before any change and left out. Readers of a torn file fail and
change nothing. `apply` takes only the identity from island.yaml and never validates the
rest (apply.py:173-184), so it runs over a cut one too. `compose up` starts what is
stopped; that it also recreates a running container whose rendered compose file has
changed (island.sh:301-302) is left out, so `running` is here as old as it can be. A cut
document that still validates is left out. One host command runs at a time. `wan-edge`, which `island.sh`
does not start, is left out. `clean` is history: the command found everything in
step.

### Checks

Each check is an operator that is passed when it reports no issue:
**PciIssues** is `check_pci_uniqueness` with its running set of PCIs,
**Overlaps** Python's comparison of prefixes by their ends,
**ProductionPasses**, **Verifies** and **WireguardMatches** the others;
**Validates** is what every writer asks, `Accepted` (in Identity) what
`island-init check` asks. What PciIssues and Overlaps are *for* is stated
separately, over all pairs of cells and all addresses (**CellsDistinct**,
**ShareAddress**, together **Sound**). Prefixes are ones that read as networks: of a
malformed one the overlap check says nothing and leaves it to the schema
(checks.py:73-74).

### Identity

`island`, `secrets` and `draft` are the disk; `pc`, `cmd`, `cand` the one host
shell. **New**, **Migrate**, **Apply** and **UpBegins** read, validate and
generate, which changes nothing on disk; **Dump**, **WriteSigning**,
**WriteWireguard** and **ClearDraft** are the writes in the code's order; **Die**
cuts any of them. **SaveDraft** is the console, **EditByHand** and **PutBack** the
user, who edits the file or restores the one the last `new` replaced. History:
`cut`, `touched`, and `sure`: `apply` began with an accepted file whose declared
key is the one in `signing.key`, which `apply` signs with without comparing.

Abstractions. A document is its shape, id, two public keys, signature and a body
with the fields that checks read. A key pair is the number of its generation; the
private halves bear the same number. A signature holds who made it and over what,
so that it is verified, not assumed. A cut document that still parses lacks
fields from its end, as far back as its public keys, or is `Torn`; one whose key or id
is itself cut short is left out. `apply` over a cut document locks in the keys that are
left of it, null ones included (apply.py:84-88), and fails without a signing key
(apply.py:107). A command that refuses is no action, except `up`'s check. The console
also refuses a draft that does not render (server.py:141-144): SaveDraft may stage one
that it would not. An older release's island, which `migrate` is for, is one of the
initial states.

### Bootstrap

`held` maps each file of secrets to whose secret is in it (the number of the run
that generated it, or the committed example's), `db` is the password Postgres's
volume was initialised with, `stage` walks `cmd_up` in the order `After`. A file
made from an example is **Copy**, then **Fill**; **Skip** takes one that is there
as done; **Generate** is a key or a certificate; **IdentityStep** runs Identity's
actions as `bootstrap_island_init` does, **OtherCommand** and **Anytime** the rest
of Identity around it; **Start** / **Unhealthy** is compose with its health checks;
**UpDies** a kill or a failing step at any point.

Abstractions. `sed -i` renames a finished copy, so a kill finds the file before or
after it. A certificate and its key (island.sh:191-202) are one file. Directories docker creates for missing mounts, `homeserver.yaml`, sed's
`.bak` and the core are left out, and nobody edits the `.env` files. The console
lets nobody in before there is a token.

### Harness

`core`, `owner`, `tree`, `roamer`, `aUe` (its simulated gNB and UE), `aFed` are island A; `cloned`, `bUp`, `wan`
island B and the host; `recorded` is the state file; `pc`, `cmd` the harness's
shell. Each command is its script's steps in order: **Record** ... **FedB** are
`cmd_up`, **Check**, **Provision**, **RoamUes** the tests, **RmUes** ...
**Restore** `cmd_down`, which the tests' EXIT trap also runs. **Fails** is any
step exiting early; **Kill** a run whose trap does not run or does not finish.
A step with `|| true` is a **BestEffort**: it is done, or did nothing and the
script goes on. **UserUp**, **UserDown** are `island.sh`, at any moment. History:
`found` (what `up` saw of A's core when it last looked: nothing, a core, or no answer
from docker), `slipped` (has a best-effort step
failed), `roaming` (has the roaming subscriber been added since the last whole
`down`).

What a finished `down` leaves has one exception, which the script's own comment accepts
(two-island.sh:142-143) and NothingLeft states: when the last `up` found a core of A, an
earlier `up`'s included, or could not ask docker, `down` keeps that core, and with it the
gNB and the UE that `up` attached to it. Within that, and as long as no `|| true` step
has failed, nothing is left.

Abstractions. One harness command runs at a time. A's containers change shape
when it is peered; here its core is absent, stopped with its data, or up. A tree is A's own
or (in part) peered. Island B's database goes with its core. A clone killed half
way, which the next `up` would take for a checkout, is left out.

## 3. Runs

| run | checks | shows |
|---|---|---|
| `store` | TypeOK, TornForCause, ReportedIsStored, AddedIsNew, NeverOverwritten, ImplementsAtomicStore | with every interleaving and kill, the file is an atomic map until a stale or killed write, and readable unless a write was killed or two overlapped |
| `store_union` | UnionOfRigs, **violated** | two rigs adding at a time: one subscriber is lost, contrary to store.py:125-127 |
| `coresync` | TypeOK, OneUntilOverlap, DuplicatesBounded, MirrorAfterSync, SyncSparesRoamers, ImportSparesLocal, OnlyDifferencesWritten, ImplementsRegistry | three scripts, up to two at a time and killable, with edits and attaches between their calls: until two overlap the collection mirrors the store and is the two tables; a script that is not beaten to its IMSI spares roamers, locals and live sessions even then |
| `coresync_rigs` | LiveUndisturbed, **violated** | a sync from an older list deletes another rig's attached subscriber |
| `wand` | TypeOK, RouteFollowsStatus, ActiveIsShaped, RightAfterCalm, PassMoves, Converges, ImplementsFailover | whatever happens when, route, status and shaping agree, every pass ends, and wand finds the best uplink, in three passes |
| `wand_flap` | Converges, **violated** | an uplink replugged under its old name between two checks is never used again |
| `apply` | TypeOK, EndsInStep, ClearedIsWritten, UpServes | two editors, three host commands, any of them killed anywhere |
| `apply_draft` | DeletesOnlyApplied, **violated** | a draft saved while apply runs is deleted unapplied |
| `apply_restart` | ClearedIsRunning, **violated** | after a failed restart, the retry restarts nothing and reports success |
| `harness` | TypeOK, PreexistingSurvives, NothingLeft, NotResurrected | commands failing or killed anywhere, a user acting meanwhile: a core found is kept, a finished `down` leaves nothing (but a core of its own that a later `up` found), nothing comes back |
| `firstrun` | IdentityTypeOK, CheckedKeysMatch, WrittenIsSound, IdentityKept, FinishedIsAccepted, RefusedForCause, BootstrapTypeOK, SecretsAreOwn, UnhealthyForCause, StartsChecked | two runs of `up` on a fresh clone or an older instance, two commands on the identity, a hand edit and any drafts, all killed anywhere: secrets, keys, signature and passwords agree, or something was cut |
| `identity_production` | SoundEditsStage, **violated** | no edit of a production island can be staged or applied: the draft carries no signature, which the production checks ask for (checks.py:173-180, apply.py:177), contrary to apply.py:3-6 |

A violated run checks one sentence of the repository's own documentation; the
sentence and its place are quoted under "findings" in `PROJECT.json`.

Three more sentences are known not to hold as written, and no run is spent on them:
started with no working uplink, wand publishes "none" while Docker's default route
stays (wand.py:251, against backhaul/README.md:73-75), which RouteFollowsStatus
therefore does not exclude; and a core that its user starts after the harness
looked is destroyed by its `down` (two-island.sh:432, against 16-20), so
PreexistingSurvives speaks of cores the harness found; and between an import's conflict
check and its upsert (roaming.py:173, 182) a sync may insert a local subscriber, which
the import then replaces, although "an inbound-roamer import can never silently clobber
that island's own real subscriber" (sim-tools/README.md:240-241): ImportSparesLocal
excludes just that gap (`~beaten`), and without the condition TLC finds it violated.

### Bounds

* *store*: 2 processes, 2 IMSIs, 2 credentials, 3 commands (111,598 states). Two
  processes give every race; the third command observes what a race or a kill
  left. With `MaxCommands` used up the system stops: deadlock is not checked.
* *coresync*: 2 IMSIs, 2 credentials, 3 scripts, of which 2 at a time, 1 edit (923,786
  states): two that overlap in any way, one of them killed or not, and one before or
  after, with a change of the store in between. With two IMSIs one may be listed and one
  not. `coresync_rigs` has the same bounds.
* *wand*: 2 uplinks, 3 names, 3 events (48,602 states): fail over, fail back, and
  one disturbance in the middle of either. The violating runs need 1 or 2 events.
* *apply*: 2 editors, 5 files (two of one core container, one of an unmapped core
  container, one of a service, one read by nobody), 2 values, 2 saves, 3 commands
  (1,571,800 states): an interrupted command, one that follows it, and one that
  observes. The bounds are in the guards of the actions that start a command.
* *harness*: 3 commands, 2 user actions (1,334,532 states): a run that is killed, one
  that follows from what it left, and one more `down`, with a core started and
  stopped in between.

* *firstrun*: 2 runs of `up`, 2 commands, 1 edit by hand, 2 ids, 4 bodies: the lab's,
  one that reuses a PCI, one whose prefixes overlap, one of a production island
  (1,458,806 states): an interrupted `up` and the one that finishes it, with a `new`,
  `migrate` or `apply` cut before, and an edit. Prefixes are of 4 and 16 addresses,
  sites of up to two cells, some without a PCI; for all prefixes and sites the proofs
  speak. `identity_production` needs 1 of each.

Symmetry (interchangeable processes, credentials, editors, and the two files of
one container) is used only in runs without liveness.

### Fairness

Only `Wand` (and `Passes`, which is Wand) states any: weak fairness of `Monitor`, the disjunction of the
thread's own steps. It is a daemon thread in an endless loop, each step is one
subprocess, and `sh` gives each a timeout. Nothing is assumed of the network,
whose events are bounded in number, which is the "once the network is quiet" of
Converges. The other modules state no fairness and no liveness: their commands
run when somebody types them.

## 4. Proofs

For every value of the constants, checked by TLAPS from the named assumption of
each module (`StoreAssumption`, `CoreAssumption`, `WandAssumption`,
`ApplyAssumption`, `IdentityAssumption`, `BootstrapAssumption`,
`HarnessAssumption`; they say that the special values are distinct, that the
bounds are numbers, that priority is a number, for Apply that RESTART_MAP only
names files somebody reads, for Identity that a prefix has a size and the
committed example validates, for Bootstrap that no two examples hold the same
secret).

**SubscriberStoreProofs.** `StoreTypes`, `StoreInvariant`, then
`StoreTornForCause`, `StoreKeepsReported`, `StoreAddsNew`,
`StoreNeverOverwrites`, and `StoreImplementsMap` (ImplementsAtomicStore). None of
the properties is inductive: that a write preserves what was reported depends
on its private copy. `StoreInv` adds that, until a stale write, at most one
process is in the write window (OneWriter), a copy that is not stale is the
command applied to the present rows (FreshCopy), and what was reported is in the
file or in the copy about to replace it (Kept, NewAdd). That a file no passphrase opens
has its cause needs that two processes in the write window mean an overlap, and an
overlap a race (OverlapIsRace). Lemmas state what the SQL
operators return.

**CoreSyncProofs.** However many scripts overlap (of `Spec`): `CoreTypes`, and
`NoMoreThanOverlap`, which bounds what overlapping costs. Two scripts that both found
nothing both insert, but an IMSI never has more documents than scripts may run at a
time, however many run one after the other, are killed, or leave something behind:
DuplicatesBounded. WideInv counts, for each IMSI, its documents and the scripts that
found none and are about to insert one (RoomToInsert); the sum never exceeds
MaxRunning.

However many scripts overlap (of Overlaps' `OSpec`), of each script that nobody beats to
its IMSI: `RoamersSpared`, `LocalSpared`, `WritesDifferences`. Their invariant WatchInv
says that what such a script found when it looked the IMSI up is still so when it
writes, although UEs attach in between; the documents of an IMSI may by then be several,
and the lemmas on filters and first places say what a write leaves of them.

Until two scripts overlap (`~overlapped`, without which they are false):
`OneDocumentEach`, `SyncMirrors`, and `CollectionIsRegistry`, the refinement of
Registry. `CoreInvariant` says that until then one script runs (OneRunner), that what it
found is still so when it writes (FoundHolds), and that what a sync has passed says what
its list says, or is a roamer's (PassedHolds). The refinement needs both: a sync's last
deletion is Registry's Finish only if every entry it passed is as Put left it.

**WandProofs.** `WandTypes` needs, beyond types, that the decision steps run with
a chosen uplink (ChosenIsUplink): `set_active` indexes a dictionary with it.
`WandShapes` (ActiveIsShaped) holds whatever the network does.
`WandRouteFollowsStatus` (RouteFollowsStatus) assumes `~QuickFlap`, without which
it is false: a remembered interface name may by then be another uplink's.
`WandSwitchesToBest` is the safety half of the refinement of Failover: initial
states map to initial states and each step to a step or a stutter.

Two theorems say of every number of uplinks and earlier events how soon wand is right
again. `WandPassMoves` (PassMoves): each step of a pass leaves fewer to go, of at most
4 * NumUplinks + 4, whatever the network does. `WandRightAfterCalm` (RightAfterCalm,
with `~QuickFlap`, on which it depends as RouteFollowsStatus does): after three passes
without a disturbance the active uplink is the best that works, the published health is
the truth and the route follows. Its invariant CalmInv says what each calm pass has
achieved up to the uplink under check: the first leaves no stale interface name
(FirstPass), the second publishes what is true (SecondPass), the third decides on it
(ThirdPass); that a remembered interface that is right has its table set up (Tables);
and that no uplink remembers a name that is another's (NamesApart). Together they are the part of
Converges that is not about scheduling: what is left is that the thread runs at all.

**ApplyProofs.** `ApplyTypes`, `ApplyInvariant`, then `ApplyClearsWritten`,
`UpServesIsland` and `CommandsKeepStep` (EndsInStep). The invariant says that a
command knows all that is left to do: files not in `todo` already say what its
document says; if it found everything in step, a mapped container on an old file
is in `restarts`, and an `up` has nothing to write.

**ChecksProofs.** No PCI issue means that any two cells can be told apart
(`NoIssueMeansDistinct`), two prefixes overlap by their ends exactly if they share
an address (`OverlapsIsSharing`), so content that passes is `Sound`
(`PassingIsSound`): for all sites and prefixes, where TLC sees a few.

**IdentityProofs.** `IdentityTypes` and the invariant, then `KeysMatch`,
`CommandsWriteSound`, `EditsKeepIdentity`, `FinishedAccepted` and
`UpRefusesForCause`. `check` compares `wireguard.key` only. That this is enough for
`signing.key`, for a document that declares a WireGuard key, rests on the order of the writes: the document names a new
generation before either key is on disk and the WireGuard key comes last.

**BootstrapProofs.** A run of Bootstrap is a run of Identity
(`BootstrapImplementsIdentity`), so Identity's theorems hold inside `up`
(`BootstrapKeepsIdentity`). `SecretsOwn`, `UnhealthyOnlyForCause` and
`OnlyCheckedStarts` follow from an invariant that says which files are there at
which stage (Ready), that the password in `secrets.yaml` and in the volume came
from `.env` (FromEnv), and that Identity's shell is idle outside its stages (Quiet).

**HarnessProofs.** `HarnessTypes`, `HarnessInvariant`, then `HarnessSparesCore`
(PreexistingSurvives), `HarnessLeavesNothing` and `HarnessNotResurrected`. The
invariant says that the state file claims A's core only if the last `up` found
none (Recorded), that it does so whenever that `up` is past looking (OnRecord), that
after an `up` that found nothing, whatever runs of the harness's own on island A is on
record until the teardown has destroyed it (Accounted), that nothing of island B runs without the checkout it is taken
down from (Removable, which needs HasCheckout of the steps of `up`), and what each
step of the teardown may take to be gone already (Progress).

**Only model-checked.** Converges and the liveness half of ImplementsFailover:
liveness under fairness is out of this prover's reach. And what the runs that are
violated show, which is not to be proved: among them what a sync from an older list
does to another rig's attached subscriber (`coresync_rigs`).

## 5. Plan

Done, in this order: SubscriberStore with AtomicStore, Wand with Failover,
CoreSync, Apply, Harness, Checks, Identity, Bootstrap, and the proofs above. Next:

1. *Two islands*: CoreSync twice, with export and import between: what a visited
   island holds was once the home island's policy, and stays when the home island
   changes it.
2. *The harness over Bootstrap*: `two-island.sh up` runs `island.sh`'s steps on
   island A; composing the two would show what a kill of one leaves for the other.

Each new module comes with a passing run, a mutant for every property, and its
type invariant and main safety invariant proved.
