------------------------------ MODULE Installation ------------------------------
(***************************************************************************)
(* One user's installation: the files of the data directory that decide    *)
(* who the daemon is, the `jolt start` processes that race for the API     *)
(* port, and the commands, routes and Console buttons that change either.  *)
(*   jolt-node/src/commands/start.rs, stop.rs, daemon.rs, config.rs        *)
(*   jolt-identity/src/keypair.rs, export_bundle.rs                        *)
(*   jolt-server/src/identity_recovery.rs, local_identities.rs,            *)
(*   network_settings.rs and their routes                                  *)
(*   apps/jolt-console/src-tauri/src/lib.rs (the daemon's lifecycle)       *)
(* keypair.bin and config.json are read, written in place and read again   *)
(* without a lock, so a change of either is a read, a truncation and a     *)
(* write, and whatever else runs comes in between.  Nothing handles        *)
(* SIGTERM, so stopping a daemon is a crash between two such steps, or     *)
(* inside a handler that writes several files (ImportLocalCutShort).  The  *)
(* encryption keypair is written beside and renamed.                       *)
(* An identity is named by its address; a bundle, by what its plaintext    *)
(* holds.  Recycled pids, I/O errors of a healthy disk and a crash of a    *)
(* command that changes settings are left out.                             *)
(***************************************************************************)
EXTENDS Naturals, FiniteSets

CONSTANTS Identities,     \* every identity that can come up
          Procs,          \* `jolt start` processes alive at one time
          Homes,          \* home relay settings other than none
          NoRelay,        \* home_relay: None
          NoFile,         \* the file does not exist
          BadFile,        \* the file is there and does not parse
          Nobody,         \* no process
          Stale,          \* a pid that is no daemon's
          FirstKeys,      \* keypair.bin at the start, or NoFile
          FirstConfigs,   \* the home relay in config.json at the start, or NoFile
          FirstBundles    \* export bundles the user brought along

VARIABLES key,       \* identity/keypair.bin
          keypair,   \* whose key local_identity_encryption_keypair.json holds
          locals,    \* local-identities/<id>: "none", "cut" or "saved"
          config,    \* the home relay in config.json
          pidFile,   \* daemon.pid
          procs,     \* the processes and what each has loaded
          child,     \* DaemonLifecycleManager.child of the Console
          starting,  \* starts of the Console that wait for their health probe
          imports,   \* imports of a root identity past their check
          changes,   \* changes of the settings past their load
          bundles,   \* export bundles that exist
          past       \* history: acked, the identities whose local import was
                     \* answered Ok, and unwritten, those among them for which
                     \* nothing was written; consent, whether an import was told
                     \* it may overwrite; contended, whether two that mean to
                     \* write keypair.bin overlapped; served, who has served

files == <<key, keypair, locals, config>>
console == <<child, starting>>
routes == <<imports, changes>>
machineVars == <<files, pidFile, procs, console, routes, bundles, past>>

Idle == [at |-> "none", identity |-> NoFile, keypair |-> FALSE, home |-> NoRelay,
         records |-> {}, active |-> NoFile]
Zombie == [Idle EXCEPT !.at = "zombie"]

MachineTypeOK ==
  /\ key \in Identities \cup {NoFile, BadFile}
  /\ keypair \in Identities \cup {NoFile}
  /\ locals \in [Identities -> {"none", "cut", "saved"}]
  /\ config \in Homes \cup {NoRelay, NoFile, BadFile}
  /\ pidFile \in Procs \cup {Nobody, Stale}
  /\ child \in Procs \cup {Nobody}
  /\ \A m \in imports : m.bundle \in bundles /\ m.stage \in {"checked", "writing", "written"}
  /\ \A c \in changes : c.stage \in {"loaded", "writing", "saved"}
  /\ past.unwritten \subseteq past.acked /\ past.acked \subseteq Identities

MachineInit ==
  /\ key \in FirstKeys /\ keypair = NoFile
  /\ locals = [i \in Identities |-> "none"]
  /\ config \in FirstConfigs
  /\ pidFile = Nobody /\ child = Nobody /\ starting = 0
  /\ procs = [p \in Procs |-> Idle]
  /\ imports = {} /\ changes = {}
  /\ bundles = FirstBundles
  /\ past = [acked |-> {}, unwritten |-> {}, consent |-> FALSE, contended |-> FALSE, served |-> {}]

----------------------------------------------------------------------------
\* Processes.

Alive(p) == procs[p].at \notin {"none", "zombie"}
Serves(p) == procs[p].at = "serving"
Serving == \E p \in Procs : Serves(p)
Server == CHOOSE p \in Procs : Serves(p)

\* The process table when p ends: the Console's own child waits to be reaped.
Without(p) == [procs EXCEPT ![p] = IF child = p THEN Zombie ELSE Idle]

\* The routes end with the daemon, wherever they are; a command goes on.
RoutesEnd(p) ==
  /\ imports' = IF Serves(p) THEN {} ELSE imports
  /\ changes' = IF Serves(p) THEN {c \in changes : c.by = "command"} ELSE changes

\* p ends and leaves daemon.pid as it is; what a daemon held in memory is gone.
Dies(p) ==
  /\ procs' = Without(p)
  /\ pidFile' = IF pidFile = p THEN Stale ELSE pidFile
  /\ RoutesEnd(p)
  /\ UNCHANGED <<console, bundles, past>>

Becomes(p, state) == procs' = [procs EXCEPT ![p] = state]

Moves(p, state) == Becomes(p, state) /\ UNCHANGED <<console, routes, bundles, past>>

Spawn(p) ==
  /\ procs[p].at = "none"
  /\ Moves(p, [Idle EXCEPT !.at = "spawned"])
  /\ UNCHANGED <<files, pidFile>>

\* start::run up to clear_daemon_info: refuses while the recorded pid is a daemon's.
CheckRunning(p) ==
  /\ procs[p].at = "spawned"
  /\ UNCHANGED files
  /\ IF pidFile \in Procs THEN Dies(p)
     ELSE pidFile' = Nobody /\ Moves(p, [procs[p] EXCEPT !.at = "checked"])

\* Some start or some import has looked at keypair.bin and means to write it.
KeyIsInUse == imports # {} \/ \E p \in Procs : procs[p].at \in {"nokey", "generating"}

\* load_or_generate: only a missing key file leads to a new key.
LoadKey(p) ==
  /\ procs[p].at = "checked"
  /\ UNCHANGED files
  /\ \/ /\ key \in Identities
        /\ Moves(p, [procs[p] EXCEPT !.at = "loaded", !.identity = key]) /\ UNCHANGED pidFile
     \/ /\ key = NoFile
        /\ Becomes(p, [procs[p] EXCEPT !.at = "nokey"])
        /\ past' = [past EXCEPT !.contended = @ \/ KeyIsInUse]
        /\ UNCHANGED <<pidFile, console, routes, bundles>>
     \/ key = BadFile /\ Dies(p)

Unused == Identities \ ({key, keypair} \cup past.acked \cup past.served \cup {b.id : b \in bundles}
                        \cup {i \in Identities : locals[i] # "none"}
                        \cup UNION {procs[p].records \cup {procs[p].identity} : p \in Procs})

\* generate, and save up to the truncated file.
GenerateKey(p) ==
  /\ procs[p].at = "nokey"
  /\ \E i \in Unused : Moves(p, [procs[p] EXCEPT !.at = "generating", !.identity = i])
  /\ key' = BadFile
  /\ UNCHANGED <<keypair, locals, config, pidFile>>

GeneratedKeySaved(p) ==
  /\ procs[p].at = "generating"
  /\ key' = procs[p].identity
  /\ Moves(p, [procs[p] EXCEPT !.at = "loaded"])
  /\ UNCHANGED <<keypair, locals, config, pidFile>>

\* load_persisted_local_encryption_key: the stored keypair must be this identity's.
KeypairFits(i) == keypair \in {NoFile, i}

\* build_network_config: the home relay the node starts with.
ConfiguredHome == IF config = NoFile THEN NoRelay ELSE config

\* load_settings, ContentStore::open, NetworkNode::new, write_daemon_info.
ConstructNode(p) ==
  /\ procs[p].at = "loaded"
  /\ UNCHANGED files
  /\ IF config = BadFile \/ ~KeypairFits(procs[p].identity) THEN Dies(p)
     ELSE /\ Moves(p, [procs[p] EXCEPT !.at = "ready", !.keypair = (keypair # NoFile),
                                       !.home = ConfiguredHome])
          /\ pidFile' = p

\* load_generated_identities: one unreadable directory fails them all.
load_generated_identities == {i \in Identities : locals[i] = "saved"}
LocalsReadable == \A i \in Identities : locals[i] # "cut"

\* build_router: LocalIdentityStore::open, whose error is a panic.
BuildRouter(p) ==
  /\ procs[p].at = "ready"
  /\ UNCHANGED files
  /\ IF ~LocalsReadable THEN Dies(p)
     ELSE /\ Moves(p, [procs[p] EXCEPT !.at = "routed", !.active = procs[p].identity,
                                       !.records = load_generated_identities])
          /\ UNCHANGED pidFile

\* TcpListener::bind; the loser removes daemon.pid, whoever wrote it.
BindPort(p) ==
  /\ procs[p].at = "routed"
  /\ UNCHANGED <<files, console, routes, bundles>>
  /\ IF Serving THEN procs' = Without(p) /\ pidFile' = Nobody /\ UNCHANGED past
     ELSE /\ Becomes(p, [procs[p] EXCEPT !.at = "serving"]) /\ UNCHANGED pidFile
          /\ past' = [past EXCEPT !.served = @ \cup {procs[p].identity}]

Starts(p) ==
  \/ CheckRunning(p) \/ LoadKey(p) \/ GenerateKey(p) \/ GeneratedKeySaved(p)
  \/ ConstructNode(p) \/ BuildRouter(p) \/ BindPort(p)

\* A process is killed from outside, by SIGTERM, SIGKILL or a panic.
Crash(p) == Alive(p) /\ Dies(p) /\ UNCHANGED files

\* find_running_daemons: the recorded pid and a scan of the process table.
RunningDaemons == {p \in Procs : Alive(p)}

\* `jolt stop`: refuses to choose among several daemons; none at all only
\* cleans up the pid file.
JoltStop ==
  /\ Cardinality(RunningDaemons) <= 1
  /\ pidFile' = Nobody
  /\ procs' = [p \in Procs |-> IF Alive(p) THEN Without(p)[p] ELSE procs[p]]
  /\ imports' = {} /\ changes' = {c \in changes : c.by = "command"}
  /\ UNCHANGED <<files, console, bundles, past>>

----------------------------------------------------------------------------
\* The Console.

\* owned_pid: a child that has exited is reaped, a living one is the answer.
OwnsALivingChild == child # Nobody /\ Alive(child)
Reaped == IF child = Nobody THEN procs ELSE [procs EXCEPT ![child] = Idle]

\* lifecycle_report, for a status.
ConsoleStatus ==
  /\ child # Nobody /\ ~Alive(child)
  /\ procs' = Reaped /\ child' = Nobody
  /\ UNCHANGED <<files, pidFile, starting, routes, bundles, past>>

\* daemon_lifecycle_start up to its health probe: nothing to do while an own
\* child lives.  Another start may come in while the probe is awaited.
ConsoleStart ==
  /\ ~OwnsALivingChild
  /\ procs' = Reaped /\ child' = Nobody
  /\ starting' = starting + 1
  /\ UNCHANGED <<files, pidFile, routes, bundles, past>>

\* The probe: a daemon that answers is left alone; else one is spawned, and the
\* child of an earlier start is no longer the Console's.
ConsoleProbed ==
  /\ starting > 0 /\ starting' = starting - 1
  /\ \/ Serving /\ UNCHANGED <<procs, child>>
     \/ /\ ~Serving
        /\ \E p \in Procs :
             /\ procs[p].at = "none"
             /\ Becomes(p, [Idle EXCEPT !.at = "spawned"]) /\ child' = p
  /\ UNCHANGED <<files, pidFile, routes, bundles, past>>

stop_owned_daemon ==
  /\ child # Nobody
  /\ procs' = Reaped /\ child' = Nobody
  /\ pidFile' = IF pidFile = child THEN Stale ELSE pidFile
  /\ RoutesEnd(child)
  /\ UNCHANGED <<files, starting, bundles, past>>

\* stop_any_daemon: the own child first, dead or alive, else `jolt stop`.
ConsoleStop == stop_owned_daemon \/ (child = Nobody /\ JoltStop)

\* detach_owned_daemon_on_exit: the daemon outlives the Console, its starts do not.
ConsoleDetach ==
  /\ child # Nobody \/ starting > 0
  /\ procs' = IF OwnsALivingChild THEN procs ELSE Reaped
  /\ child' = Nobody /\ starting' = 0
  /\ UNCHANGED <<files, pidFile, routes, bundles, past>>

----------------------------------------------------------------------------
\* Identities.  The routes answer only while a daemon serves.

\* The daemon's own record and the generated ones.
Listed(i) == i = procs[Server].identity \/ i \in procs[Server].records

InMemory(state) == Moves(Server, state) /\ UNCHANGED <<files, pidFile>>

create ==
  /\ Serving
  /\ \E i \in Unused : InMemory([procs[Server] EXCEPT !.records = @ \cup {i}])

select(i) ==
  /\ Serving /\ Listed(i)
  /\ InMemory([procs[Server] EXCEPT !.active = i])

\* delete: never the daemon's own record, and only from memory.
delete(i) ==
  /\ Serving /\ i \in procs[Server].records /\ i # procs[Server].identity
  /\ InMemory([procs[Server] EXCEPT !.records = @ \ {i},
                                    !.active = IF @ = i THEN procs[Server].identity ELSE @])

\* decrypt_identity_export and validate_plaintext: the keys inside are the identity's.
BundleIsGood(b) == b.keys \in {NoFile, b.id}

\* encrypt_identity_export: what a bundle of the identity holds.
Bundle(i, keys) == [id |-> i, keys |-> keys]

\* export_local_identity: from memory, with the keys its import brought.
LocalExports ==
  LET brought(i) == {NoFile} \cup {b.keys : b \in {c \in bundles : c.id = i}}
  IN UNION {{Bundle(i, k) : k \in brought(i)} : i \in procs[Server].records}

\* export_identity reads the key files, whatever identity the daemon runs as.
RootExports ==
  {b \in {Bundle(key, keypair)} : b.id \in Identities /\ BundleIsGood(b)}

\* The route: a local identity that was named, else the root identity.
ExportIdentity ==
  /\ Serving
  /\ \E b \in LocalExports \cup RootExports : bundles' = bundles \cup {b}
  /\ UNCHANGED <<files, pidFile, procs, console, routes, past>>

\* Faulty: the identity is listed and answered without being written to disk.
Persisted_Not(i) == locals

\* persist_generated_identity: the key file, then recovery.json beside it.
Persisted(i) == [locals EXCEPT ![i] = "saved"]

\* import_recovered: written first, then listed, then answered.  An identity
\* that is listed already is answered Ok as it is, and nothing is written.
import_recovered(i) ==
  /\ Serving
  /\ IF Listed(i)
     THEN /\ UNCHANGED <<locals, procs>>
          /\ past' = [past EXCEPT !.acked = @ \cup {i},
                                  !.unwritten = IF locals[i] = "saved" THEN @ ELSE @ \cup {i}]
     ELSE /\ locals' = Persisted(i)
          /\ Becomes(Server, [procs[Server] EXCEPT !.records = @ \cup {i}])
          /\ past' = [past EXCEPT !.acked = @ \cup {i}, !.unwritten = @ \ {i}]
  /\ UNCHANGED <<key, keypair, config, pidFile, console, routes, bundles>>

\* import_local_identity: a bundle that decrypts and names its own keys.
Recovered(b) == b \in bundles /\ BundleIsGood(b)

\* The route, for as_local_identity.
ImportLocal(b) == Recovered(b) /\ import_recovered(b.id)

\* The key file or recovery.json is missing or torn when the daemon dies.
ImportLocalCutShort(b) ==
  /\ Recovered(b) /\ Serving /\ ~Listed(b.id)
  /\ locals' = [locals EXCEPT ![b.id] = "cut"]
  /\ Dies(Server)
  /\ UNCHANGED <<key, keypair, config>>


\* A readable key of another identity is kept unless told otherwise; a key
\* that cannot be read counts for none.
WouldOverwrite(i, allow) == key \in Identities /\ key # i /\ ~allow

\* import_identity up to its check.
ImportRoot(b, allow) ==
  /\ Serving /\ Recovered(b)
  /\ ~WouldOverwrite(b.id, allow)
  /\ imports' = imports \cup {[bundle |-> b, stage |-> "checked"]}
  /\ past' = [past EXCEPT !.consent = @ \/ allow, !.contended = @ \/ KeyIsInUse]
  /\ UNCHANGED <<files, pidFile, procs, console, changes, bundles>>

\* save_imported_encryption_keypairs: a bundle without keys leaves the file.
ImportedKeypair(b) == IF b.keys = NoFile THEN keypair ELSE b.keys

\* The rest of import_identity: keypair.bin is truncated and written, then the
\* encryption keys follow and the import is answered.
ImportSteps(m) ==
  LET to(stage) == imports' = (imports \ {m}) \cup {[m EXCEPT !.stage = stage]}
  IN /\ \/ m.stage = "checked" /\ key' = BadFile /\ to("writing") /\ UNCHANGED keypair
        \/ m.stage = "writing" /\ key' = m.bundle.id /\ to("written") /\ UNCHANGED keypair
        \/ m.stage = "written" /\ keypair' = ImportedKeypair(m.bundle)
           /\ imports' = imports \ {m} /\ UNCHANGED key
     /\ UNCHANGED <<locals, config, pidFile, procs, console, changes, bundles, past>>

\* ensure_local_identity_encryption_key, on the first use of private content.
EnsureKeypair ==
  /\ Serving /\ ~procs[Server].keypair
  /\ keypair' = procs[Server].identity
  /\ Moves(Server, [procs[Server] EXCEPT !.keypair = TRUE])
  /\ UNCHANGED <<key, locals, config, pidFile>>

----------------------------------------------------------------------------
\* Settings.  A change loads config.json, alters what it loaded and writes it
\* all back in place; a route then tells the daemon, a command tells nobody.

\* load: the file must parse.
Loads(by, stage, h) ==
  /\ config # BadFile
  /\ changes' = changes \cup {[by |-> by, stage |-> stage, home |-> h]}
  /\ UNCHANGED <<files, pidFile, procs, console, imports, bundles, past>>

\* set_home_relay and clear_home_relay of the routes.
SettingsRoute(h) == Serving /\ Loads("route", "loaded", h)

\* add_bootstrap_relay and remove_bootstrap_relay: the home relay is written
\* back as it was loaded; a relay that is there already is not added again.
BootstrapRoute == Serving /\ \E stage \in {"loaded", "saved"} : Loads("route", stage, ConfiguredHome)

\* The same on the command line; clearing nothing writes nothing.
SettingsCommand(h) ==
  (h = NoRelay => ConfiguredHome # NoRelay) /\ Loads("command", "loaded", h)

BootstrapCommand == Loads("command", "loaded", ConfiguredHome)

\* save, in place: a route reads the file once more and fails if it is torn.
\* The last step is apply_runtime_settings.
ChangeSteps(c) ==
  LET to(stage) == changes' = (changes \ {c}) \cup {[c EXCEPT !.stage = stage]}
      ends == changes' = changes \ {c}
  IN /\ \/ /\ c.stage = "loaded"
           /\ IF c.by = "route" /\ config = BadFile THEN ends /\ UNCHANGED config
              ELSE to("writing") /\ config' = BadFile
           /\ UNCHANGED procs
        \/ /\ c.stage = "writing" /\ config' = c.home
           /\ IF c.by = "route" THEN to("saved") ELSE ends
           /\ UNCHANGED procs
        \/ /\ c.stage = "saved" /\ ends
           /\ Becomes(Server, [procs[Server] EXCEPT !.home = c.home])
           /\ UNCHANGED config
     /\ UNCHANGED <<key, keypair, locals, pidFile, console, imports, bundles, past>>

----------------------------------------------------------------------------
\* Steps the installation takes by itself.
MachineProgress ==
  \/ \E p \in Procs : Starts(p)
  \/ \E m \in imports : ImportSteps(m)
  \/ \E c \in changes : ChangeSteps(c)
  \/ ConsoleProbed

\* Steps somebody asks of it, of the given kinds.
MachineEvent(kinds) ==
  \/ "start" \in kinds /\ \E p \in Procs : Spawn(p)
  \/ "stop" \in kinds /\ JoltStop
  \/ "crash" \in kinds /\ \E p \in Procs : Crash(p)
  \/ "console" \in kinds /\ (ConsoleStart \/ ConsoleStatus \/ ConsoleStop \/ ConsoleDetach)
  \/ /\ "local" \in kinds
     /\ \/ create \/ ExportIdentity
        \/ \E i \in Identities : select(i) \/ delete(i)
        \/ \E b \in bundles : ImportLocal(b) \/ ImportLocalCutShort(b)
  \/ "replace" \in kinds /\ \E b \in bundles : ImportRoot(b, TRUE)
  \/ /\ "root" \in kinds
     /\ \/ EnsureKeypair \/ ExportIdentity
        \/ \E b \in bundles, allow \in BOOLEAN : ImportRoot(b, allow)
  \/ /\ "settings" \in kinds
     /\ \/ BootstrapRoute \/ BootstrapCommand
        \/ \E h \in Homes \cup {NoRelay} : SettingsRoute(h) \/ SettingsCommand(h)

----------------------------------------------------------------------------

\* Every start that gets as far as opening the local identity store lists every
\* identity that an import answered Ok has written: whatever crashed in between,
\* whichever of two racing starts it is, and although delete forgets in memory.
\* (import_recovered also answers Ok for an identity that is listed already and
\* writes nothing; one that was only in memory is gone with the daemon.)
AckedImportsSurvive ==
  [][\A p \in Procs : (procs[p].at = "ready" /\ procs'[p].at = "routed")
       => past.acked \ past.unwritten \subseteq procs'[p].records]_machineVars
=============================================================================
