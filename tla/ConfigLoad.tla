----------------------------- MODULE ConfigLoad -----------------------------
(***************************************************************************)
(* From the configuration file to a serving process, and back after a      *)
(* crash: Config of opsense-core's config.rs, the module registry of       *)
(* api/modules.rs, pipeline_from_config of api/mod.rs, open_backend of     *)
(* station.rs and run of serve.rs.  A boot is a sequence of checks and     *)
(* loads that may each refuse; what it serves must be what was declared.   *)
(***************************************************************************)
EXTENDS Naturals, Sequences, FiniteSets

CONSTANTS ModuleIds, BuiltinId,   \* ids of [[modules]]; the id of the compiled-in one
          MaxBoots                \* bound

VARIABLES cfg,       \* the file and the environment
          phase,     \* where the boot stands
          registry_m,\* ApiModuleRegistry.modules: id -> the entry it came from
          todo,      \* the entries, by place in the file, load_dynamic has still to load
          sock,      \* what is at the path of the unix socket
          opened,    \* stations opened: id -> what it was opened on, or the error
          boots
cvars == <<cfg, phase, registry_m, todo, sock, opened, boots>>

Unset == "unset"      \* an absent name
NoNumber == 8         \* an absent number
Junk == 9             \* a value that is no number
StationIds == {"a.b", "a_b"}

-----------------------------------------------------------------------------
\* Configurations that differ from the default in one section.
Entry == [id : ModuleIds \cup {""}, builtin : BOOLEAN, enabled : BOOLEAN, path : {"", "p", "q"}]
Redis == {"absent", "empty", "url"}
NoOverride == [backend |-> Unset, redis |-> "absent"]
Mesh == [on : BOOLEAN, suspect : {0, 1}, dead : {0, 1}, quorum : {0, 1}, named : BOOLEAN]

Plain == [scalars |-> TRUE, modules |-> <<>>, allow |-> {},
          backend |-> "memory", redis |-> "absent", over |-> [s \in StationIds |-> NoOverride], env_url |-> FALSE,
          mesh |-> [on |-> FALSE, suspect |-> 1, dead |-> 1, quorum |-> 1, named |-> TRUE],
          env_dead |-> NoNumber, env_suspect |-> NoNumber, types |-> {}, prometheus |-> "off"]

ModuleFiles == {[Plain EXCEPT !.modules = m, !.allow = a] :
    m \in [1..1 -> Entry] \cup [1..2 -> {e \in Entry : e.path # "" /\ e.id # ""}],
    a \in {{}} \cup {{ids} : ids \in SUBSET ModuleIds}}
StorageFiles == {[Plain EXCEPT !.backend = b, !.redis = r, !.env_url = u, !.over["a_b"] = o] :
    b \in {"memory", "redis", ""}, r \in Redis, u \in BOOLEAN,
    o \in [backend : {Unset, "memory", "redis", ""}, redis : Redis]}
MeshFiles == {[Plain EXCEPT !.mesh = m, !.env_dead = d, !.env_suspect = s] :
    m \in Mesh, d \in {NoNumber, 0, 1, Junk}, s \in {NoNumber, 0, 2}}
OtherFiles == {[Plain EXCEPT !.scalars = ok, !.types = t, !.prometheus = p] :
    ok \in BOOLEAN, t \in SUBSET {"typetag", "runtime", "unknown"}, p \in {"off", "ok", "bad"}}
Files == ModuleFiles \cup StorageFiles \cup MeshFiles \cup OtherFiles

ConfigInit ==
    /\ cfg \in Files
    /\ phase = "down" /\ registry_m = [i \in {} |-> 0] /\ todo = {}
    /\ sock \in {"none", "dir"}
    /\ opened = [s \in {} |-> ""] /\ boots = 0

-----------------------------------------------------------------------------
\* StorageConfig::for_station: an override field by field over the rest.
for_station(id) ==
    LET o == cfg.over[id]
    IN  [backend |-> IF o.backend = Unset THEN cfg.backend ELSE o.backend,
         redis   |-> IF o.redis = "absent" THEN cfg.redis ELSE o.redis]

\* RedisConfig::resolved_url is empty without a url in the file or in the
\* environment; an absent section has none whatever the environment says.
HasUrl(redis) == redis = "url" \/ (redis = "empty" /\ cfg.env_url)

ValidStorage ==
    /\ cfg.backend # ""
    /\ \A s \in StationIds :
         LET o == cfg.over[s] IN
         /\ o.backend # ""
         /\ o.backend = "redis" => HasUrl(IF o.redis = "absent" THEN cfg.redis ELSE o.redis)
    /\ cfg.backend = "redis" => HasUrl(cfg.redis)

\* The checks of [[modules]] without the one for ids that appear twice.
ValidModules_Repeats ==
    \A i \in DOMAIN cfg.modules :
        /\ cfg.modules[i].id # ""
        /\ cfg.modules[i].builtin \/ cfg.modules[i].path # ""

ValidModules ==
    /\ \A i \in DOMAIN cfg.modules :
         /\ cfg.modules[i].id # ""
         /\ cfg.modules[i].builtin \/ cfg.modules[i].path # ""
    /\ \A i, j \in DOMAIN cfg.modules : cfg.modules[i].id = cfg.modules[j].id => i = j

\* GossipConfig::resolved: the environment over the file, unless a value
\* is no number.
Resolves == cfg.env_dead # Junk
resolved == [cfg.mesh EXCEPT !.dead = IF cfg.env_dead = NoNumber THEN @ ELSE cfg.env_dead,
                             !.suspect = IF cfg.env_suspect = NoNumber THEN @ ELSE cfg.env_suspect]

ValidMesh ==
    /\ Resolves
    /\ resolved.on => /\ resolved.named /\ resolved.suspect > 0
                      /\ resolved.dead >= resolved.suspect /\ resolved.quorum > 0

validate == cfg.scalars /\ ValidStorage /\ ValidModules /\ cfg.prometheus # "bad" /\ ValidMesh

\* cfg.allow holds the allow list when the variable is set; a list that is
\* set but empty keeps nothing.
enabled_modules ==
    {i \in DOMAIN cfg.modules : cfg.modules[i].enabled /\ \A ids \in cfg.allow : cfg.modules[i].id \in ids}

\* Registered at run time or known to typetag; no components is clock -> null.
pipeline_from_config == "unknown" \notin cfg.types

-----------------------------------------------------------------------------
Fail == phase' = "failed" /\ UNCHANGED <<registry_m, todo, sock>>
Boot(from, to) == phase = from /\ phase' = to

load_config ==
    /\ boots < MaxBoots
    /\ phase = "down"
    /\ boots' = boots + 1
    /\ IF validate THEN phase' = "state" /\ UNCHANGED <<registry_m, todo, sock>> ELSE Fail
    /\ UNCHANGED <<cfg, opened>>

\* AppState::new: the pipeline is built and reloaded into the runtime.
NewState ==
    /\ phase = "state"
    /\ IF pipeline_from_config THEN phase' = "register" /\ UNCHANGED <<registry_m, todo, sock>> ELSE Fail
    /\ UNCHANGED <<cfg, opened, boots>>

register_builtin ==
    /\ Boot("register", "load")
    /\ registry_m' = [i \in {BuiltinId} |-> "compiled in"]
    /\ todo' = {i \in enabled_modules : ~cfg.modules[i].builtin}
    /\ UNCHANGED <<cfg, sock, opened, boots>>

\* The next module in file order: the library, its symbol, its version and its routes may all be
\* refused, which ends the boot; else it is in the table under its id.
load_dynamic ==
    /\ phase = "load"
    /\ \E next \in todo :
         /\ \A i \in todo : next <= i
         /\ \/ /\ registry_m' = [i \in DOMAIN registry_m \cup {cfg.modules[next].id} |->
                      IF i = cfg.modules[next].id THEN cfg.modules[next].path ELSE registry_m[i]]
               /\ todo' = todo \ {next}
               /\ UNCHANGED <<phase, sock>>
            \/ Fail
    /\ UNCHANGED <<cfg, opened, boots>>

\* into_router consumes the registry; two modules of one prefix end in a panic.
into_router ==
    /\ phase = "load" /\ todo = {}
    /\ \/ phase' = "bind" /\ UNCHANGED <<registry_m, todo, sock>>
       \/ Cardinality(DOMAIN registry_m) > 1 /\ Fail
    /\ UNCHANGED <<cfg, opened, boots>>

\* Whatever is at the path goes: the socket of an earlier life or the
\* directory the image was built with.
clear_socket_path ==
    /\ Boot("bind", "cleared")
    /\ sock' = "none"
    /\ UNCHANGED <<cfg, registry_m, todo, opened, boots>>

bind ==
    /\ phase = "cleared"
    /\ phase' = IF sock = "none" THEN "serving" ELSE "in_use"
    /\ sock' = IF sock = "none" THEN "socket" ELSE sock
    /\ UNCHANGED <<cfg, registry_m, todo, opened, boots>>

\* A signal or a crash: the socket stays behind; a supervisor starts again.
Ends ==
    /\ phase = "serving"
    /\ phase' = "down" /\ registry_m' = [i \in {} |-> 0] /\ todo' = {}
    /\ opened' = [s \in {} |-> ""]
    /\ UNCHANGED <<cfg, sock, boots>>

\* safe_segment: what is no letter, digit, - or _ becomes _.
safe_segment(id) == IF id = "a.b" THEN "a_b" ELSE id

open_backend(id) ==
    LET c == for_station(id)
    IN  CASE c.backend = "memory" -> "memory"
          [] c.backend = "redis" /\ HasUrl(c.redis) -> safe_segment(id)
          [] OTHER -> "error"

\* A station node prepares.
OpenStation(id) ==
    /\ phase = "serving" /\ id \notin DOMAIN opened
    /\ opened' = [s \in DOMAIN opened \cup {id} |-> IF s = id THEN open_backend(id) ELSE opened[s]]
    /\ UNCHANGED <<cfg, phase, registry_m, todo, sock, boots>>

ConfigNext ==
    \/ load_config \/ NewState \/ register_builtin \/ load_dynamic \/ into_router
    \/ clear_socket_path \/ bind \/ Ends
    \/ \E s \in StationIds : OpenStation(s)

-----------------------------------------------------------------------------
\* A serving process has loaded every module that the file enables and the
\* allow list lets through, each from its own path: none was replaced by a
\* later entry.
LoadedAsConfigured ==
    phase = "serving" => \A i \in enabled_modules :
        LET m == cfg.modules[i]
        IN  ~m.builtin => m.id \in DOMAIN registry_m /\ registry_m[m.id] = m.path

\* No process is in the mesh with windows that declare a peer dead before it
\* is suspected, whatever the environment put over the file.
MeshSound ==
    phase = "serving" /\ resolved.on =>
        resolved.suspect > 0 /\ resolved.suspect <= resolved.dead /\ resolved.quorum > 0

\* A restart never fails on the socket that an earlier process left behind.
Rebinds == phase # "in_use"

ConfigSpec == ConfigInit /\ [][ConfigNext]_cvars

\* A process that serves runs what its file and environment ask for, with
\* mesh windows that make sense, and comes up again after any end.
BootsAsConfigured == LoadedAsConfigured /\ MeshSound /\ Rebinds
=============================================================================
