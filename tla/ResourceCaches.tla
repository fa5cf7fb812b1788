--------------------------- MODULE ResourceCaches ---------------------------
(***************************************************************************)
(* Resource configs, resource caches, the uses that keep a cache, and the  *)
(* check sessions that keep a config: db/resource_config*.go,              *)
(* db/resource_cache*.go, and the collectors of gc/ that prune them.       *)
(*                                                                         *)
(* A config is made by a base resource type of the workers or by the cache *)
(* that holds the image of a custom type, so rows form chains              *)
(*      config <- cache <- config <- cache                                 *)
(* held together by foreign keys: a row cannot be deleted while another    *)
(* refers to it.  A find-or-create is one transaction with FOR SHARE locks *)
(* on what it found, retried when it collides: one action.  A collector's  *)
(* DELETE decides on the rows its subqueries saw and is only then          *)
(* executed: two actions.                                                  *)
(***************************************************************************)
EXTENDS Naturals, FiniteSets

CONSTANTS
    Config,     \* resource type and source
    Cache,      \* a version of a config, with params
    ConfigOf,   \* [Cache -> Config]
    MadeBy,     \* [Config -> Cache \cup {BaseType}]: the type's own cache
    BaseType,   \* a type that a worker provides
    Build,      \* the builds that use caches
    MaxEvents   \* bound on check sessions opened, next inputs saved, and faults

\* Every cache is of a config, and every config of a type.
ASSUME ResourceCachesAssumption ==
    /\ ConfigOf \in [Cache -> Config]
    /\ MadeBy \in [Config -> Cache \cup {BaseType}]
    /\ BaseType \notin Cache

VARIABLES
    config,     \* rows of resource_configs
    cache,      \* rows of resource_caches
    uses,       \* rows of resource_cache_uses, <<build, cache>>
    nexts,      \* caches of the next inputs of jobs of unpaused pipelines
    session,    \* rows of resource_config_check_sessions, <<config, "fresh" | "expired">>
    events,     \* how many of those so far
    doomedCache, doomedConfig   \* what a running DELETE has decided to delete

cacheRows == <<config, cache, uses, nexts, session, doomedCache, doomedConfig>>
cacheVars == <<cacheRows, events>>

CachesTypeOK ==
    /\ config \subseteq Config
    /\ cache \subseteq Cache
    /\ uses \subseteq Build \X Cache
    /\ nexts \subseteq Cache
    /\ session \subseteq Config \X {"fresh", "expired"}
    /\ events \in 0 .. MaxEvents
    /\ doomedCache \subseteq Cache
    /\ doomedConfig \subseteq Config

CachesInit ==
    /\ config = {}
    /\ cache = {}
    /\ uses = {}
    /\ nexts = {}
    /\ session = {}
    /\ events = 0
    /\ doomedCache = {}
    /\ doomedConfig = {}

Event ==
    /\ events < MaxEvents
    /\ events' = events + 1

-----------------------------------------------------------------------------
\* The caches and configs a config rests on: its type's cache, that cache's
\* config, and so on down to a base type.  The caches are the fewest that have
\* the cache of its type, and of the type of each of them.

RestsOn(k, S) ==
    /\ MadeBy[k] \in S \cup {BaseType}
    /\ \A c \in S : MadeBy[ConfigOf[c]] \in S \cup {BaseType}

TypeCaches(k) == {c \in Cache : \A S \in SUBSET Cache : RestsOn(k, S) => c \in S}

ConfigChain(k) == {k} \cup {ConfigOf[c] : c \in TypeCaches(k)}

\* ResourceConfig.findOrCreate: the chain of parents first, then the config.
FindOrCreateConfig(k) ==
    /\ config' = config \cup ConfigChain(k)
    /\ cache' = cache \cup TypeCaches(k)

\* resourceCacheFactory.FindOrCreateResourceCache for a build: the config and
\* its chain, the cache, and the build's use of it, in one transaction.
FindOrCreateResourceCache(b, c) ==
    /\ config' = config \cup ConfigChain(ConfigOf[c])
    /\ cache' = cache \cup TypeCaches(ConfigOf[c]) \cup {c}
    /\ uses' = uses \cup {<<b, c>>}
    /\ UNCHANGED <<nexts, session, events, doomedCache, doomedConfig>>

\* FindOrCreateResourceConfigCheckSession: the session is found unless it is
\* expired or about to, in which case another row is inserted.
FindOrCreateCheckSession(k) ==
    /\ Event
    /\ FindOrCreateConfig(k)
    /\ session' = session \cup {<<k, "fresh">>}
    /\ UNCHANGED <<uses, nexts, doomedCache, doomedConfig>>

SessionExpires(k) ==
    /\ <<k, "fresh">> \in session
    /\ session' = (session \ {<<k, "fresh">>}) \cup {<<k, "expired">>}
    /\ UNCHANGED <<config, cache, uses, nexts, events, doomedCache, doomedConfig>>

\* The scheduler saves or drops the next inputs of a job: the rows of
\* next_build_inputs that name the version of this cache.
NextInputs(c) ==
    /\ IF c \in nexts
       THEN /\ nexts' = nexts \ {c}
            /\ UNCHANGED events
       ELSE /\ Event
            /\ nexts' = nexts \cup {c}
    /\ UNCHANGED <<config, cache, uses, session, doomedCache, doomedConfig>>

-----------------------------------------------------------------------------
\* The collectors.

\* Mutant: the uses of every build.
CleanAllUses(finished) ==
    /\ uses # {}
    /\ uses' = {}
    /\ UNCHANGED <<config, cache, nexts, session, events, doomedCache, doomedConfig>>

\* resourceCacheUseCollector: the uses of builds that are not interceptible.
CleanUsesForFinishedBuilds(finished) ==
    /\ \E u \in uses : u[1] \in finished
    /\ uses' = {u \in uses : u[1] \notin finished}
    /\ UNCHANGED <<config, cache, nexts, session, events, doomedCache, doomedConfig>>

\* resourceConfigCheckSessionCollector: expired sessions, and the sessions of
\* configs no active, unpaused resource or resource type refers to.
CleanCheckSessions(inactive) ==
    LET kept == {s \in session : s[2] = "fresh" /\ s[1] \notin inactive}
    IN  /\ session # kept
        /\ session' = kept
        /\ UNCHANGED <<config, cache, uses, nexts, events, doomedCache, doomedConfig>>

UsedCaches == {u[2] : u \in uses}

TypeOfConfigs == {MadeBy[k] : k \in config} \ {BaseType}

InvalidCaches == cache \ (UsedCaches \cup TypeOfConfigs \cup nexts)

UnreferencedConfigs ==
    config \ ({s[1] : s \in session} \cup {ConfigOf[c] : c \in cache})

\* CleanUpInvalidCaches, the subqueries ...
SelectInvalidCaches ==
    /\ doomedCache = {}
    /\ doomedCache' = InvalidCaches
    /\ doomedCache' # {}
    /\ UNCHANGED <<config, cache, uses, nexts, session, events, doomedConfig>>

\* Mutant: nothing refers to the rows any more.
DeleteDoomedCaches ==
    /\ doomedCache # {}
    /\ cache' = cache \ doomedCache
    /\ doomedCache' = {}
    /\ UNCHANGED <<config, uses, nexts, session, events, doomedConfig>>

\* ... and the deletion: one row still referred to fails the statement, which
\* is not an error.
DeleteInvalidCaches ==
    /\ doomedCache # {}
    /\ cache' = IF doomedCache \cap (UsedCaches \cup TypeOfConfigs) = {}
                THEN cache \ doomedCache
                ELSE cache
    /\ doomedCache' = {}
    /\ UNCHANGED <<config, uses, nexts, session, events, doomedConfig>>

\* CleanUnreferencedConfigs, likewise.
SelectUnreferencedConfigs ==
    /\ doomedConfig = {}
    /\ doomedConfig' = UnreferencedConfigs
    /\ doomedConfig' # {}
    /\ UNCHANGED <<config, cache, uses, nexts, session, events, doomedCache>>

DeleteUnreferencedConfigs ==
    /\ doomedConfig # {}
    /\ config' = IF doomedConfig \subseteq UnreferencedConfigs
                 THEN config \ doomedConfig
                 ELSE config
    /\ doomedConfig' = {}
    /\ UNCHANGED <<cache, uses, nexts, session, events, doomedCache>>
=============================================================================
