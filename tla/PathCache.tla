----------------------------- MODULE PathCache -----------------------------
(***************************************************************************)
(* The last-known-good path of a configuration: a file that every proxy    *)
(* started with that configuration reads once and replaces after each      *)
(* activation, without a lock between processes.  A process or the machine *)
(* may stop between any two steps.                                         *)
(***************************************************************************)
CONSTANTS
  Proxies,  \* processes; a proxy that is started again is another one
  Names,    \* the names of paths in the configuration, enabled or not
  NoName

ASSUME NoNameAssumption == NoName \notin Names
ASSUME FilesAssumption ==
  Names \cap {"foreign", "torn", "absent"} = {} /\ "cache" \notin Proxies

\* What a file holds: the record of a path, something else (another version,
\* unknown fields), or part of a record.
Contents == Names \cup {"foreign", "torn", "absent"}
Cache == "cache"

VARIABLES
  cache,     \* the cache file
  temp,      \* temp[p]: p's temporary file
  durable,   \* the files that would survive a loss of power
  saver,     \* newClientRuntime's load, and the save of each activation
  enabled,   \* enabled[p]: the paths enabled when p read the configuration
  activated  \* history: names of the paths that were ever activated

cacheVars == <<cache, temp, durable, saver, enabled, activated>>

\* name: the path being saved; hint: rt.lastKnownGood.
ProxyType == [pc : {"new", "loaded", "save", "temp", "write", "sync", "rename", "remove", "dead"},
              name : Names \cup {NoName},
              hint : Names \cup {NoName}]

\* Earlier runs and other programs may have left a cache.
CacheInit ==
  /\ cache \in Contents \ {"torn"}
  /\ temp = [p \in Proxies |-> "absent"]
  /\ durable = {Cache}
  /\ enabled \in [Proxies -> SUBSET Names \ {{}}]
  /\ saver = [p \in Proxies |-> [pc |-> "new", name |-> NoName, hint |-> NoName]]
  /\ activated = {cache} \cap Names

At(p, pc) == saver' = [saver EXCEPT ![p].pc = pc]

\* Mutant of EnabledPathByName: a path that is in the file is taken as it is.
AnyPathByName(p, record) == IF record \in Names THEN record ELSE NoName
\* enabledPathByName
EnabledPathByName(p, record) == IF record \in enabled[p] THEN record ELSE NoName

\* LoadLastKnownGoodPath; an error is logged and is no hint.
LoadHint(p) ==
  /\ saver[p].pc = "new"
  /\ \E hint \in {EnabledPathByName(p, cache), NoName} :
       saver' = [saver EXCEPT ![p].pc = "loaded", ![p].hint = hint]
  /\ UNCHANGED <<cache, temp, durable, enabled, activated>>

\* commitActivation has activated a path, and saves it.
Activate(p) ==
  /\ saver[p].pc = "loaded"
  /\ \E n \in enabled[p] :
       /\ saver' = [saver EXCEPT ![p].pc = "save", ![p].name = n, ![p].hint = n]
       /\ activated' = activated \cup {n}
  /\ UNCHANGED <<cache, temp, durable, enabled>>

\* Save reads the file first and leaves one alone that says the same; a file
\* that cannot be read is replaced.
SaveReads(p) ==
  /\ saver[p].pc = "save"
  /\ IF cache = saver[p].name THEN At(p, "loaded") \/ At(p, "temp") ELSE At(p, "temp")
  /\ UNCHANGED <<cache, temp, durable, enabled, activated>>

CreateTemp(p) ==
  /\ saver[p].pc = "temp"
  /\ \/ At(p, "loaded") /\ UNCHANGED <<temp, durable>>
     \/ /\ At(p, "write")
        /\ temp' = [temp EXCEPT ![p] = "torn"]
        /\ durable' = durable \ {p}
  /\ UNCHANGED <<cache, enabled, activated>>

\* All of it, or some before an error (Chmod's, too).
WriteTemp(p) ==
  /\ saver[p].pc = "write"
  /\ \/ At(p, "sync") /\ temp' = [temp EXCEPT ![p] = saver[p].name]
     \/ At(p, "remove") /\ UNCHANGED temp
  /\ UNCHANGED <<cache, durable, enabled, activated>>

\* Mutant of SyncTemp: nothing is synced.
SyncTempSkipped(p) ==
  /\ saver[p].pc = "sync"
  /\ At(p, "rename")
  /\ UNCHANGED <<cache, temp, durable, enabled, activated>>
SyncTemp(p) ==
  /\ saver[p].pc = "sync"
  /\ \/ At(p, "rename") /\ durable' = durable \cup {p}
     \/ At(p, "remove") /\ UNCHANGED durable
  /\ UNCHANGED <<cache, temp, enabled, activated>>

\* Close and rename: the file is replaced at once, or not at all.
Replace(p) ==
  /\ saver[p].pc = "rename"
  /\ At(p, "remove")
  /\ \/ /\ cache' = temp[p] /\ temp' = [temp EXCEPT ![p] = "absent"]
        /\ durable' = IF p \in durable THEN durable \cup {Cache} ELSE durable \ {Cache}
     \/ UNCHANGED <<cache, temp, durable>>
  /\ UNCHANGED <<enabled, activated>>

\* The deferred os.Remove.
RemoveTemp(p) ==
  /\ saver[p].pc = "remove"
  /\ At(p, "loaded")
  /\ temp' = [temp EXCEPT ![p] = "absent"]
  /\ UNCHANGED <<cache, durable, enabled, activated>>

Dead(p) == [saver[p] EXCEPT !.pc = "dead"]

\* A proxy ends or is killed.
Die(p) ==
  /\ saver[p].pc # "dead"
  /\ saver' = [saver EXCEPT ![p] = Dead(p)]
  /\ UNCHANGED <<cache, temp, durable, enabled, activated>>

\* What may be left of a file that holds c.
Left(file, c) == IF file \in durable \/ c = "absent" THEN {c} ELSE {c, "torn"}

\* The machine stops.
PowerLoss ==
  /\ \E p \in Proxies : saver[p].pc # "dead"
  /\ saver' = [p \in Proxies |-> Dead(p)]
  /\ cache' \in Left(Cache, cache)
  /\ temp' \in [Proxies -> Contents] /\ \A p \in Proxies : temp'[p] \in Left(p, temp[p])
  /\ UNCHANGED <<durable, enabled, activated>>

SaveStep(p) ==
  \/ LoadHint(p) \/ Activate(p) \/ SaveReads(p) \/ CreateTemp(p)
  \/ WriteTemp(p) \/ SyncTemp(p) \/ Replace(p) \/ RemoveTemp(p)

CacheNext ==
  \/ \E p \in Proxies : SaveStep(p) \/ Die(p)
  \/ PowerLoss
  \/ (\A p \in Proxies : saver[p].pc = "dead") /\ UNCHANGED cacheVars

CacheSpec == CacheInit /\ [][CacheNext]_cacheVars

-----------------------------------------------------------------------------
CacheTypeOK ==
  /\ cache \in Contents
  /\ temp \in [Proxies -> Contents]
  /\ durable \subseteq Proxies \cup {Cache}
  /\ enabled \in [Proxies -> SUBSET Names]
  /\ saver \in [Proxies -> ProxyType]
  /\ activated \subseteq Names

\* Whatever writers meet at the file and wherever they, or the machine, stop:
\* a reader finds what was there before or a whole record of a path that some
\* proxy has activated, never a part.
CacheIsWhole == cache \in {"absent", "foreign"} \cup activated

\* A hint names a path that this proxy has enabled and some proxy has
\* activated, whatever the file holds and however old it is.
HintIsUsable ==
  \A p \in Proxies : saver[p].hint # NoName => saver[p].hint \in enabled[p] \cap activated
=============================================================================
