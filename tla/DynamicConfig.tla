--------------------------- MODULE DynamicConfig ---------------------------
(***************************************************************************)
(* Configuration that changes at run time: the registry with its schemas   *)
(* (pkg/config/dynamic), the TOML persister, the reload from the file, and *)
(* the admin API that drives them.  Updates run concurrently: the registry *)
(* lock is released before the file is written and the observers are told. *)
(***************************************************************************)
EXTENDS Integers, FiniteSets

CONSTANTS
    Admins,       \* concurrent requests to the admin API
    Raws,         \* values as they arrive: type, number, whether it has a fraction
    MaxUpdates,   \* bound: requests and hand edits
    MaxDiskFaults \* bound: failing writes of the file

VARIABLES
    registry_,    \* Registry.config: the value of each key in memory
    persister,    \* whether the node was started with a configuration file
    tomlFile,     \* the file: the raw values of the keys set in it
    persisting,   \* TOMLPersister.mu: the request holding it
    reloading,    \* ViperBridge.mu: the request holding it
    seen,         \* the value each key's observer was last told
    req,          \* the requests in progress and their answers
    loose,        \* history: keys whose file and memory may differ by intent
    overlapped,   \* history: two requests ran at once
    updates, diskFaults

cfgVars == <<registry_, persister, tomlFile, persisting, reloading, seen, req, loose, overlapped,
             updates, diskFaults>>

Nothing == <<>>
NoAdmin == "none"

----------------------------------------------------------------------------
(* Schemas *)

ValueKeys == {"batch_size", "min_aggregate_size", "delay"}
Invalid == -1

\* coerceUint accepts every number without a fraction or a sign.
coerceUint(raw) ==
    IF \/ raw.type \in {"uint", "string"} /\ raw.n >= 0 /\ ~raw.frac
       \/ raw.type \in {"int", "float"} /\ raw.n >= 0 /\ ~raw.frac
    THEN raw.n ELSE Invalid

\* UintSchema.ParseAndValidate; a zero Max admits zero alone.
ParseUint(min, max, raw) ==
    LET u == coerceUint(raw) IN IF u # Invalid /\ u \in min..max THEN u ELSE Invalid

\* PowerOfTwoSchema.ParseAndValidate: exactly one bit set; a zero Max is no bound.
ParsePowerOfTwo(min, max, raw) ==
    LET u == coerceUint(raw)
    IN  IF u # Invalid /\ (\E b \in 0..8 : u = 2^b) /\ u >= min /\ (max > 0 => u <= max)
        THEN u ELSE Invalid

\* DurationSchema.ParseAndValidate: durations come as strings or typed, never
\* as numbers, and are never negative.
ParseDuration(min, max, raw) ==
    IF raw.type \in {"string", "duration"} /\ raw.n >= 0 /\ (min > 0 => raw.n >= min)
         /\ (max > 0 => raw.n <= max)
    THEN raw.n ELSE Invalid

\* IntSchema is used by no key; the registered keys and their schemas.
ParseAndValidate(k, raw) ==
    CASE k = "batch_size"         -> ParseUint(1, 2, raw)
      [] k = "min_aggregate_size" -> ParsePowerOfTwo(1, 4, raw)
      [] k = "delay"              -> ParseDuration(0, 2, raw)

\* A typed value as the persister writes it: durations as strings.
setNestedValue(k, v) == [type |-> IF k = "delay" THEN "string" ELSE "int", n |-> v, frac |-> FALSE]

----------------------------------------------------------------------------
Idle_Req == [at |-> "idle", new |-> <<>>, old |-> <<>>, persist |-> FALSE, todo |-> {},
             by |-> "api", code |-> 0]
DefaultValue == 1

\* NewRegistry and the providers' RegisterEntries: each key once, with the value
\* of the configuration the node started with.
RegisterEntries == registry_ = [k \in ValueKeys |-> DefaultValue]

CfgInit ==
    /\ RegisterEntries
    /\ persister \in BOOLEAN
    /\ tomlFile = IF persister THEN [k \in ValueKeys |-> setNestedValue(k, DefaultValue)] ELSE Nothing
    /\ persisting = NoAdmin /\ reloading = NoAdmin
    /\ seen = [k \in ValueKeys |-> DefaultValue]
    /\ req = [a \in Admins |-> Idle_Req]
    /\ loose = IF persister THEN {} ELSE ValueKeys
    /\ overlapped = FALSE /\ updates = 0 /\ diskFaults = 0

Busy(a) == req[a].at # "idle"
Overlap(a) == overlapped' = (overlapped \/ \E b \in Admins \ {a} : Busy(b))
Request == updates < MaxUpdates /\ updates' = updates + 1
Reply(a, code) == [Idle_Req EXCEPT !.code = code]

\* mapError: the caller's errors are 400s, the rest are 500s.
mapError(e) == IF e \in {"validation", "unknownKey"} THEN 400 ELSE 500

\* Update, phases 1 to 3, under the registry's lock: all the values are parsed
\* before any is applied, and the old ones are kept.
ApplyUpdate(a, raws, persist, by) ==
    LET ks == DOMAIN raws
        parsed == [k \in ks |-> ParseAndValidate(k, raws[k])]
    IN  IF ~(ks \subseteq ValueKeys)
        THEN /\ req' = [req EXCEPT ![a] = Reply(a, IF by = "api" THEN mapError("unknownKey") ELSE 500)]
             /\ UNCHANGED registry_
        ELSE IF \E k \in ks : parsed[k] = Invalid
        THEN /\ req' = [req EXCEPT ![a] = Reply(a, IF by = "api" THEN mapError("validation") ELSE 500)]
             /\ UNCHANGED registry_
        ELSE /\ registry_' = [k \in ValueKeys |-> IF k \in ks THEN parsed[k] ELSE registry_[k]]
             /\ req' = [req EXCEPT ![a] =
                   [at |-> IF persist /\ persister THEN "persist" ELSE "notify",
                    new |-> parsed, old |-> [k \in ks |-> registry_[k]],
                    persist |-> persist, todo |-> ks, by |-> by, code |-> 0]]

\* PATCH /admin/config.  An empty or malformed body is refused.
UpdateConfig(a) ==
    /\ ~Busy(a) /\ Request /\ Overlap(a)
    /\ \/ req' = [req EXCEPT ![a] = Reply(a, 400)] /\ UNCHANGED <<registry_, loose>>
       \/ \E persist \in BOOLEAN, ks \in SUBSET (ValueKeys \cup {"unknown"}) :
             /\ Cardinality(ks) \in 1..2
             /\ \E raws \in [ks -> Raws] : ApplyUpdate(a, raws, persist, "api")
             /\ loose' = IF registry_' # registry_ /\ ~(persist /\ persister)
                         THEN loose \cup ks ELSE loose
    /\ UNCHANGED <<tomlFile, persisting, reloading, seen, diskFaults>>

\* Persist reads the file, and truncates it to write it back.
PersistRead(a) ==
    /\ req[a].at = "persist" /\ persisting = NoAdmin
    /\ \/ /\ persisting' = a /\ req' = [req EXCEPT ![a].at = "write"]
          /\ UNCHANGED diskFaults
       \/ /\ diskFaults < MaxDiskFaults /\ diskFaults' = diskFaults + 1
          /\ req' = [req EXCEPT ![a].at = "rollback"] /\ UNCHANGED persisting
    /\ Overlap(a)
    /\ UNCHANGED <<registry_, tomlFile, reloading, seen, loose, updates>>

PersistWrite(a) ==
    /\ req[a].at = "write"
    /\ tomlFile' = [k \in DOMAIN tomlFile \cup DOMAIN req[a].new |->
                       IF k \in DOMAIN req[a].new THEN setNestedValue(k, req[a].new[k])
                                                 ELSE tomlFile[k]]
    /\ loose' = loose \ DOMAIN req[a].new
    /\ persisting' = NoAdmin /\ req' = [req EXCEPT ![a].at = "notify"]
    /\ Overlap(a)
    /\ UNCHANGED <<registry_, reloading, seen, updates, diskFaults>>

\* The write fails after the truncation: nothing is left of the file.
PersistWriteFails(a) ==
    /\ req[a].at = "write"
    /\ diskFaults < MaxDiskFaults /\ diskFaults' = diskFaults + 1
    /\ tomlFile' = Nothing /\ loose' = ValueKeys
    /\ persisting' = NoAdmin /\ req' = [req EXCEPT ![a].at = "rollback"]
    /\ Overlap(a)
    /\ UNCHANGED <<registry_, reloading, seen, updates>>

\* Mutant: the update that was not persisted stays in memory.
RollbackNothing(a) ==
    /\ req[a].at = "rollback"
    /\ req' = [req EXCEPT ![a] = Reply(a, mapError("persist"))]
    /\ Overlap(a)
    /\ UNCHANGED <<registry_, tomlFile, persisting, reloading, seen, loose, updates, diskFaults>>

\* The values kept in phase 2 are put back, whatever happened since.
Rollback(a) ==
    /\ req[a].at = "rollback"
    /\ registry_' = [k \in ValueKeys |-> IF k \in DOMAIN req[a].old THEN req[a].old[k]
                                         ELSE registry_[k]]
    /\ req' = [req EXCEPT ![a] = Reply(a, mapError("persist"))]
    /\ Overlap(a)
    /\ UNCHANGED <<tomlFile, persisting, reloading, seen, loose, updates, diskFaults>>

\* Phase 5, one key at a time in no order.
OnConfigChange(a) ==
    /\ req[a].at = "notify"
    /\ \E k \in req[a].todo :
          /\ seen' = [seen EXCEPT ![k] = req[a].new[k]]
          /\ req' = [req EXCEPT ![a] = IF req[a].todo = {k} THEN Reply(a, 200)
                                       ELSE [req[a] EXCEPT !.todo = @ \ {k}]]
          /\ reloading' = IF req[a].by = "file" /\ req[a].todo = {k} THEN NoAdmin ELSE reloading
    /\ Overlap(a)
    /\ UNCHANGED <<registry_, tomlFile, persisting, loose, updates, diskFaults>>

\* POST /admin/config/reload: read the file, then update without persisting.
ReloadConfig(a) ==
    /\ ~Busy(a) /\ reloading = NoAdmin /\ Request /\ Overlap(a)
    /\ IF tomlFile = Nothing
       THEN req' = [req EXCEPT ![a] = Reply(a, IF persister THEN 200 ELSE 503)] /\ UNCHANGED reloading
       ELSE /\ reloading' = a
            /\ req' = [req EXCEPT ![a] = [Idle_Req EXCEPT !.at = "reload", !.new = tomlFile,
                                                          !.by = "file"]]
    /\ UNCHANGED <<registry_, tomlFile, persisting, seen, loose, diskFaults>>

Reload(a) ==
    /\ req[a].at = "reload"
    /\ ApplyUpdate(a, req[a].new, FALSE, "file")
    /\ IF req'[a].at = "notify" THEN loose' = loose \ DOMAIN req[a].new /\ UNCHANGED reloading
                                ELSE reloading' = NoAdmin /\ UNCHANGED loose
    /\ Overlap(a)
    /\ UNCHANGED <<tomlFile, persisting, seen, updates, diskFaults>>

\* The operator edits the file.
HandEdit ==
    /\ Request
    /\ \E k \in DOMAIN tomlFile, raw \in Raws :
          tomlFile' = [tomlFile EXCEPT ![k] = raw] /\ loose' = loose \cup {k}
    /\ overlapped' = (overlapped \/ \E a \in Admins : Busy(a))
    /\ UNCHANGED <<registry_, persisting, reloading, seen, req, diskFaults>>

CfgStep ==
    \/ \E a \in Admins :
          \/ UpdateConfig(a) \/ PersistRead(a) \/ PersistWrite(a) \/ PersistWriteFails(a)
          \/ Rollback(a) \/ OnConfigChange(a) \/ ReloadConfig(a) \/ Reload(a)
    \/ HandEdit

CfgNext == CfgStep /\ UNCHANGED persister

CfgSpec == CfgInit /\ [][CfgNext]_cfgVars

----------------------------------------------------------------------------
(* Properties *)

\* When no request is in progress and none has overlapped another, memory, the
\* file and the observers agree on every key that was not set aside on purpose,
\* also after an update that failed to persist was rolled back.  (Update's
\* phases, Persist, Reload.)
ConfigAgrees ==
    ~overlapped /\ (\A a \in Admins : ~Busy(a)) =>
        \A k \in ValueKeys :
            /\ seen[k] = registry_[k]
            /\ k \notin loose => k \in DOMAIN tomlFile /\ ParseAndValidate(k, tomlFile[k]) = registry_[k]

\* Whatever is sent, edited, reloaded or rolled back, and in whatever order, a
\* value in memory is one its schema admits.  (ParseAndValidate before any
\* value is applied, rollback to values that were.)
ConfigValid == \A k \in ValueKeys : ParseAndValidate(k, setNestedValue(k, registry_[k])) = registry_[k]

\* Both, under concurrent requests, hand edits and failing writes.
ConfigIsKept == ConfigAgrees /\ ConfigValid
=============================================================================
