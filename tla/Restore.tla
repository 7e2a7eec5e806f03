-------------------------------- MODULE Restore -------------------------------
(***************************************************************************)
(* Settings (op/setting.go), API keys (op/apikey.go), and the import of a  *)
(* backup (op/backup.go), which writes all tables and then has every cache *)
(* read again (op/cache.go).                                               *)
(***************************************************************************)
EXTENDS Groups

CONSTANTS
    SettingKeys, Values,    \* keys of settings the panel sets, and their values
    Secrets,                \* secrets of API keys
    Defaults                \* settings that a refresh adds when the table lacks them

-----------------------------------------------------------------------------
(* Settings. *)

\* A value that the cache has already is not written.
SettingSetString(c) ==
    \E k \in SettingKeys, v \in Values :
        /\ k \in DOMAIN settingCache
        /\ settingCache[k] # v
        /\ Begin(c, "setSetting", [key |-> k, value |-> v], {"settings"})

UpdateSetting(c) ==
    /\ pc[c] = "setSetting"
    /\ arg[c].key \in DOMAIN settings
    /\ settings' = [settings EXCEPT ![arg[c].key] = arg[c].value]
    /\ Goto(c, "publishSetting", arg[c].value)
    /\ UNCHANGED <<channels, models, groups, keys, nextId, caches, backup, suspect>>

\* A reader that misses the cache fills it from the table.
SettingGetString(c) ==
    \E k \in SettingKeys :
        /\ k \notin DOMAIN settingCache
        /\ k \in DOMAIN settings
        /\ Begin(c, "loadSetting", [key |-> k], {"settings"})

LoadSetting(c) ==
    /\ pc[c] = "loadSetting"
    /\ Goto(c, "publishSetting", settings[arg[c].key])
    /\ UNCHANGED <<tables, caches, backup, suspect>>

PublishSetting(c) ==
    /\ pc[c] = "publishSetting"
    /\ settingCache' = Put(settingCache, arg[c].key, read[c])
    /\ End(c)
    /\ UNCHANGED <<tables, routeCaches, keySnap, keyLock, backup, suspect>>

-----------------------------------------------------------------------------
(* API keys.  A call holds the lock from its check to the publication. *)

Taken(secret, except) == \E id \in DOMAIN keySnap \ {except} : keySnap[id] = secret

LockFor(c, request) ==
    /\ keyLock = Nobody
    /\ MayBegin(c)
    /\ keyLock' = c
    /\ pc' = [pc EXCEPT ![c] = "writeKeys"]
    /\ arg' = [arg EXCEPT ![c] = request]
    /\ Touch(c, {"keys"})
    /\ UNCHANGED <<tables, routeCaches, settingCache, keySnap, read, backup>>

APIKeyCreate(c) ==
    \E s \in Secrets : ~Taken(s, 0) /\ LockFor(c, [on |-> 0, secret |-> s])

APIKeyUpdate(c) ==
    \E id \in DOMAIN keySnap, s \in Secrets : ~Taken(s, id) /\ LockFor(c, [on |-> id, secret |-> s])

APIKeyDelete(c) ==
    \E id \in DOMAIN keySnap : LockFor(c, [on |-> id, secret |-> "deleted"])

\* Save writes the row, or inserts it when it is gone; the table refuses a secret it has,
\* and a deletion that finds no row fails.
WriteKeys(c) ==
    LET id == IF arg[c].on \in DOMAIN keySnap THEN arg[c].on ELSE nextId
    IN  /\ pc[c] = "writeKeys"
        /\ IF arg[c].secret = "deleted"
             THEN id \in DOMAIN keys /\ keys' = Without(keys, {id})
             ELSE /\ \A other \in DOMAIN keys \ {id} : keys[other] # arg[c].secret
                  /\ keys' = Put(keys, id, arg[c].secret)
        /\ nextId' = IF id = nextId THEN nextId + 1 ELSE nextId
        /\ Goto(c, "publishKeys",
                IF arg[c].secret = "deleted" THEN Without(keySnap, {id})
                ELSE Put(keySnap, id, arg[c].secret))
        /\ UNCHANGED <<channels, models, groups, settings, caches, backup, suspect>>

KeyWriteFails(c) ==
    /\ pc[c] = "writeKeys"
    /\ keyLock' = Nobody
    /\ End(c)
    /\ UNCHANGED <<tables, routeCaches, settingCache, keySnap, backup, suspect>>

\* Mutated: the table is read before the lock is taken (what STA-05 mended).
ReadKeysUnlocked(c) ==
    /\ pc[c] = "readKeys"
    /\ keyLock' = keyLock
    /\ Goto(c, "publishKeys", keys)
    /\ Reread(c, {"keys"})
    /\ UNCHANGED <<tables, routeCaches, settingCache, keySnap, backup>>

\* apiKeyRefreshCache: the table is read under the lock.
ReadKeys(c) ==
    /\ pc[c] = "readKeys"
    /\ keyLock = Nobody
    /\ keyLock' = c
    /\ Goto(c, "publishKeys", keys)
    /\ Reread(c, {"keys"})
    /\ UNCHANGED <<tables, routeCaches, settingCache, keySnap, backup>>

PublishKeys(c) ==
    /\ pc[c] = "publishKeys"
    /\ keySnap' = read[c]
    /\ keyLock' = Nobody
    /\ End(c)
    /\ UNCHANGED <<tables, routeCaches, settingCache, backup, suspect>>

-----------------------------------------------------------------------------
(* Export and import. *)

ItemRows ==
    [i \in UNION {DOMAIN groups[g].items : g \in DOMAIN groups} |->
        LET g == CHOOSE x \in DOMAIN groups : i \in DOMAIN groups[x].items
        IN  [group |-> g, item |-> groups[g].items[i]]]

\* One transaction reads all tables; the secret of the sessions is not exported.
DBExportAll(c) ==
    /\ MayBegin(c)
    /\ End(c)
    /\ backup' = [channels |-> channels, models |-> models, items |-> ItemRows, keys |-> keys,
                  groups |-> [g \in DOMAIN groups |-> groups[g].name],
                  settings |-> Without(settings, {"jwt"})]
    /\ UNCHANGED <<tables, caches, suspect>>

\* Groups as the backup would leave them: those that are there, and those it adds.
EffectiveNames(d) ==
    {groups[g].name : g \in DOMAIN groups}
        \cup {d.groups[g] : g \in DOMAIN d.groups \ DOMAIN groups}

\* References from name, as detectGroupCycles collects them: those of the group that has the
\* name, and those of each group the backup knows under it: of all its members when the
\* group is new, of its new members otherwise.
RefsFrom(d, name) ==
    UNION {RefNames(groups[g].items) : g \in IdOf(groups, name)}
        \cup {d.items[i].item.ref : i \in {j \in DOMAIN d.items :
                 /\ d.items[j].group \in DOMAIN d.groups
                 /\ j \in DOMAIN ItemRows => d.items[j].group \notin DOMAIN groups
                 /\ d.groups[d.items[j].group] = name
                 /\ IsGroupRef(d.items[j].item)}}

\* A set of names that each lead to another one of the set contains a cycle.
DetectsCycle(d) ==
    \E names \in SUBSET ({groups[g].name : g \in DOMAIN groups} \cup Range(d.groups)) :
        names # {} /\ \A n \in names : RefsFrom(d, n) \cap names # {}

CanImport(d) ==
    /\ \A m \in DOMAIN d.models : d.models[m].channel \in DOMAIN channels \cup DOMAIN d.channels
    /\ \A i \in DOMAIN d.items :
          LET item == d.items[i].item
          IN  /\ item.model # 0 \/ item.ref # ""
              /\ item.model # 0 => item.model \in DOMAIN models \cup DOMAIN d.models
              /\ item.ref # "" => item.ref \in EffectiveNames(d)
    /\ ~DetectsCycle(d)
    /\ IsInjective(d.keys)

\* Rows whose id and whose unique columns are free are inserted, the others passed over.
NewChannelRows(d) == {x \in DOMAIN d.channels \ DOMAIN channels : IdOf(channels, d.channels[x].name) = {}}
NewGroupRows(d) == {x \in DOMAIN d.groups \ DOMAIN groups : IdOf(groups, d.groups[x]) = {}}
NewModelRows(d) ==
    {x \in DOMAIN d.models \ DOMAIN models :
        ~\E m \in DOMAIN models : /\ models[m].channel = d.models[x].channel
                                  /\ models[m].name = d.models[x].name}
NewItemRows(d) == DOMAIN d.items \ DOMAIN ItemRows
NewKeyRows(d) == {x \in DOMAIN d.keys \ DOMAIN keys : d.keys[x] \notin Range(keys)}

DBImportIncremental(c) == Begin(c, "import", backup, Caches)

\* A row inserted without the row it refers to breaks a foreign key and undoes the import.
Import(c) ==
    LET d == arg[c]
        addedGroups == [g \in NewGroupRows(d) |-> [name |-> d.groups[g], active |-> 0, items |-> Nothing]]
        all == Over(addedGroups, groups)
        ItemsOf(g) == [i \in {x \in NewItemRows(d) : d.items[x].group = g} |-> d.items[i].item]
    IN  /\ pc[c] = "import"
        /\ CanImport(d)
        /\ channels' = Over(Restrict(d.channels, NewChannelRows(d)), channels)
        /\ models' = Over(Restrict(d.models, NewModelRows(d)), models)
        /\ \A m \in NewModelRows(d) : d.models[m].channel \in DOMAIN channels'
        /\ \A i \in NewItemRows(d) : d.items[i].group \in DOMAIN all
        /\ groups' = [g \in DOMAIN all |-> [all[g] EXCEPT !.items = Over(ItemsOf(g), @)]]
        /\ keys' = Over(Restrict(d.keys, NewKeyRows(d)), keys)
        /\ settings' = Over(Without(d.settings, {"jwt"}), settings)
        /\ Goto(c, "readSettings", Nothing)
        /\ suspect' = suspect \cup {"references"}
        /\ UNCHANGED <<nextId, caches, backup>>

-----------------------------------------------------------------------------
(* InitCache: the caches one after the other; an error ends it. *)

\* What an error leaves unread.
Unread ==
    [here \in {"readSettings", "readChannels", "readAllGroups", "readKeys"} |->
        CASE here = "readSettings" -> Caches
          [] here = "readChannels" -> Caches \ {"settings"}
          [] here = "readAllGroups" -> {"groups", "names", "keys"}
          [] here = "readKeys" -> {"keys"}]

InitCacheFails(c) ==
    /\ pc[c] \in DOMAIN Unread
    /\ Tangle(Unread[pc[c]])
    /\ End(c)
    /\ UNCHANGED <<tables, caches, backup>>

ReadSettings(c) ==
    /\ pc[c] = "readSettings"
    /\ settings' = Over(settings, Defaults)
    /\ Goto(c, "storeSettings", settings')
    /\ Reread(c, {"settings"})
    /\ UNCHANGED <<channels, models, groups, keys, nextId, caches, backup>>

\* Settings are set one by one, over what the cache has.
StoreSettings(c) ==
    /\ pc[c] = "storeSettings"
    /\ settingCache' = Over(read[c], settingCache)
    /\ Goto(c, "readChannels", Nothing)
    /\ UNCHANGED <<tables, routeCaches, keySnap, keyLock, backup, suspect>>

ReadChannels(c) ==
    /\ pc[c] = "readChannels"
    /\ Goto(c, "storeChannels", [channels |-> channels, models |-> models])
    /\ Reread(c, {"channels", "models"})
    /\ UNCHANGED <<tables, caches, backup>>

StoreChannels(c) ==
    /\ pc[c] = "storeChannels"
    /\ channelCache' = read[c].channels
    /\ modelCache' = read[c].models
    /\ Goto(c, "readAllGroups", Nothing)
    /\ UNCHANGED <<tables, groupCache, nameIndex, settingCache, keySnap, keyLock, backup, suspect>>

ReadAllGroups(c) == ReadGroups(c, "readAllGroups", "storeAllGroups")
StoreAllGroups(c) == StoreGroups(c, "storeAllGroups") /\ Goto(c, "readKeys", Nothing)
=============================================================================
