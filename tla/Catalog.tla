-------------------------------- MODULE Catalog -------------------------------
(***************************************************************************)
(* The panel's data: all calls on channels, groups, settings, API keys and *)
(* backups, interleaved over the tables and the caches of PanelData.       *)
(***************************************************************************)
EXTENDS Channels, Restore

\* All names that a model can have: at the start, in a backup, in a request, at an upstream.
RowNames(data) == {data.models[m].name : m \in DOMAIN data.models}
TextNames == UNION {Range(block.models) : block \in UNION {Range(text) : text \in NewChannels}}
EditNames == UNION {DOMAIN e.models : e \in ChannelEdits}
ModelNames == RowNames(Rows) \cup RowNames(Foreign) \cup TextNames \cup EditNames \cup UNION Offers

IsGroupRow(r) == r = [name |-> r.name, active |-> r.active, items |-> r.items]
IsModelRow(r) == /\ r = [channel |-> r.channel, name |-> r.name, source |-> r.source]
                 /\ r.name \in ModelNames
IdsBelow(table, id) == \A x \in DOMAIN table : x \in Int /\ x < id

\* What rows promise each other: members point to what is there, the active member of a group
\* is its own, and references have no cycle.
PointsTo(target, gs, ms) ==
    IF IsGroupRef(target) THEN IdOf(gs, target.ref) # {} ELSE target.model \in DOMAIN ms
MembersPoint(gs, ms) == \A g \in DOMAIN gs : \A t \in Range(gs[g].items) : PointsTo(t, gs, ms)
ActiveOwn(gs) == \A g \in DOMAIN gs : gs[g].active \in DOMAIN gs[g].items \cup {0}
RefEdges(gs, g) == {h \in DOMAIN gs : gs[h].name \in RefNames(gs[g].items)}
NoCycle(gs) ==
    \A s \in SUBSET {g \in DOMAIN gs : RefEdges(gs, g) # {}} :
        s # {} => \E g \in s : RefEdges(gs, g) \cap s = {}
References(gs, ms) == MembersPoint(gs, ms) /\ ActiveOwn(gs) /\ NoCycle(gs)

IsItem(t) == t = [model |-> t.model, ref |-> t.ref, priority |-> t.priority]
ItemsBelow(gs, id) ==
    \A g \in DOMAIN gs : IdsBelow(gs[g].items, id) /\ \A t \in Range(gs[g].items) : IsItem(t)

\* Rows have the columns of their tables and ids that were given out, which are positive; the
\* names of groups are unique, and references hold at the start.  Requests have sequences of
\* members, and with the upstreams they name finitely many models.
ASSUME CatalogAssumption ==
    /\ MaxCalls \in Nat /\ FirstId \in Nat \ {0} /\ MaxGroupRefDepth \in Nat
    /\ 0 \notin DOMAIN Rows.models /\ ItemsBelow(Rows.groups, FirstId)
    /\ References(Rows.groups, Rows.models)
    /\ IdsBelow(Rows.groups, FirstId) /\ \A g \in DOMAIN Rows.groups : IsGroupRow(Rows.groups[g])
    /\ IdsBelow(Foreign.groups, FirstId) /\ IsInjective(Foreign.groups)
    /\ \A g, h \in DOMAIN Rows.groups : Rows.groups[g].name = Rows.groups[h].name => g = h
    /\ IdsBelow(Rows.models, FirstId) /\ \A m \in DOMAIN Rows.models : IsModelRow(Rows.models[m])
    /\ IdsBelow(Foreign.models, FirstId)
    /\ \A m \in DOMAIN Foreign.models : IsModelRow(Foreign.models[m])
    /\ Rows.settings = [k \in DOMAIN Rows.settings |-> Rows.settings[k]]
    /\ \A g \in NewGroups \cup GroupEdits \cup Rankings : g.add \in Seq(Range(g.add))
    /\ \A text \in NewChannels :
          /\ text \in Seq(Range(text)) /\ text # <<>>
          /\ \A block \in Range(text) : block.models \in Seq(ModelNames)
    /\ IsFiniteSet(ModelNames)

Next ==
    \E c \in Calls :
        \/ GroupCreate(c) \/ GroupUpdate(c) \/ GroupActiveItemUpdate(c) \/ GroupDel(c)
        \/ GroupReplaceItemsByName(c)
        \/ InsertGroup(c) \/ UpdateGroup(c) \/ SetActive(c) \/ DeleteGroup(c) \/ ReplaceItems(c)
        \/ PublishGroup(c) \/ PublishActive(c) \/ ForgetGroup(c)
        \/ ChannelImportFromText(c) \/ ChannelUpdate(c) \/ ChannelEnabled(c) \/ ChannelDel(c)
        \/ ChannelCreate(c) \/ UpdateChannel(c) \/ SetEnabled(c) \/ DeleteChannel(c)
        \/ PublishNew(c) \/ PublishChannel(c) \/ PublishEnabled(c) \/ ForgetChannel(c)
        \/ GroupsRead(c) \/ GroupsRefreshed(c) \/ GroupsNotRefreshed(c)
        \/ SyncModelsTask(c) \/ FetchModels(c)
        \/ SettingSetString(c) \/ UpdateSetting(c) \/ PublishSetting(c)
        \/ SettingGetString(c) \/ LoadSetting(c)
        \/ APIKeyCreate(c) \/ APIKeyUpdate(c) \/ APIKeyDelete(c)
        \/ WriteKeys(c) \/ KeyWriteFails(c) \/ ReadKeys(c) \/ PublishKeys(c)
        \/ DBExportAll(c) \/ DBImportIncremental(c) \/ Import(c)
        \/ ReadSettings(c) \/ StoreSettings(c) \/ ReadChannels(c) \/ StoreChannels(c)
        \/ ReadAllGroups(c) \/ StoreAllGroups(c) \/ InitCacheFails(c)
        \/ StatementFails(c)

Spec == PdInit /\ [][Next]_panelVars

-----------------------------------------------------------------------------
(* Properties. *)

Follows(x) ==
    CASE x = "channels" -> channelCache = channels
      [] x = "models" -> modelCache = models
      [] x = "groups" -> groupCache = groups
      [] x = "names" -> nameIndex = NamesOf(groups)
      [] x = "settings" -> settingCache = settings
      [] x = "keys" -> keySnap = keys

\* The relay reads only the caches, and nothing reads the tables again before the next
\* restart: once no call that writes a cache is in flight, the cache is what its table is.
\* Excepted is a cache that two calls wrote at once, or whose refresh failed, until a
\* refresh that nobody else writes beside (op/cache.go:9).
CachesFollowTables ==
    \A x \in Caches \ suspect : (\A c \in Calls : x \notin busy[c]) => Follows(x)

\* Every member points to a model or a group that is there, references have no cycle, and
\* the active member is one of the group's own, through deletions, renames and
\* synchronisations (op/group.go:407, op/channel.go:623).
ReferencesHold == "references" \notin suspect => References(groups, models)

\* Whatever overlaps, a key that was deleted or replaced is not accepted again: while nobody
\* holds the lock, each key of the snapshot is in the table (STA-05, op/apikey.go:236).
RevokedKeysStayOut ==
    keyLock = Nobody => \A id \in DOMAIN keySnap : id \in DOMAIN keys /\ keys[id] = keySnap[id]
=============================================================================
