-------------------------------- MODULE Groups --------------------------------
(* The calls on groups (op/group.go). *)
EXTENDS PanelData

CONSTANTS
    NewGroups,          \* requests to create: [name, add]; add is a sequence of [model, ref]
    GroupEdits,         \* requests to update: [name, add, drop, raise]; name "" keeps the name
    Rankings,           \* rankings of evaluated models: [name, ranks]
    MaxGroupRefDepth

\* ids are given out in the order of the request.
NewItems(add, first) ==
    [id \in first .. first + Len(add) - 1 |->
        [model |-> add[id - first + 1].model, ref |-> add[id - first + 1].ref, priority |-> 1]]

-----------------------------------------------------------------------------
(* Checks, all of them against the caches. *)

ItemsExist(add) == \A t \in Range(add) : IsGroupRef(t) \/ t.model \in DOMAIN modelCache

\* A model and a referenced group occur once among the members.
SameTarget(s, t) ==
    \/ IsGroupRef(s) /\ IsGroupRef(t) /\ s.ref = t.ref
    \/ ~IsGroupRef(s) /\ ~IsGroupRef(t) /\ s.model = t.model
NoDuplicates(items) == \A i, j \in DOMAIN items : SameTarget(items[i], items[j]) => i = j

Resolved(name) ==
    IF name \in DOMAIN nameIndex THEN {nameIndex[name]} \cap DOMAIN groupCache ELSE {}

\* The groups that a group refers to.
Referenced(x) == UNION {Resolved(name) : name \in RefNames(groupCache[x].items)}

\* The paths along references from a group; one more than the limit shows an excess.
RefPaths(g) ==
    {p \in SeqOf(DOMAIN groupCache, MaxGroupRefDepth + 1) :
        p # <<>> /\ p[1] = g /\ \A i \in 1 .. Len(p) - 1 : p[i + 1] \in Referenced(p[i])}

\* The search keeps one set of visited groups for all branches: a group that two paths
\* reach is refused like a cycle.  self holds what counts as the group being written.
RefAllowed(name, self) ==
    /\ Resolved(name) # {}
    /\ \A g \in Resolved(name) :
          LET paths == RefPaths(g)
          IN  \A p \in paths :
                /\ Last(p) \notin self
                /\ Len(p) <= MaxGroupRefDepth
                /\ \A q \in paths : Last(q) = Last(p) => q = p

Referred(name, except) ==
    \E g \in DOMAIN groupCache \ {except} : name \in RefNames(groupCache[g].items)

-----------------------------------------------------------------------------
(* Requests. *)

GroupCreate(c) ==
    \E g \in NewGroups :
        LET items == NewItems(g.add, 1)
            self == {x \in DOMAIN groupCache : groupCache[x].name = g.name}
        IN  /\ MayBegin(c)
            /\ ItemsExist(g.add)
            /\ NoDuplicates(items)
            /\ \A name \in RefNames(items) : RefAllowed(name, self)
            /\ Begin(c, "insertGroup", g, {"groups", "names"})

\* The members that will be in force are checked: the cached ones that stay, and the new ones.
GroupUpdate(c) ==
    \E g \in DOMAIN groupCache, e \in GroupEdits :
        LET old == groupCache[g]
            items == Over(Without(old.items, e.drop), NewItems(e.add, nextId))
        IN  /\ MayBegin(c)
            /\ e.name \notin {"", old.name} => ~Referred(old.name, g)
            /\ ItemsExist(e.add)
            /\ NoDuplicates(items)
            /\ \A name \in RefNames(items) : RefAllowed(name, {g})
            /\ Begin(c, "updateGroup", [on |-> g, edit |-> e, name |-> old.name],
                     {"groups", "names"})

GroupActiveItemUpdate(c) ==
    \E g \in DOMAIN groupCache : \E i \in DOMAIN groupCache[g].items \cup {0} :
        Begin(c, "setActive", [on |-> g, row |-> [groupCache[g] EXCEPT !.active = i]], {"groups"})

GroupDel(c) ==
    \E g \in DOMAIN groupCache :
        /\ ~Referred(groupCache[g].name, g)
        /\ Begin(c, "deleteGroup", [on |-> g, name |-> groupCache[g].name], {"groups", "names"})

\* Every ranked model must exist, on a channel that is enabled.
GroupReplaceItemsByName(c) ==
    \E r \in Rankings :
        /\ \A m \in Range(r.add) :
              /\ m.model \in DOMAIN modelCache
              /\ modelCache[m.model].channel \in DOMAIN channelCache
              /\ channelCache[modelCache[m.model].channel].enabled
        /\ Begin(c, "replaceItems", r, {"groups", "names"})

-----------------------------------------------------------------------------
(* Transactions. *)

\* The row a call has written, under the name the index may have to forget.
Written(g, row, oldName) == [on |-> g, row |-> row, name |-> oldName]

GroupTableUnchanged == UNCHANGED <<channels, models, settings, keys, caches, backup, suspect>>

Insert(c, name, add) ==
    LET row == [name |-> name, active |-> 0, items |-> NewItems(add, nextId + 1)]
    IN  /\ IdOf(groups, name) = {}
        /\ groups' = Put(groups, nextId, row)
        /\ nextId' = nextId + 1 + Len(add)
        /\ Goto(c, "publishGroup", Written(nextId, row, name))

InsertGroup(c) ==
    /\ pc[c] = "insertGroup"
    /\ Insert(c, arg[c].name, arg[c].add)
    /\ GroupTableUnchanged

UpdateGroup(c) ==
    LET g == arg[c].on
        e == arg[c].edit
        old == groups[g]
        gone == e.drop \cap DOMAIN old.items
        kept == [i \in DOMAIN old.items \ gone |->
                    IF i \in e.raise THEN [old.items[i] EXCEPT !.priority = 2] ELSE old.items[i]]
        row == [name |-> IF e.name = "" THEN old.name ELSE e.name,
                active |-> IF old.active \in gone THEN 0 ELSE old.active,
                items |-> Over(NewItems(e.add, nextId), kept)]
    IN  /\ pc[c] = "updateGroup"
        /\ g \in DOMAIN groups
        /\ IdOf(groups, row.name) \subseteq {g}
        /\ groups' = [groups EXCEPT ![g] = row]
        /\ nextId' = nextId + Len(e.add)
        /\ Goto(c, "publishGroup", Written(g, row, arg[c].name))
        /\ GroupTableUnchanged

\* An update that finds no row is no error.
SetActive(c) ==
    LET g == arg[c].on
    IN  /\ pc[c] = "setActive"
        /\ groups' = [x \in DOMAIN groups |->
                        IF x = g THEN [groups[x] EXCEPT !.active = arg[c].row.active] ELSE groups[x]]
        /\ Goto(c, "publishActive", Nothing)
        /\ UNCHANGED nextId
        /\ GroupTableUnchanged

DeleteGroup(c) ==
    /\ pc[c] = "deleteGroup"
    /\ groups' = Without(groups, {arg[c].on})
    /\ Goto(c, "forgetGroup", Nothing)
    /\ UNCHANGED nextId
    /\ GroupTableUnchanged

\* The index decides, inside the transaction, whether the group exists.
ReplaceItems(c) ==
    LET name == arg[c].name
        g == nameIndex[name]
        row == [groups[g] EXCEPT !.active = 0, !.items = NewItems(arg[c].add, nextId)]
    IN  /\ pc[c] = "replaceItems"
        /\ IF name \notin DOMAIN nameIndex
              THEN Insert(c, name, arg[c].add)
              ELSE /\ g \in DOMAIN groups
                   /\ groups' = [groups EXCEPT ![g] = row]
                   /\ nextId' = nextId + Len(arg[c].add)
                   /\ Goto(c, "publishGroup", Written(g, row, row.name))
        /\ GroupTableUnchanged

-----------------------------------------------------------------------------
(* Publication. *)

\* Mutated: the name the group had before stays in the index.
PublishGroupKeepsName(c) ==
    LET w == read[c]
    IN  /\ pc[c] = "publishGroup"
        /\ groupCache' = Put(groupCache, w.on, w.row)
        /\ nameIndex' = Put(nameIndex, w.row.name, w.on)
        /\ End(c)
        /\ UNCHANGED <<tables, channelCache, modelCache, settingCache, keySnap, keyLock, backup,
                       suspect>>

PublishGroup(c) ==
    LET w == read[c]
    IN  /\ pc[c] = "publishGroup"
        /\ groupCache' = Put(groupCache, w.on, w.row)
        /\ nameIndex' = Put(Without(nameIndex, {w.name}), w.row.name, w.on)
        /\ End(c)
        /\ UNCHANGED <<tables, channelCache, modelCache, settingCache, keySnap, keyLock, backup,
                       suspect>>

\* The row published is the one the cache held when the request was checked.
PublishActive(c) ==
    /\ pc[c] = "publishActive"
    /\ groupCache' = Put(groupCache, arg[c].on, arg[c].row)
    /\ End(c)
    /\ UNCHANGED <<tables, channelCache, modelCache, nameIndex, settingCache, keySnap, keyLock,
                   backup, suspect>>

ForgetGroup(c) ==
    /\ pc[c] = "forgetGroup"
    /\ groupCache' = Without(groupCache, {arg[c].on})
    /\ nameIndex' = Without(nameIndex, {arg[c].name})
    /\ End(c)
    /\ UNCHANGED <<tables, channelCache, modelCache, settingCache, keySnap, keyLock, backup,
                   suspect>>

-----------------------------------------------------------------------------
(* groupRefreshCache, which ends a change of channels and of everything. *)

ReadGroups(c, here, next) ==
    /\ pc[c] = here
    /\ Goto(c, next, groups)
    /\ Reread(c, {"groups", "names"})
    /\ UNCHANGED <<tables, caches, backup>>

StoreGroups(c, here) ==
    /\ pc[c] = here
    /\ groupCache' = read[c]
    /\ nameIndex' = NamesOf(read[c])
    /\ UNCHANGED <<tables, channelCache, modelCache, settingCache, keySnap, keyLock, backup,
                   suspect>>
=============================================================================
