---------------------------- MODULE Catalog_proofs ----------------------------
(***************************************************************************)
(* Whatever overlaps, a key that was deleted is not accepted again, a      *)
(* cache that no call is about to write is what its table is, and members, *)
(* references and active members point to what is there: for any number of *)
(* calls, any rows and any requests.                                       *)
(***************************************************************************)
EXTENDS Catalog, FiniteSetTheorems, SequenceTheorems, TLAPS

-----------------------------------------------------------------------------
(* Types. *)

Refreshing == {"readSettings", "storeSettings", "readChannels", "storeChannels",
               "readAllGroups", "storeAllGroups", "readKeys"}

\* The caches a call writes, by what it is doing.
BusyTyped(c) ==
    /\ pc[c] \in {"new", "done", "fetch"} => busy[c] = {}
    /\ pc[c] \in {"insertGroup", "updateGroup", "deleteGroup", "replaceItems",
                  "publishGroup", "forgetGroup"} => busy[c] = {"groups", "names"}
    /\ pc[c] \in {"setActive", "publishActive"} => busy[c] = {"groups"}
    /\ pc[c] \in {"insertChannel", "publishNew"} => busy[c] = {"channels", "models"}
    /\ pc[c] \in {"setEnabled", "publishEnabled"} => busy[c] = {"channels"}
    /\ pc[c] \in {"updateChannel", "publishChannel"} =>
          busy[c] = IF "models" \in arg[c].edit.changes THEN RouteCaches ELSE {"channels"}
    /\ pc[c] \in {"deleteChannel", "forgetChannel", "readGroups", "storeGroups"} =>
          busy[c] = RouteCaches
    /\ pc[c] \in {"setSetting", "loadSetting", "publishSetting"} => busy[c] = {"settings"}
    /\ pc[c] \in {"import"} \cup Refreshing => busy[c] = Caches
    /\ pc[c] = "writeKeys" => busy[c] = {"keys"}
    /\ pc[c] = "publishKeys" => busy[c] \in {{"keys"}, Caches}
    /\ busy[c] \subseteq Caches

ModelRows(table) == \A m \in DOMAIN table : IsModelRow(table[m])

Unique(table) == \A g, h \in DOMAIN table : table[g].name = table[h].name => g = h

\* Rows have the columns of their tables, and ids that have been given out.
GroupsTyped ==
    /\ IdsBelow(groups, nextId)
    /\ \A g \in DOMAIN groups : IsGroupRow(groups[g])
    /\ Unique(groups)

ModelsTyped == IdsBelow(models, nextId) /\ ModelRows(models) /\ ModelRows(modelCache)

SettingsTyped ==
    /\ settings = [k \in DOMAIN settings |-> settings[k]]
    /\ DOMAIN settingCache \subseteq DOMAIN settings

\* So has a backup.
BackupTyped(d) ==
    /\ IdsBelow(d.groups, nextId)
    /\ \A g, h \in DOMAIN d.groups : d.groups[g] = d.groups[h] => g = h
    /\ IdsBelow(d.models, nextId) /\ ModelRows(d.models)

Blocks == UNION {Range(text) : text \in NewChannels}
IsText(r) == r = [text |-> r.text] /\ r.text \in Seq(Blocks) /\ r.text # <<>>

IsChange(r) == /\ r = [on |-> r.on, edit |-> r.edit, todo |-> r.todo, seen |-> r.seen]
               /\ ModelRows(r.seen)

\* What a call knows, by what it is doing.
Knows(c) ==
    /\ pc[c] \in {"insertGroup", "replaceItems"} => Len(arg[c].add) \in Nat
    /\ pc[c] = "updateGroup" => Len(arg[c].edit.add) \in Nat
    /\ pc[c] \in {"insertChannel", "publishNew"} => IsText(arg[c])
    /\ pc[c] \in {"publishNew", "publishChannel", "storeChannels"} => ModelRows(read[c].models)
    /\ pc[c] \in {"fetch", "updateChannel", "publishChannel", "deleteChannel",
                  "forgetChannel", "readGroups", "storeGroups"} => IsChange(arg[c])
    /\ pc[c] = "updateChannel" => DOMAIN arg[c].edit.models \subseteq ModelNames
    /\ pc[c] \in {"loadSetting", "publishSetting"} => arg[c].key \in DOMAIN settings
    /\ pc[c] = "storeSettings" => DOMAIN read[c] \subseteq DOMAIN settings
    /\ pc[c] = "import" => BackupTyped(arg[c])

Functions == /\ pc = [c \in Calls |-> pc[c]] /\ arg = [c \in Calls |-> arg[c]]
             /\ read = [c \in Calls |-> read[c]] /\ busy = [c \in Calls |-> busy[c]]

PanelTyped ==
    /\ nextId \in Int /\ GroupsTyped /\ ModelsTyped /\ SettingsTyped
    /\ Functions
    /\ \A c \in Calls : BusyTyped(c) /\ Knows(c)
    /\ BackupTyped(backup)

-----------------------------------------------------------------------------
(* The caches. *)

Table(x) ==
    CASE x = "channels" -> channels
      [] x = "models" -> models
      [] x = "groups" -> groups
      [] x = "names" -> NamesOf(groups)
      [] x = "settings" -> settings
      [] x = "keys" -> keys

Cache(x) ==
    CASE x = "channels" -> channelCache
      [] x = "models" -> modelCache
      [] x = "groups" -> groupCache
      [] x = "names" -> nameIndex
      [] x = "settings" -> settingCache
      [] x = "keys" -> keySnap

\* A refresh has yet to read what it will publish of x.
Unfetched(c, x) ==
    \/ pc[c] = "readSettings"
    \/ pc[c] \in {"storeSettings", "readChannels"} /\ x # "settings"
    \/ pc[c] \in {"storeChannels", "readAllGroups"} /\ x \in {"groups", "names", "keys"}
    \/ pc[c] \in {"storeAllGroups", "readKeys"} /\ x = "keys"
    \/ pc[c] \in {"publishChannel", "forgetChannel", "readGroups"} /\ x \in {"groups", "names"}

\* The models of a channel in the cache, with those that a change has written.
ModelsPublished(c) ==
    LET now == read[c].models
        ch == arg[c].on
    IN  Over([m \in {x \in ModelsOf(modelCache, ch) : x \in DOMAIN now} |->
                 [modelCache[m] EXCEPT !.source = now[m].source]],
             Over(now, Without(modelCache, ModelsOf(modelCache, ch))))

\* What the cache x holds when c has published what it has read or written so far.
Publishes(c, x) ==
    CASE pc[c] = "publishGroup" /\ x = "groups" -> Put(groupCache, read[c].on, read[c].row)
      [] pc[c] = "publishGroup" /\ x = "names" ->
            Put(Without(nameIndex, {read[c].name}), read[c].row.name, read[c].on)
      [] pc[c] = "publishActive" -> Put(groupCache, arg[c].on, arg[c].row)
      [] pc[c] = "forgetGroup" /\ x = "groups" -> Without(groupCache, {arg[c].on})
      [] pc[c] = "forgetGroup" /\ x = "names" -> Without(nameIndex, {arg[c].name})
      [] pc[c] \in {"storeGroups", "storeAllGroups"} /\ x = "groups" -> read[c]
      [] pc[c] \in {"storeGroups", "storeAllGroups"} /\ x = "names" -> NamesOf(read[c])
      [] pc[c] = "publishNew" /\ x = "channels" -> Put(channelCache, read[c].on, read[c].row)
      [] pc[c] = "publishNew" /\ x = "models" -> Over(read[c].models, modelCache)
      [] pc[c] = "publishChannel" /\ x = "channels" -> Put(channelCache, arg[c].on, read[c].row)
      [] pc[c] = "publishChannel" /\ x = "models" -> ModelsPublished(c)
      [] pc[c] = "publishEnabled" ->
            [y \in DOMAIN channelCache |->
                IF y = arg[c].on THEN [channelCache[y] EXCEPT !.enabled = arg[c].enabled]
                ELSE channelCache[y]]
      [] pc[c] = "forgetChannel" /\ x = "channels" -> Without(channelCache, {arg[c].on})
      [] pc[c] = "forgetChannel" /\ x = "models" -> Without(modelCache, read[c])
      [] pc[c] = "publishSetting" -> Put(settingCache, arg[c].key, read[c])
      [] pc[c] = "storeSettings" /\ x = "settings" -> Over(read[c], settingCache)
      [] pc[c] = "storeChannels" /\ x = "channels" -> read[c].channels
      [] pc[c] = "storeChannels" /\ x = "models" -> read[c].models
      [] pc[c] = "publishKeys" /\ x = "keys" -> read[c]
      [] OTHER -> Cache(x)

\* What was checked at the beginning still holds of the table.
Checked(c, x) ==
    /\ pc[c] \in {"updateGroup", "deleteGroup"} /\ x = "names" =>
          /\ arg[c].name \in DOMAIN NamesOf(groups)
          /\ NamesOf(groups)[arg[c].name] = arg[c].on
    /\ pc[c] = "setActive" /\ x = "groups" =>
          /\ arg[c].on \in DOMAIN groups
          /\ arg[c].row = [groups[arg[c].on] EXCEPT !.active = arg[c].row.active]

Ready(c, x) == Checked(c, x) /\ (Unfetched(c, x) \/ Publishes(c, x) = Table(x))

\* A cache that is not suspect has one writer at most, who will leave it as the table is.
CachesReady ==
    \A x \in Caches \ suspect :
        /\ \A c, d \in Calls : x \in busy[c] /\ x \in busy[d] => c = d
        /\ \A c \in Calls : x \in busy[c] => Ready(c, x)
        /\ (\A c \in Calls : x \notin busy[c]) => Cache(x) = Table(x)

NamesSuspect == "groups" \in suspect => "names" \in suspect

CatalogInv == PanelTyped /\ CachesReady /\ NamesSuspect

-----------------------------------------------------------------------------
(* Steps. *)

\* A step is of one call: the others stay where they are.
OnlyCall(c) ==
    /\ Functions'
    /\ \A d \in Calls \ {c} : UNCHANGED <<pc[d], arg[d], read[d], busy[d]>>

\* What the operators of the actions do to the calls.
LEMMA GotoMoves ==
  ASSUME Functions, NEW c \in Calls, NEW next, NEW rows, Goto(c, next, rows)
  PROVE  /\ OnlyCall(c) /\ pc'[c] = next /\ read'[c] = rows
         /\ arg'[c] = arg[c] /\ busy'[c] = busy[c]
  BY DEF Functions, Goto, OnlyCall

LEMMA EndMoves ==
  ASSUME Functions, NEW c \in Calls, End(c)
  PROVE  OnlyCall(c) /\ pc'[c] = "done" /\ busy'[c] = {}
  BY DEF Functions, End, OnlyCall

LEMMA BeginMoves ==
  ASSUME Functions, NEW c \in Calls, NEW next, NEW request, NEW xs, Begin(c, next, request, xs)
  PROVE  /\ OnlyCall(c) /\ pc[c] = "new" /\ pc'[c] = next /\ arg'[c] = request /\ busy'[c] = xs
         /\ suspect' = suspect \cup Spoils(Shared(c, xs))
         /\ UNCHANGED <<tables, caches, backup>>
  BY DEF Functions, Begin, MayBegin, Touch, Tangle, OnlyCall

\* What stays of what the calls know while tables grow.
LEMMA BackupStays ==
  ASSUME NEW d, BackupTyped(d), nextId \in Int, nextId' \in Int, nextId' >= nextId
  PROVE  BackupTyped(d)'
  BY DEF BackupTyped, IdsBelow

LEMMA KnowsStays ==
  ASSUME NEW d, Knows(d), UNCHANGED <<pc[d], arg[d], read[d]>>,
         nextId \in Int, nextId' \in Int, nextId' >= nextId, DOMAIN settings \subseteq DOMAIN settings'
  PROVE  Knows(d)'
<1>1. PICK request : request = arg[d]
  OBVIOUS
<1>2. BackupTyped(request) => BackupTyped(request)'
  BY BackupStays
<1>3. pc'[d] = "import" => BackupTyped(arg[d])'
  BY <1>1, <1>2 DEF Knows, BackupTyped
<1> QED BY <1>3 DEF Knows

LEMMA BusyStays ==
  ASSUME NEW d, BusyTyped(d), UNCHANGED <<pc[d], arg[d], busy[d]>>
  PROVE  BusyTyped(d)'
  BY DEF BusyTyped

\* A step keeps the types if its call does and the tables do.
LEMMA TypedFrame ==
  ASSUME PanelTyped, NEW c \in Calls, OnlyCall(c), BusyTyped(c)', Knows(c)', backup' = backup,
         nextId' \in Int, nextId' >= nextId, DOMAIN settings \subseteq DOMAIN settings',
         GroupsTyped', ModelsTyped', SettingsTyped'
  PROVE  PanelTyped'
<1>1. \A d \in Calls : BusyTyped(d)' /\ Knows(d)'
  <2>1. ASSUME NEW d \in Calls, d # c
        PROVE  BusyTyped(d)' /\ Knows(d)'
    BY <2>1, KnowsStays, BusyStays DEF PanelTyped, OnlyCall
  <2> QED BY <2>1
<1>2. BackupTyped(backup)'
  BY BackupStays DEF PanelTyped, BackupTyped
<1> QED BY <1>1, <1>2 DEF PanelTyped, OnlyCall

\* Tables that a step leaves alone keep their types, whatever ids are given out.
LEMMA TablesStay ==
  ASSUME PanelTyped, nextId' \in Int, nextId' >= nextId
  PROVE  /\ groups' = groups => GroupsTyped'
         /\ models' = models /\ modelCache' = modelCache => ModelsTyped'
         /\ settings' = settings /\ settingCache' = settingCache => SettingsTyped'
  BY DEF PanelTyped, GroupsTyped, Unique, ModelsTyped, SettingsTyped, IdsBelow, ModelRows

-----------------------------------------------------------------------------
(* The caches, by the same kind of steps. *)

LEMMA ReadyStays ==
  ASSUME NEW d, NEW x \in busy[d], BusyTyped(d), Ready(d, x),
         UNCHANGED <<pc[d], arg[d], read[d], Table(x), Cache(x)>>
  PROVE  Ready(d, x)'
<1>0. x \in Caches
  BY DEF BusyTyped
<1>1. Checked(d, x)'
  BY <1>0 DEF Ready, Checked, Table, Caches
<1>2. Unfetched(d, x)' <=> Unfetched(d, x)
  BY DEF Unfetched
<1>3. Publishes(d, x)' = Publishes(d, x)
  BY <1>0 DEF Publishes, Cache, BusyTyped, Caches, ModelsPublished
<1>4. Table(x)' = Table(x)
  OBVIOUS
<1>5. Unfetched(d, x) \/ Publishes(d, x) = Table(x)
  BY DEF Ready
<1>6. (Unfetched(d, x) \/ Publishes(d, x) = Table(x))'
  BY <1>2, <1>3, <1>4, <1>5
<1> QED BY <1>1, <1>6 DEF Ready

\* A step that goes on with what its call writes: the caches of the others stay ready, and its
\* own are by the last assumption, if they are its own.
LEMMA CacheFrame ==
  ASSUME PanelTyped, CachesReady, NEW c \in Calls, OnlyCall(c), busy'[c] \subseteq busy[c],
         \A x \in Caches \ busy[c] : UNCHANGED <<Table(x), Cache(x)>>,
         \A x \in Caches \ suspect' :
            x \in suspect => x \in busy[c] /\ \A d \in Calls \ {c} : x \notin busy[d],
         \A x \in Caches \ suspect' :
            x \in busy[c] /\ (\A d \in Calls \ {c} : x \notin busy[d]) =>
               IF x \in busy'[c] THEN Ready(c, x)' ELSE Cache(x)' = Table(x)'
  PROVE  CachesReady'
<1> SUFFICES ASSUME NEW x \in Caches \ suspect'
             PROVE  /\ \A d, e \in Calls : x \in busy'[d] /\ x \in busy'[e] => d = e
                    /\ \A d \in Calls : x \in busy'[d] => Ready(d, x)'
                    /\ (\A d \in Calls : x \notin busy'[d]) => Cache(x)' = Table(x)'
  BY DEF CachesReady
<1>1. \A d \in Calls \ {c} : busy'[d] = busy[d]
  BY DEF OnlyCall
<1>2. CASE x \in busy[c]
  <2>1. \A d \in Calls \ {c} : x \notin busy[d]
    BY <1>2 DEF CachesReady
  <2> QED BY <1>1, <1>2, <2>1
<1>3. CASE x \notin busy[c]
  <2>1. /\ \A d, e \in Calls : x \in busy[d] /\ x \in busy[e] => d = e
        /\ \A d \in Calls : x \in busy[d] => Ready(d, x)
        /\ (\A d \in Calls : x \notin busy[d]) => Cache(x) = Table(x)
    BY <1>3 DEF CachesReady
  <2>2. \A d \in Calls : x \in busy'[d] => x \in busy[d] /\ d # c
    BY <1>1, <1>3
  <2>3. ASSUME NEW d \in Calls, x \in busy'[d]
        PROVE  Ready(d, x)'
    BY <1>3, <2>1, <2>2, <2>3, ReadyStays DEF OnlyCall, PanelTyped
  <2>4. (\A d \in Calls : x \notin busy'[d]) => \A d \in Calls : x \notin busy[d]
    BY <1>1, <1>3
  <2> QED BY <1>3, <2>1, <2>2, <2>3, <2>4
<1> QED BY <1>2, <1>3

\* A call begins to write xs: those that nobody else writes follow their tables.
LEMMA BeginFrame ==
  ASSUME PanelTyped, CachesReady, NEW c \in Calls, OnlyCall(c), busy[c] = {},
         NEW xs \in SUBSET Caches, busy'[c] = xs, suspect' = suspect \cup Spoils(Shared(c, xs)),
         \A x \in Caches : UNCHANGED <<Table(x), Cache(x)>>,
         (\A x \in xs \ suspect' : Cache(x) = Table(x)) => \A x \in xs \ suspect' : Ready(c, x)'
  PROVE  CachesReady'
<1>0. \A x \in xs \ suspect' : Cache(x) = Table(x)
  BY DEF CachesReady, Shared, Spoils
<1> SUFFICES ASSUME NEW x \in Caches \ suspect'
             PROVE  /\ \A d, e \in Calls : x \in busy'[d] /\ x \in busy'[e] => d = e
                    /\ \A d \in Calls : x \in busy'[d] => Ready(d, x)'
                    /\ (\A d \in Calls : x \notin busy'[d]) => Cache(x)' = Table(x)'
  BY DEF CachesReady
<1>1. \A d \in Calls \ {c} : busy'[d] = busy[d]
  BY DEF OnlyCall
<1>2. /\ \A d, e \in Calls : x \in busy[d] /\ x \in busy[e] => d = e
      /\ \A d \in Calls : x \in busy[d] => Ready(d, x)
      /\ (\A d \in Calls : x \notin busy[d]) => Cache(x) = Table(x)
  BY DEF CachesReady
<1>3. x \in xs => \A d \in Calls \ {c} : x \notin busy[d]
  BY DEF Shared, Spoils
<1>4. x \in xs => Ready(c, x)'
  BY <1>0
<1>5. ASSUME NEW d \in Calls, d # c, x \in busy'[d]
      PROVE  Ready(d, x)'
  BY <1>1, <1>2, <1>5, ReadyStays DEF OnlyCall, PanelTyped
<1> QED BY <1>1, <1>2, <1>3, <1>4, <1>5

\* What is suspect becomes so with what depends on it.
LEMMA NamesStaySuspect ==
  ASSUME NamesSuspect, NEW c, NEW xs,
         \/ Tangle(xs)
         \/ Reread(c, xs) /\ ("names" \in xs => "groups" \in xs)
         \/ suspect' \in {suspect, suspect \cup {"references"}}
  PROVE  NamesSuspect'
  BY DEF NamesSuspect, Tangle, Reread, Spoils, Shared

-----------------------------------------------------------------------------
(* Requests. *)

\* Where the calls begin: nothing has been read or written yet.
Starts == {"insertGroup", "updateGroup", "setActive", "deleteGroup", "replaceItems",
           "insertChannel", "updateChannel", "setEnabled", "deleteChannel", "fetch",
           "setSetting", "loadSetting", "import", "writeKeys"}

LEMMA PlainPublishes ==
  ASSUME NEW c, pc[c] \in Starts \cup {"new", "done", "readSettings", "readChannels",
                                       "readAllGroups", "readKeys", "readGroups"},
         NEW x
  PROVE  Publishes(c, x) = Cache(x)
  BY DEF Publishes, Starts

\* Nothing of what the types and the caches speak of changes but the calls.
LEMMA OnlyCalls ==
  ASSUME PanelTyped, UNCHANGED <<tables, routeCaches, settingCache, keySnap>>
  PROVE  /\ GroupsTyped' /\ ModelsTyped' /\ SettingsTyped'
         /\ nextId' \in Int /\ nextId' >= nextId /\ DOMAIN settings \subseteq DOMAIN settings'
         /\ \A x \in Caches : UNCHANGED <<Table(x), Cache(x)>>
<1>1. nextId' \in Int /\ nextId' >= nextId /\ DOMAIN settings \subseteq DOMAIN settings'
  BY DEF PanelTyped, tables
<1>2. GroupsTyped' /\ ModelsTyped' /\ SettingsTyped'
  BY <1>1, TablesStay DEF tables, routeCaches
<1>3. \A x \in Caches : UNCHANGED <<Table(x), Cache(x)>>
  BY DEF tables, routeCaches, Table, Cache, Caches
<1> QED BY <1>1, <1>2, <1>3

\* A call that begins, with its types and what it has checked.
LEMMA BeginSafe ==
  ASSUME CatalogInv, NEW c \in Calls, NEW next \in Starts, NEW request, NEW xs \in SUBSET Caches,
         Begin(c, next, request, xs), BusyTyped(c)', Knows(c)',
         (\A x \in xs \ suspect' : Cache(x) = Table(x)) /\ NamesSuspect' =>
            \A x \in xs \ suspect' : Checked(c, x)'
  PROVE  CatalogInv'
<1>1. /\ OnlyCall(c) /\ pc[c] = "new" /\ pc'[c] = next /\ busy'[c] = xs
      /\ suspect' = suspect \cup Spoils(Shared(c, xs))
      /\ UNCHANGED <<tables, caches, backup>>
  BY BeginMoves DEF CatalogInv, PanelTyped
<1>2. /\ GroupsTyped' /\ ModelsTyped' /\ SettingsTyped'
      /\ nextId' \in Int /\ nextId' >= nextId /\ DOMAIN settings \subseteq DOMAIN settings'
      /\ \A x \in Caches : UNCHANGED <<Table(x), Cache(x)>>
  BY <1>1, OnlyCalls DEF CatalogInv, caches
<1>3. PanelTyped'
  BY <1>1, <1>2, TypedFrame DEF CatalogInv
<1>4. busy[c] = {}
  BY <1>1 DEF CatalogInv, PanelTyped, BusyTyped
<1>5. NamesSuspect'
  BY <1>1 DEF CatalogInv, NamesSuspect, Spoils
<1>6. ASSUME \A x \in xs \ suspect' : Cache(x) = Table(x), NEW x \in xs \ suspect'
      PROVE  Ready(c, x)'
  <2>1. Publishes(c, x)' = Cache(x)'
    BY <1>1, PlainPublishes DEF Publishes, Starts
  <2>2. Cache(x)' = Table(x)'
    BY <1>2, <1>6
  <2> QED BY <1>5, <1>6, <2>1, <2>2 DEF Ready
<1>7. CachesReady'
  BY <1>1, <1>2, <1>4, <1>6, BeginFrame DEF CatalogInv
<1> QED BY <1>3, <1>5, <1>7 DEF CatalogInv

\* The index by names of a table whose names are unique.
LEMMA NamesFind ==
  ASSUME NEW table, Unique(table)
  PROVE  /\ \A g \in DOMAIN table : /\ table[g].name \in DOMAIN NamesOf(table)
                                    /\ NamesOf(table)[table[g].name] = g
         /\ \A n \in DOMAIN NamesOf(table) : /\ NamesOf(table)[n] \in DOMAIN table
                                             /\ table[NamesOf(table)[n]].name = n
<1>1. DOMAIN NamesOf(table) = {table[g].name : g \in DOMAIN table}
  BY DEF NamesOf
<1>2. ASSUME NEW n \in DOMAIN NamesOf(table)
      PROVE  NamesOf(table)[n] \in DOMAIN table /\ table[NamesOf(table)[n]].name = n
  <2>1. NamesOf(table)[n] = CHOOSE g \in IdOf(table, n) : TRUE
    BY <1>1 DEF NamesOf
  <2>2. IdOf(table, n) # {}
    BY <1>1 DEF IdOf
  <2> QED BY <2>1, <2>2 DEF IdOf
<1> QED BY <1>1, <1>2 DEF Unique

\* Requests to groups come with sequences of members.
LEMMA AddsTyped ==
  ASSUME NEW g \in NewGroups \cup GroupEdits \cup Rankings
  PROVE  g.add \in Seq(Range(g.add)) /\ Len(g.add) \in Nat
<1>1. g.add \in Seq(Range(g.add))
  BY CatalogAssumption
<1> QED BY <1>1, LenProperties

\* The calls on groups begin.
LEMMA GroupCreateSafe ==
  ASSUME CatalogInv, NEW c \in Calls, GroupCreate(c) \/ GroupReplaceItemsByName(c)
  PROVE  CatalogInv'
<1>1. PICK g \in NewGroups \cup Rankings, next \in {"insertGroup", "replaceItems"} :
         Begin(c, next, g, {"groups", "names"})
  BY DEF GroupCreate, GroupReplaceItemsByName
<1>2. pc'[c] = next /\ arg'[c] = g /\ busy'[c] = {"groups", "names"}
  BY <1>1, BeginMoves DEF CatalogInv, PanelTyped
<1>3. Knows(c)'
  BY <1>2, AddsTyped DEF Knows
<1>4. BusyTyped(c)'
  BY <1>2 DEF BusyTyped, Caches, Refreshing
<1>5. \A x \in {"groups", "names"} : Checked(c, x)'
  BY <1>2 DEF Checked
<1>6. next \in Starts /\ {"groups", "names"} \in SUBSET Caches
  BY DEF Starts, Caches
<1> QED BY <1>1, <1>3, <1>4, <1>5, <1>6, BeginSafe

LEMMA GroupChangeSafe ==
  ASSUME CatalogInv, NEW c \in Calls, NEW next \in {"updateGroup", "deleteGroup"}, NEW r,
         r.on \in DOMAIN groupCache, r.name = groupCache[r.on].name,
         next = "updateGroup" => r.edit \in GroupEdits,
         Begin(c, next, r, {"groups", "names"})
  PROVE  CatalogInv'
<1>2. pc'[c] = next /\ arg'[c] = r /\ busy'[c] = {"groups", "names"} /\ groups' = groups
  BY BeginMoves DEF CatalogInv, PanelTyped, tables
<1>3. Knows(c)'
  BY <1>2, AddsTyped DEF Knows
<1>4. BusyTyped(c)'
  BY <1>2 DEF BusyTyped, Caches, Refreshing
<1>5. ASSUME \A x \in {"groups", "names"} \ suspect' : Cache(x) = Table(x), NamesSuspect',
             NEW x \in {"groups", "names"} \ suspect'
      PROVE  Checked(c, x)'
  <2>1. CASE x = "names"
    <3>1. groupCache = groups
      BY <1>5, <2>1 DEF Cache, Table, NamesSuspect
    <3>2. groups[r.on].name \in DOMAIN NamesOf(groups) /\ NamesOf(groups)[groups[r.on].name] = r.on
      BY <3>1, NamesFind DEF CatalogInv, PanelTyped, GroupsTyped
    <3> QED BY <1>2, <2>1, <3>1, <3>2 DEF Checked
  <2>2. CASE x # "names"
    BY <1>2, <2>2 DEF Checked
  <2> QED BY <2>1, <2>2
<1>6. next \in Starts /\ {"groups", "names"} \in SUBSET Caches
  BY DEF Starts, Caches
<1> QED BY <1>3, <1>4, <1>5, <1>6, BeginSafe

LEMMA GroupUpdateSafe ==
  ASSUME CatalogInv, NEW c \in Calls, GroupUpdate(c)
  PROVE  CatalogInv'
<1>1. PICK g \in DOMAIN groupCache, e \in GroupEdits :
         Begin(c, "updateGroup", [on |-> g, edit |-> e, name |-> groupCache[g].name],
               {"groups", "names"})
  BY DEF GroupUpdate
<1> DEFINE r == [on |-> g, edit |-> e, name |-> groupCache[g].name]
<1>2. r.on = g /\ r.edit = e /\ r.name = groupCache[g].name
  OBVIOUS
<1>3. Begin(c, "updateGroup", r, {"groups", "names"})
  BY <1>1
<1> HIDE DEF r
<1> QED BY <1>2, <1>3, GroupChangeSafe

LEMMA GroupDelSafe ==
  ASSUME CatalogInv, NEW c \in Calls, GroupDel(c)
  PROVE  CatalogInv'
<1>1. PICK g \in DOMAIN groupCache :
         Begin(c, "deleteGroup", [on |-> g, name |-> groupCache[g].name], {"groups", "names"})
  BY DEF GroupDel
<1> DEFINE r == [on |-> g, name |-> groupCache[g].name]
<1>2. r.on = g /\ r.name = groupCache[g].name
  OBVIOUS
<1>3. Begin(c, "deleteGroup", r, {"groups", "names"})
  BY <1>1
<1> HIDE DEF r
<1> QED BY <1>2, <1>3, GroupChangeSafe

LEMMA GroupActiveSafe ==
  ASSUME CatalogInv, NEW c \in Calls, GroupActiveItemUpdate(c)
  PROVE  CatalogInv'
<1>1. PICK g \in DOMAIN groupCache : \E i \in DOMAIN groupCache[g].items \cup {0} :
         Begin(c, "setActive", [on |-> g, row |-> [groupCache[g] EXCEPT !.active = i]], {"groups"})
  BY DEF GroupActiveItemUpdate
<1>2. PICK i, r : /\ r.on = g /\ r.row = [groupCache[g] EXCEPT !.active = i]
                  /\ Begin(c, "setActive", r, {"groups"})
  BY <1>1
<1>3. pc'[c] = "setActive" /\ arg'[c] = r /\ busy'[c] = {"groups"} /\ groups' = groups
  BY <1>2, BeginMoves DEF CatalogInv, PanelTyped, tables
<1>4. Knows(c)' /\ BusyTyped(c)'
  BY <1>3 DEF Knows, BusyTyped, Caches, Refreshing
<1>5. ASSUME \A x \in {"groups"} \ suspect' : Cache(x) = Table(x),
             NEW x \in {"groups"} \ suspect'
      PROVE  Checked(c, x)'
  <2>1. groupCache = groups
    BY <1>5 DEF Cache, Table
  <2>2. groups[g] = [name |-> groups[g].name, active |-> groups[g].active,
                     items |-> groups[g].items]
    BY <1>1, <2>1 DEF CatalogInv, PanelTyped, GroupsTyped, IsGroupRow
  <2>3. r.row = [groups[g] EXCEPT !.active = i]
    BY <1>2, <2>1
  <2>4. r.row.active = i
    BY <2>2, <2>3
  <2>5. g \in DOMAIN groups
    BY <1>1, <2>1
  <2> QED BY <1>2, <1>3, <2>3, <2>4, <2>5 DEF Checked
<1>6. "setActive" \in Starts /\ {"groups"} \in SUBSET Caches
  BY DEF Starts, Caches
<1> QED BY <1>2, <1>4, <1>5, <1>6, BeginSafe

\* A call that checks nothing that the caches would have to agree on.
LEMMA PlainBeginSafe ==
  ASSUME CatalogInv, NEW c \in Calls, NEW r, NEW xs \in SUBSET Caches,
         NEW next \in Starts \ {"updateGroup", "deleteGroup", "setActive"},
         Begin(c, next, r, xs),
         pc'[c] = next /\ arg'[c] = r /\ busy'[c] = xs => BusyTyped(c)' /\ Knows(c)'
  PROVE  CatalogInv'
<1>1. pc'[c] = next /\ arg'[c] = r /\ busy'[c] = xs
  BY BeginMoves DEF CatalogInv, PanelTyped
<1>2. \A x \in xs : Checked(c, x)'
  BY <1>1 DEF Checked
<1> QED BY <1>1, <1>2, BeginSafe

LEMMA ChannelImportSafe ==
  ASSUME CatalogInv, NEW c \in Calls, ChannelImportFromText(c)
  PROVE  CatalogInv'
<1>1. PICK text \in NewChannels :
         Begin(c, "insertChannel", [text |-> text], {"channels", "models"})
  BY DEF ChannelImportFromText
<1>2. text \in Seq(Blocks) /\ text # <<>>
  <2>1. PICK range : range = Range(text) /\ range \subseteq Blocks
    BY DEF Blocks
  <2>2. text \in Seq(range) /\ text # <<>>
    BY <2>1, CatalogAssumption
  <2> QED BY <2>1, <2>2
<1> DEFINE r == [text |-> text]
<1>3. Begin(c, "insertChannel", r, {"channels", "models"}) /\ IsText(r)
  BY <1>1, <1>2 DEF IsText
<1> HIDE DEF r
<1>4. ASSUME pc'[c] = "insertChannel", arg'[c] = r, busy'[c] = {"channels", "models"}
      PROVE  BusyTyped(c)' /\ Knows(c)'
  BY <1>3, <1>4 DEF BusyTyped, Knows, IsText, Caches, Refreshing
<1> QED BY <1>3, <1>4, PlainBeginSafe DEF Caches, Starts

LEMMA ChangeFields ==
  ASSUME NEW ch, NEW edit
  PROVE  /\ Change(ch, edit).on = ch /\ Change(ch, edit).edit = edit
         /\ IsChange(Change(ch, edit))
  BY DEF Change, IsChange, ModelRows, Nothing

LEMMA EditsKnown ==
  ASSUME NEW edit \in ChannelEdits
  PROVE  DOMAIN edit.models \subseteq ModelNames
<1>1. DOMAIN edit.models \subseteq EditNames
  BY DEF EditNames
<1> QED BY <1>1 DEF ModelNames

LEMMA ChannelUpdateSafe ==
  ASSUME CatalogInv, NEW c \in Calls, ChannelUpdate(c)
  PROVE  CatalogInv'
<1>1. PICK ch \in DOMAIN channelCache, e \in ChannelEdits :
         Begin(c, "updateChannel", Change(ch, e),
               IF "models" \in e.changes THEN RouteCaches ELSE {"channels"})
  BY DEF ChannelUpdate
<1>2. PICK r : /\ r.edit = e /\ IsChange(r)
               /\ Begin(c, "updateChannel", r,
                        IF "models" \in e.changes THEN RouteCaches ELSE {"channels"})
  BY <1>1, ChangeFields
<1>3. PICK xs : /\ xs = IF "models" \in e.changes THEN RouteCaches ELSE {"channels"}
                /\ Begin(c, "updateChannel", r, xs)
  BY <1>2
<1>4. DOMAIN e.models \subseteq ModelNames
  BY EditsKnown
<1>5. ASSUME pc'[c] = "updateChannel", arg'[c] = r, busy'[c] = xs
      PROVE  BusyTyped(c)' /\ Knows(c)'
  <2>1. Knows(c)'
    BY <1>2, <1>4, <1>5 DEF Knows, IsChange, ModelRows
  <2>2. BusyTyped(c)'
    BY <1>2, <1>3, <1>5 DEF BusyTyped, Caches, RouteCaches, Refreshing
  <2> QED BY <2>1, <2>2
<1>6. xs \in SUBSET Caches
  BY <1>3 DEF Caches, RouteCaches
<1> QED BY <1>3, <1>5, <1>6, PlainBeginSafe DEF Starts

LEMMA ChannelEnabledSafe ==
  ASSUME CatalogInv, NEW c \in Calls, ChannelEnabled(c)
  PROVE  CatalogInv'
<1>1. PICK r : Begin(c, "setEnabled", r, {"channels"})
  BY DEF ChannelEnabled
<1>2. ASSUME pc'[c] = "setEnabled", arg'[c] = r, busy'[c] = {"channels"}
      PROVE  BusyTyped(c)' /\ Knows(c)'
  BY <1>2 DEF BusyTyped, Knows, Caches, Refreshing
<1> QED BY <1>1, <1>2, PlainBeginSafe DEF Caches, Starts

LEMMA ChannelDelSafe ==
  ASSUME CatalogInv, NEW c \in Calls, ChannelDel(c)
  PROVE  CatalogInv'
<1>1. PICK ch \in DOMAIN channelCache :
         Begin(c, "deleteChannel", Change(ch, Nothing), RouteCaches)
  BY DEF ChannelDel
<1>2. PICK r : IsChange(r) /\ Begin(c, "deleteChannel", r, RouteCaches)
  BY <1>1, ChangeFields
<1>3. ASSUME pc'[c] = "deleteChannel", arg'[c] = r, busy'[c] = RouteCaches
      PROVE  BusyTyped(c)' /\ Knows(c)'
  BY <1>2, <1>3 DEF BusyTyped, Knows, IsChange, ModelRows, Caches, RouteCaches, Refreshing
<1> QED BY <1>2, <1>3, PlainBeginSafe DEF Caches, RouteCaches, Starts

LEMMA SyncSafe ==
  ASSUME CatalogInv, NEW c \in Calls, SyncModelsTask(c)
  PROVE  CatalogInv'
<1> DEFINE r == [on |-> 0, edit |-> Nothing, todo |-> DOMAIN channelCache, seen |-> modelCache]
<1>1. Begin(c, "fetch", r, {})
  BY DEF SyncModelsTask
<1>2. IsChange(r)
  BY DEF CatalogInv, PanelTyped, ModelsTyped, IsChange
<1> HIDE DEF r
<1>3. ASSUME pc'[c] = "fetch", arg'[c] = r, busy'[c] = {}
      PROVE  BusyTyped(c)' /\ Knows(c)'
  BY <1>2, <1>3 DEF BusyTyped, Knows, IsChange, ModelRows, Refreshing
<1> QED BY <1>1, <1>3, PlainBeginSafe DEF Starts

LEMMA SettingSetSafe ==
  ASSUME CatalogInv, NEW c \in Calls, SettingSetString(c)
  PROVE  CatalogInv'
<1>1. PICK r : Begin(c, "setSetting", r, {"settings"})
  BY DEF SettingSetString
<1>2. ASSUME pc'[c] = "setSetting", arg'[c] = r, busy'[c] = {"settings"}
      PROVE  BusyTyped(c)' /\ Knows(c)'
  BY <1>2 DEF BusyTyped, Knows, Caches, Refreshing
<1> QED BY <1>1, <1>2, PlainBeginSafe DEF Caches, Starts

LEMMA SettingGetSafe ==
  ASSUME CatalogInv, NEW c \in Calls, SettingGetString(c)
  PROVE  CatalogInv'
<1>1. PICK k \in DOMAIN settings : Begin(c, "loadSetting", [key |-> k], {"settings"})
  BY DEF SettingGetString
<1> DEFINE r == [key |-> k]
<1>2. Begin(c, "loadSetting", r, {"settings"}) /\ r.key \in DOMAIN settings
  BY <1>1
<1> HIDE DEF r
<1>3. settings' = settings
  BY <1>2, BeginMoves DEF CatalogInv, PanelTyped, tables
<1>4. ASSUME pc'[c] = "loadSetting", arg'[c] = r, busy'[c] = {"settings"}
      PROVE  BusyTyped(c)' /\ Knows(c)'
  BY <1>2, <1>3, <1>4 DEF BusyTyped, Knows, Caches, Refreshing
<1> QED BY <1>2, <1>4, PlainBeginSafe DEF Caches, Starts

LEMMA ImportBegins ==
  ASSUME CatalogInv, NEW c \in Calls, DBImportIncremental(c)
  PROVE  CatalogInv'
<1>1. Begin(c, "import", backup, Caches)
  BY DEF DBImportIncremental
<1>2. BackupTyped(backup)'
  <2>1. UNCHANGED <<backup, nextId>>
    BY <1>1, BeginMoves DEF CatalogInv, PanelTyped, tables
  <2>2. BackupTyped(backup)
    BY DEF CatalogInv, PanelTyped
  <2> QED BY <2>1, <2>2 DEF BackupTyped
<1>3. backup' = backup
  BY <1>1, BeginMoves DEF CatalogInv, PanelTyped
<1>4. ASSUME pc'[c] = "import", arg'[c] = backup, busy'[c] = Caches
      PROVE  BusyTyped(c)' /\ Knows(c)'
  <2>1. BackupTyped(arg[c])'
    BY <1>2, <1>3, <1>4 DEF BackupTyped
  <2> QED BY <1>4, <2>1 DEF BusyTyped, Knows, Refreshing
<1> QED BY <1>1, <1>4, PlainBeginSafe DEF Starts

-----------------------------------------------------------------------------
(* The keys, and what begins without a request. *)

\* A call begins to write, other than by Begin.
LEMMA TouchSafe ==
  ASSUME CatalogInv, NEW c \in Calls, OnlyCall(c), busy[c] = {},
         pc'[c] \in Starts \ {"updateGroup", "deleteGroup", "setActive"},
         NEW xs \in SUBSET Caches, busy'[c] = xs, suspect' = suspect \cup Spoils(Shared(c, xs)),
         UNCHANGED <<tables, routeCaches, settingCache, keySnap, backup>>,
         BusyTyped(c)', Knows(c)'
  PROVE  CatalogInv'
<1>1. /\ GroupsTyped' /\ ModelsTyped' /\ SettingsTyped'
      /\ nextId' \in Int /\ nextId' >= nextId /\ DOMAIN settings \subseteq DOMAIN settings'
      /\ \A x \in Caches : UNCHANGED <<Table(x), Cache(x)>>
  BY OnlyCalls DEF CatalogInv
<1>2. PanelTyped'
  BY <1>1, TypedFrame DEF CatalogInv
<1>3. ASSUME NEW x \in xs \ suspect', Cache(x) = Table(x)
      PROVE  Ready(c, x)'
  <2>1. Publishes(c, x)' = Cache(x)'
    BY DEF Publishes, Starts
  <2>2. Cache(x)' = Table(x)'
    BY <1>1, <1>3
  <2> QED BY <2>1, <2>2 DEF Ready, Checked
<1>4. CachesReady'
  BY <1>1, <1>3, BeginFrame DEF CatalogInv
<1>5. NamesSuspect'
  BY DEF CatalogInv, NamesSuspect, Spoils
<1> QED BY <1>2, <1>4, <1>5 DEF CatalogInv

LEMMA LockSafe ==
  ASSUME CatalogInv, NEW c \in Calls, NEW r, LockFor(c, r)
  PROVE  CatalogInv'
<1>1. /\ OnlyCall(c) /\ pc[c] = "new" /\ pc'[c] = "writeKeys" /\ busy'[c] = {"keys"}
      /\ suspect' = suspect \cup Spoils(Shared(c, {"keys"}))
      /\ UNCHANGED <<tables, routeCaches, settingCache, keySnap, backup>>
  BY DEF LockFor, MayBegin, Touch, Tangle, OnlyCall, CatalogInv, PanelTyped, Functions
<1>2. Knows(c)' /\ BusyTyped(c)'
  BY <1>1 DEF Knows, BusyTyped, Caches, Refreshing
<1>3. busy[c] = {}
  BY <1>1 DEF CatalogInv, PanelTyped, BusyTyped
<1>4. {"keys"} \in SUBSET Caches
  BY DEF Caches
<1>5. pc'[c] \in Starts \ {"updateGroup", "deleteGroup", "setActive"}
  BY <1>1 DEF Starts
<1> QED BY <1>1, <1>2, <1>3, <1>4, <1>5, TouchSafe

LEMMA KeyRequestsSafe ==
  ASSUME CatalogInv, NEW c \in Calls, APIKeyCreate(c) \/ APIKeyUpdate(c) \/ APIKeyDelete(c)
  PROVE  CatalogInv'
<1>1. PICK r : LockFor(c, r)
  BY DEF APIKeyCreate, APIKeyUpdate, APIKeyDelete
<1> QED BY <1>1, LockSafe

\* Rows that an export has read have ids that were given out.
LEMMA ExportSafe ==
  ASSUME CatalogInv, NEW c \in Calls, DBExportAll(c)
  PROVE  CatalogInv'
<1>0. PICK b : b = [channels |-> channels, models |-> models, items |-> ItemRows, keys |-> keys,
                    groups |-> [g \in DOMAIN groups |-> groups[g].name],
                    settings |-> Without(settings, {"jwt"})]
  OBVIOUS
<1>1. /\ OnlyCall(c) /\ pc[c] = "new" /\ pc'[c] = "done" /\ busy'[c] = {}
      /\ backup' = b /\ UNCHANGED <<tables, caches, suspect>>
  BY <1>0, EndMoves DEF DBExportAll, MayBegin, CatalogInv, PanelTyped
<1>2. BackupTyped(b)'
  <2>1. /\ b.models = models /\ DOMAIN b.groups = DOMAIN groups
        /\ \A g \in DOMAIN groups : b.groups[g] = groups[g].name
    BY <1>0
  <2>2. nextId' = nextId
    BY <1>1 DEF tables
  <2> QED BY <2>1, <2>2 DEF BackupTyped, CatalogInv, PanelTyped, GroupsTyped, Unique, ModelsTyped,
                            IdsBelow, ModelRows
<1>3. /\ GroupsTyped' /\ ModelsTyped' /\ SettingsTyped'
      /\ nextId' \in Int /\ nextId' >= nextId /\ DOMAIN settings \subseteq DOMAIN settings'
      /\ \A x \in Caches : UNCHANGED <<Table(x), Cache(x)>>
  BY <1>1, OnlyCalls DEF CatalogInv, caches
<1>4. Knows(c)' /\ BusyTyped(c)'
  BY <1>1 DEF Knows, BusyTyped, Refreshing
<1>5. \A d \in Calls : BusyTyped(d)' /\ Knows(d)'
  <2>1. ASSUME NEW d \in Calls, d # c
        PROVE  BusyTyped(d)' /\ Knows(d)'
    BY <1>1, <1>3, <2>1, KnowsStays, BusyStays DEF CatalogInv, PanelTyped, OnlyCall
  <2> QED BY <1>4, <2>1
<1>6. BackupTyped(backup)'
  BY <1>1, <1>2 DEF BackupTyped
<1>7. PanelTyped'
  BY <1>1, <1>3, <1>5, <1>6 DEF PanelTyped, OnlyCall
<1>8. busy[c] = {}
  BY <1>1 DEF CatalogInv, PanelTyped, BusyTyped
<1>9. CachesReady'
  BY <1>1, <1>3, <1>8, CacheFrame DEF CatalogInv
<1> QED BY <1>1, <1>7, <1>9 DEF CatalogInv, NamesSuspect

-----------------------------------------------------------------------------
(* Functions and the index by names. *)

IsPut(h, f, id, row) ==
    /\ DOMAIN h = DOMAIN f \cup {id} /\ h[id] = row
    /\ \A x \in DOMAIN f \ {id} : h[x] = f[x]
IsWithout(h, f, ids) == DOMAIN h = DOMAIN f \ ids /\ \A x \in DOMAIN h : h[x] = f[x]
IsOver(h, f, g) ==
    /\ DOMAIN h = DOMAIN f \cup DOMAIN g
    /\ \A x \in DOMAIN f : h[x] = f[x]
    /\ \A x \in DOMAIN g \ DOMAIN f : h[x] = g[x]

LEMMA Puts ==
  ASSUME NEW f, NEW id, NEW row
  PROVE  IsPut(Put(f, id, row), f, id, row)
  BY DEF IsPut, Put, Over

LEMMA Withouts ==
  ASSUME NEW f, NEW ids
  PROVE  IsWithout(Without(f, ids), f, ids)
  BY DEF IsWithout, Without, Restrict

LEMMA Overs ==
  ASSUME NEW f, NEW g
  PROVE  IsOver(Over(f, g), f, g)
  BY DEF IsOver, Over

\* Tables and caches are functions.
IsFun(f) == f = [x \in DOMAIN f |-> f[x]]

LEMMA Funs ==
  ASSUME NEW f, NEW g, NEW id, NEW row, NEW ids
  PROVE  IsFun(Put(f, id, row)) /\ IsFun(Without(f, ids)) /\ IsFun(Over(f, g)) /\ IsFun(NamesOf(f))
<1>1. IsFun(Over(f, g)) /\ IsFun(Over([x \in {id} |-> row], f))
  BY DEF IsFun, Over
<1>2. IsFun(Without(f, ids))
  BY DEF IsFun, Without, Restrict
<1>3. IsFun(NamesOf(f))
  BY DEF IsFun, NamesOf
<1> QED BY <1>1, <1>2, <1>3 DEF Put

LEMMA Extensional ==
  ASSUME NEW f, NEW g, IsFun(f), IsFun(g), DOMAIN f = DOMAIN g, \A x \in DOMAIN f : f[x] = g[x]
  PROVE  f = g
  BY DEF IsFun

\* What finds every row by its name is the index of a table whose names are unique.
Finds(index, table) ==
    /\ \A n \in DOMAIN index : index[n] \in DOMAIN table /\ table[index[n]].name = n
    /\ \A g \in DOMAIN table : table[g].name \in DOMAIN index

LEMMA IndexFinds ==
  ASSUME NEW table, Unique(table)
  PROVE  Finds(NamesOf(table), table)
  BY NamesFind DEF Finds, Unique

LEMMA FindsIndex ==
  ASSUME NEW table, NEW f, IsFun(f), Unique(table), Finds(f, table)
  PROVE  f = NamesOf(table)
<1> DEFINE index == NamesOf(table)
<1>1. Finds(index, table) /\ IsFun(index)
  BY IndexFinds, Funs
<1> HIDE DEF index
<1>2. DOMAIN f = DOMAIN index
  BY <1>1 DEF Finds
<1>3. \A n \in DOMAIN f : f[n] = index[n]
  BY <1>1, <1>2 DEF Finds, Unique
<1> QED BY <1>1, <1>2, <1>3, Extensional DEF index

\* A row put into the table, under a name that no other row has.
LEMMA NamesPut ==
  ASSUME NEW table, NEW id, NEW row, NEW n, Unique(table),
         \A h \in DOMAIN table \ {id} : table[h].name # row.name,
         n = IF id \in DOMAIN table THEN table[id].name ELSE row.name
  PROVE  /\ Unique(Put(table, id, row))
         /\ NamesOf(Put(table, id, row)) = Put(Without(NamesOf(table), {n}), row.name, id)
<1> DEFINE after == Put(table, id, row)
           old == NamesOf(table)
           kept == Without(old, {n})
           index == Put(kept, row.name, id)
<1>1. IsPut(after, table, id, row)
  BY Puts
<1>2. Finds(old, table)
  BY IndexFinds
<1>3. IsWithout(kept, old, {n})
  BY Withouts
<1>4. IsPut(index, kept, row.name, id) /\ IsFun(index)
  BY Puts, Funs
<1> HIDE DEF after, old, kept, index
<1>5. Unique(after)
  BY <1>1 DEF Unique, IsPut
<1>6. ASSUME NEW m \in DOMAIN index
      PROVE  index[m] \in DOMAIN after /\ after[index[m]].name = m
  <2>1. CASE m = row.name
    BY <1>1, <1>4, <2>1 DEF IsPut
  <2>2. CASE m # row.name
    <3>1. m \in DOMAIN kept /\ index[m] = kept[m]
      BY <1>4, <2>2 DEF IsPut
    <3>2. m \in DOMAIN old /\ m # n /\ kept[m] = old[m]
      BY <1>3, <3>1 DEF IsWithout
    <3>3. old[m] \in DOMAIN table \ {id} /\ table[old[m]].name = m
      BY <1>2, <3>2 DEF Finds
    <3> QED BY <1>1, <3>1, <3>2, <3>3 DEF IsPut
  <2> QED BY <2>1, <2>2
<1>7. ASSUME NEW g \in DOMAIN after
      PROVE  after[g].name \in DOMAIN index
  <2>1. CASE g = id
    BY <1>1, <1>4, <2>1 DEF IsPut
  <2>2. CASE g # id
    <3>1. g \in DOMAIN table /\ after[g] = table[g] /\ table[g].name \in DOMAIN old
      BY <1>1, <1>2, <2>2 DEF IsPut, Finds
    <3>2. table[g].name # n
      BY <2>2, <3>1 DEF Unique
    <3>3. table[g].name \in DOMAIN kept
      BY <1>3, <3>1, <3>2 DEF IsWithout
    <3> QED BY <1>4, <3>1, <3>3 DEF IsPut
  <2> QED BY <2>1, <2>2
<1>8. index = NamesOf(after)
  BY <1>4, <1>5, <1>6, <1>7, FindsIndex DEF Finds
<1> QED BY <1>5, <1>8 DEF after, index, kept, old

\* Rows taken out of the table.
LEMMA NamesWithout ==
  ASSUME NEW table, NEW id, NEW n, Unique(table),
         id \in DOMAIN table => n = table[id].name,
         n \in DOMAIN NamesOf(table) => id \in DOMAIN table
  PROVE  /\ Unique(Without(table, {id}))
         /\ NamesOf(Without(table, {id})) = Without(NamesOf(table), {n})
<1> DEFINE after == Without(table, {id})
           old == NamesOf(table)
           kept == Without(old, {n})
<1>1. IsWithout(after, table, {id})
  BY Withouts
<1>2. Finds(old, table)
  BY IndexFinds
<1>3. IsWithout(kept, old, {n}) /\ IsFun(kept)
  BY Withouts, Funs
<1>0. n \in DOMAIN old => id \in DOMAIN table
  OBVIOUS
<1> HIDE DEF after, old, kept
<1>4. Unique(after)
  BY <1>1 DEF Unique, IsWithout
<1>5. \A m \in DOMAIN kept : kept[m] \in DOMAIN after /\ after[kept[m]].name = m
  BY <1>1, <1>2, <1>3 DEF IsWithout, Finds
<1>6. ASSUME NEW g \in DOMAIN after
      PROVE  after[g].name \in DOMAIN kept
  <2>1. g \in DOMAIN table /\ g # id /\ after[g] = table[g] /\ table[g].name \in DOMAIN old
    BY <1>1, <1>2 DEF IsWithout, Finds
  <2>2. table[g].name # n
    BY <1>0, <2>1 DEF Unique
  <2> QED BY <1>3, <2>1, <2>2 DEF IsWithout
<1>7. kept = NamesOf(after)
  BY <1>3, <1>4, <1>5, <1>6, FindsIndex DEF Finds
<1> QED BY <1>4, <1>7 DEF after, kept, old

\* The index depends on the names alone.
LEMMA NamesSame ==
  ASSUME NEW table, NEW after, Unique(table),
         DOMAIN after = DOMAIN table, \A g \in DOMAIN table : after[g].name = table[g].name
  PROVE  Unique(after) /\ NamesOf(after) = NamesOf(table)
<1> DEFINE old == NamesOf(table)
<1>1. Finds(old, table) /\ IsFun(old)
  BY IndexFinds, Funs
<1> HIDE DEF old
<1>2. Unique(after) /\ Finds(old, after)
  BY <1>1 DEF Unique, Finds
<1>3. old = NamesOf(after)
  BY <1>1, <1>2, FindsIndex
<1> QED BY <1>2, <1>3 DEF old

-----------------------------------------------------------------------------
(* Statements and publications. *)

\* A call goes on with what it writes; fresh is what it has read again.
LEMMA StepSafe ==
  ASSUME CatalogInv, NEW c \in Calls, OnlyCall(c), BusyTyped(c)', Knows(c)', backup' = backup,
         nextId' \in Int, nextId' >= nextId, DOMAIN settings \subseteq DOMAIN settings',
         GroupsTyped', ModelsTyped', SettingsTyped', NamesSuspect',
         busy'[c] \subseteq busy[c], NEW fresh \in SUBSET busy[c],
         \A x \in Caches \ suspect' :
            x \in suspect => x \in fresh /\ \A d \in Calls \ {c} : x \notin busy[d],
         \A x \in Caches \ busy[c] : UNCHANGED <<Table(x), Cache(x)>>,
         \A x \in busy[c] \ suspect' :
            x \in fresh \/ Ready(c, x) => IF x \in busy'[c] THEN Ready(c, x)'
                                          ELSE Cache(x)' = Table(x)'
  PROVE  CatalogInv'
<1>1. PanelTyped'
  BY TypedFrame DEF CatalogInv
<1>2. ASSUME NEW x \in Caches \ suspect', x \in busy[c]
      PROVE  IF x \in busy'[c] THEN Ready(c, x)' ELSE Cache(x)' = Table(x)'
  <2>1. x \notin suspect => Ready(c, x)
    BY <1>2 DEF CatalogInv, CachesReady
  <2> QED BY <1>2, <2>1
<1>3. CachesReady'
  BY <1>2, CacheFrame DEF CatalogInv
<1> QED BY <1>1, <1>3 DEF CatalogInv

\* The usual case: nothing becomes good again.
LEMMA WriteSafe ==
  ASSUME CatalogInv, NEW c \in Calls, OnlyCall(c), BusyTyped(c)', Knows(c)', backup' = backup,
         nextId' \in Int, nextId' >= nextId, DOMAIN settings \subseteq DOMAIN settings',
         GroupsTyped', ModelsTyped', SettingsTyped',
         busy'[c] \subseteq busy[c], suspect' \in {suspect, suspect \cup {"references"}},
         \A x \in Caches \ busy[c] : UNCHANGED <<Table(x), Cache(x)>>,
         \A x \in busy[c] : Ready(c, x) => IF x \in busy'[c] THEN Ready(c, x)'
                                           ELSE Cache(x)' = Table(x)'
  PROVE  CatalogInv'
<1>1. NamesSuspect'
  BY DEF CatalogInv, NamesSuspect
<1>2. \A x \in Caches \ suspect' : x \notin suspect
  OBVIOUS
<1>3. PICK fresh \in SUBSET busy[c] : fresh = {}
  OBVIOUS
<1>4. \A x \in Caches \ suspect' :
         x \in suspect => x \in fresh /\ \A d \in Calls \ {c} : x \notin busy[d]
  BY <1>2
<1>5. \A x \in busy[c] \ suspect' :
         x \in fresh \/ Ready(c, x) => IF x \in busy'[c] THEN Ready(c, x)'
                                       ELSE Cache(x)' = Table(x)'
  BY <1>3
<1> QED BY <1>1, <1>4, <1>5, StepSafe

\* A call publishes what it has read or written.
LEMMA PublishSafe ==
  ASSUME CatalogInv, NEW c \in Calls, OnlyCall(c), BusyTyped(c)', Knows(c)',
         busy'[c] = {}, ModelRows(modelCache'), DOMAIN settingCache' \subseteq DOMAIN settings,
         UNCHANGED <<tables, backup, suspect>>,
         \A x \in Caches \ busy[c] : Cache(x)' = Cache(x),
         \A x \in busy[c] : ~Unfetched(c, x) /\ Cache(x)' = Publishes(c, x)
  PROVE  CatalogInv'
<1>1. /\ nextId' \in Int /\ nextId' >= nextId /\ DOMAIN settings \subseteq DOMAIN settings'
      /\ GroupsTyped'
  BY TablesStay DEF CatalogInv, PanelTyped, tables
<1>2. ModelsTyped' /\ SettingsTyped'
  BY DEF CatalogInv, PanelTyped, ModelsTyped, SettingsTyped, IdsBelow, ModelRows, tables
<1>3. \A x \in Caches : Table(x)' = Table(x)
  BY DEF Table, tables, Caches
<1>4. busy[c] \subseteq Caches
  BY DEF CatalogInv, PanelTyped, BusyTyped
<1>5. \A x \in busy[c] : Ready(c, x) => Cache(x)' = Table(x)'
  BY <1>3, <1>4 DEF Ready
<1> QED BY <1>1, <1>2, <1>3, <1>5, WriteSafe

\* Before its statement a call has left the caches as the tables.
LEMMA StartsReady ==
  ASSUME NEW c, pc[c] \in Starts, NEW x, Ready(c, x)
  PROVE  Cache(x) = Table(x) /\ Checked(c, x)
  BY PlainPublishes DEF Ready, Unfetched, Starts

\* A call ends without having published anything.
LEMMA EndSafe ==
  ASSUME CatalogInv, NEW c \in Calls, pc[c] \in Starts, End(c),
         UNCHANGED <<tables, routeCaches, settingCache, keySnap, backup, suspect>>
  PROVE  CatalogInv'
<1>1. OnlyCall(c) /\ pc'[c] = "done" /\ busy'[c] = {}
  BY EndMoves DEF CatalogInv, PanelTyped
<1>2. Knows(c)' /\ BusyTyped(c)'
  BY <1>1 DEF Knows, BusyTyped, Refreshing
<1>3. /\ GroupsTyped' /\ ModelsTyped' /\ SettingsTyped'
      /\ nextId' \in Int /\ nextId' >= nextId /\ DOMAIN settings \subseteq DOMAIN settings'
      /\ \A x \in Caches : UNCHANGED <<Table(x), Cache(x)>>
  BY OnlyCalls DEF CatalogInv
<1>4. busy[c] \subseteq Caches
  BY DEF CatalogInv, PanelTyped, BusyTyped
<1>5. \A x \in busy[c] : Ready(c, x) => Cache(x)' = Table(x)'
  BY <1>3, <1>4, StartsReady
<1> QED BY <1>1, <1>2, <1>3, <1>5, WriteSafe

LEMMA StatementFailsSafe ==
  ASSUME CatalogInv, NEW c \in Calls, StatementFails(c)
  PROVE  CatalogInv'
  BY EndSafe DEF StatementFails, Statements, Starts, caches

LEMMA KeyWriteFailsSafe ==
  ASSUME CatalogInv, NEW c \in Calls, KeyWriteFails(c)
  PROVE  CatalogInv'
  BY EndSafe DEF KeyWriteFails, Starts

-----------------------------------------------------------------------------
(* Groups. *)

LEMMA ExceptPuts ==
  ASSUME NEW f, NEW id \in DOMAIN f, NEW row
  PROVE  [f EXCEPT ![id] = row] = Put(f, id, row)
<1> DEFINE e == [f EXCEPT ![id] = row]
           h == Put(f, id, row)
<1>1. DOMAIN e = DOMAIN f /\ e[id] = row /\ \A x \in DOMAIN f \ {id} : e[x] = f[x]
  OBVIOUS
<1>2. IsFun(e)
  BY DEF IsFun
<1>3. IsFun(h) /\ IsPut(h, f, id, row)
  BY Puts, Funs
<1> HIDE DEF e, h
<1>4. \A x \in DOMAIN e : e[x] = h[x]
  BY <1>1, <1>3 DEF IsPut
<1>5. DOMAIN e = DOMAIN h
  BY <1>1, <1>3 DEF IsPut
<1>6. e = h
  BY <1>2, <1>3, <1>4, <1>5, Extensional
<1> QED BY <1>6 DEF e, h

\* Ids that are given out.
Grows == nextId' \in Int /\ nextId' >= nextId
GivenOut(id) == id \in Int /\ id < nextId

LEMMA IdsTyped ==
  ASSUME CatalogInv
  PROVE  /\ nextId \in Int /\ nextId \notin DOMAIN groups /\ Unique(groups)
         /\ \A g \in DOMAIN groups : GivenOut(g)
         /\ \A m \in DOMAIN models : GivenOut(m)
<1>1. nextId \in Int /\ IdsBelow(groups, nextId) /\ IdsBelow(models, nextId) /\ Unique(groups)
  BY DEF CatalogInv, PanelTyped, GroupsTyped, ModelsTyped
<1> QED BY <1>1 DEF IdsBelow, GivenOut

LEMMA IdsGrow ==
  ASSUME CatalogInv, NEW k \in Nat, nextId' = nextId + k
  PROVE  Grows
  BY IdsTyped DEF Grows

LEMMA StillGivenOut ==
  ASSUME CatalogInv, Grows, NEW id, GivenOut(id)
  PROVE  GivenOut(id)'
  BY IdsTyped DEF Grows, GivenOut

LEMMA BusyNow ==
  ASSUME CatalogInv, NEW c \in Calls
  PROVE  BusyTyped(c) /\ Knows(c) /\ Functions
  BY DEF CatalogInv, PanelTyped

\* What a call relies on when its statement comes.
LEMMA Before ==
  ASSUME NEW c, pc[c] \in Starts
  PROVE  /\ Ready(c, "channels") => channelCache = channels
         /\ Ready(c, "models") => modelCache = models
         /\ Ready(c, "groups") => groupCache = groups
         /\ Ready(c, "names") => nameIndex = NamesOf(groups)
         /\ Ready(c, "settings") => settingCache = settings
         /\ Ready(c, "keys") => keySnap = keys
  BY StartsReady DEF Cache, Table

LEMMA NameChecked ==
  ASSUME CatalogInv, NEW c, pc[c] \in {"updateGroup", "deleteGroup"}, Checked(c, "names")
  PROVE  arg[c].on \in DOMAIN groups /\ groups[arg[c].on].name = arg[c].name
<1>1. Finds(NamesOf(groups), groups)
  BY IdsTyped, IndexFinds
<1> QED BY <1>1 DEF Checked, Finds

LEMMA WrittenIs ==
  ASSUME NEW g, NEW row, NEW n, NEW w, w = Written(g, row, n)
  PROVE  w.on = g /\ w.row = row /\ w.name = n
  BY DEF Written

\* No other group has the name of the row; the name that the index has to forget.
NameFree(g, row) == \A h \in DOMAIN groups \ {g} : groups[h].name # row.name
OldName(g, row) == IF g \in DOMAIN groups THEN groups[g].name ELSE row.name

\* A statement that writes the row of a group.
LEMMA GroupWriteSafe ==
  ASSUME CatalogInv, NEW c \in Calls, NEW g, NEW row, NEW n,
         pc[c] \in {"insertGroup", "updateGroup", "replaceItems"},
         Grows, GivenOut(g)',
         IsGroupRow(row), NameFree(g, row),
         groups' = Put(groups, g, row), Goto(c, "publishGroup", Written(g, row, n)),
         GroupTableUnchanged,
         Checked(c, "names") => n = OldName(g, row)
  PROVE  CatalogInv'
<1>1. /\ OnlyCall(c) /\ pc'[c] = "publishGroup" /\ busy'[c] = busy[c]
      /\ read'[c] = Written(g, row, n)
  BY BusyNow, GotoMoves
<1>0. busy[c] = {"groups", "names"}
  BY BusyNow DEF BusyTyped
<1>2. read'[c].on = g /\ read'[c].row = row /\ read'[c].name = n
  BY <1>1, WrittenIs
<1>3. Unique(groups)
  BY IdsTyped
<1>4. Unique(groups') /\ IsPut(groups', groups, g, row)
  <2>1. PICK m : m = OldName(g, row)
    OBVIOUS
  <2>2. Unique(Put(groups, g, row))
    BY <1>3, <2>1, NamesPut DEF NameFree, OldName
  <2> QED BY <2>2, Puts
<1>5. GroupsTyped'
  <2>1. \A h \in DOMAIN groups' : GivenOut(h)'
    BY <1>4, IdsTyped, StillGivenOut DEF IsPut
  <2>2. \A h \in DOMAIN groups' : IsGroupRow(groups'[h])
    BY <1>4 DEF IsPut, CatalogInv, PanelTyped, GroupsTyped
  <2> QED BY <1>4, <2>1, <2>2 DEF GroupsTyped, IdsBelow, GivenOut, IsGroupRow, Unique
<1>6. /\ ModelsTyped' /\ SettingsTyped' /\ DOMAIN settings \subseteq DOMAIN settings'
      /\ backup' = backup /\ suspect' = suspect
  BY TablesStay DEF GroupTableUnchanged, CatalogInv, Grows, caches, routeCaches
<1>7. Knows(c)' /\ BusyTyped(c)'
  BY <1>0, <1>1 DEF Knows, BusyTyped, Refreshing, Caches
<1>8. /\ UNCHANGED <<groupCache, nameIndex>>
      /\ \A x \in Caches \ busy[c] : UNCHANGED <<Table(x), Cache(x)>>
  BY <1>0 DEF Caches, Table, Cache, GroupTableUnchanged, caches, routeCaches
<1>9. Ready(c, "groups") => Ready(c, "groups")'
  <2>1. ASSUME Ready(c, "groups")
        PROVE  groupCache = groups
    BY <2>1, Before DEF Starts
  <2>2. Publishes(c, "groups")' = Put(groupCache', g, row)
    BY <1>1, <1>2 DEF Publishes
  <2> QED BY <1>1, <1>8, <2>1, <2>2 DEF Ready, Checked, Table
<1>10. Ready(c, "names") => Ready(c, "names")'
  <2> SUFFICES ASSUME Ready(c, "names")
               PROVE  Ready(c, "names")'
    OBVIOUS
  <2>1. nameIndex = NamesOf(groups) /\ Checked(c, "names")
    BY Before DEF Starts, Ready
  <2>2. Publishes(c, "names")' = Put(Without(nameIndex', {n}), row.name, g)
    BY <1>1, <1>2 DEF Publishes
  <2>3. NamesOf(Put(groups, g, row)) = Put(Without(NamesOf(groups), {n}), row.name, g)
    BY <1>3, <2>1, NamesPut DEF NameFree, OldName
  <2>4. Publishes(c, "names")' = Table("names")'
    BY <1>8, <2>1, <2>2, <2>3 DEF Table
  <2> QED BY <1>1, <2>4 DEF Ready, Checked
<1> QED BY <1>0, <1>1, <1>5, <1>6, <1>7, <1>8, <1>9, <1>10, WriteSafe DEF Grows

LEMMA InsertSafe ==
  ASSUME CatalogInv, NEW c \in Calls, pc[c] \in {"insertGroup", "replaceItems"},
         NEW name, NEW add, Len(add) \in Nat, Insert(c, name, add), GroupTableUnchanged
  PROVE  CatalogInv'
<1>1. PICK id, row : /\ id = nextId
                     /\ row = [name |-> name, active |-> 0, items |-> NewItems(add, nextId + 1)]
  OBVIOUS
<1>2. /\ IdOf(groups, name) = {} /\ groups' = Put(groups, id, row)
      /\ nextId' = nextId + 1 + Len(add)
      /\ Goto(c, "publishGroup", Written(id, row, name))
  BY <1>1 DEF Insert
<1>3. IsGroupRow(row) /\ row.name = name
  BY <1>1 DEF IsGroupRow
<1>4. NameFree(id, row)
  BY <1>2, <1>3 DEF IdOf, NameFree
<1>5. nextId \in Int /\ id \notin DOMAIN groups
  BY <1>1, IdsTyped
<1>6. Grows /\ GivenOut(id)'
  BY <1>1, <1>2, <1>5 DEF GivenOut, Grows
<1>7. name = OldName(id, row)
  BY <1>3, <1>5 DEF OldName
<1>8. pc[c] \in {"insertGroup", "updateGroup", "replaceItems"}
  OBVIOUS
<1> QED BY <1>2, <1>3, <1>4, <1>6, <1>7, <1>8, GroupWriteSafe

LEMMA InsertGroupSafe ==
  ASSUME CatalogInv, NEW c \in Calls, InsertGroup(c)
  PROVE  CatalogInv'
<1>1. Len(arg[c].add) \in Nat
  BY DEF InsertGroup, CatalogInv, PanelTyped, Knows
<1> QED BY <1>1, InsertSafe DEF InsertGroup

LEMMA UpdateGroupSafe ==
  ASSUME CatalogInv, NEW c \in Calls, UpdateGroup(c)
  PROVE  CatalogInv'
<1>1. PICK g, row : /\ g = arg[c].on /\ g \in DOMAIN groups
                    /\ IsGroupRow(row) /\ IdOf(groups, row.name) \subseteq {g}
                    /\ groups' = [groups EXCEPT ![g] = row]
                    /\ Goto(c, "publishGroup", Written(g, row, arg[c].name))
  BY DEF UpdateGroup, IsGroupRow
<1>2. /\ pc[c] = "updateGroup" /\ nextId' = nextId + Len(arg[c].edit.add)
      /\ GroupTableUnchanged
  BY DEF UpdateGroup
<1>3. Grows
  BY <1>2, BusyNow, IdsGrow DEF Knows
<1>7. GivenOut(g)'
  BY <1>1, <1>3, IdsTyped, StillGivenOut
<1>4. groups' = Put(groups, g, row)
  BY <1>1, ExceptPuts
<1>5. NameFree(g, row)
  BY <1>1 DEF IdOf, NameFree
<1>6. Checked(c, "names") => arg[c].name = groups[g].name
  BY <1>1, <1>2, NameChecked
<1>8. Checked(c, "names") => arg[c].name = OldName(g, row)
  BY <1>1, <1>6 DEF OldName
<1>9. pc[c] \in {"insertGroup", "updateGroup", "replaceItems"}
  BY <1>2
<1> QED BY <1>1, <1>2, <1>3, <1>4, <1>5, <1>7, <1>8, <1>9, GroupWriteSafe

LEMMA ReplaceItemsSafe ==
  ASSUME CatalogInv, NEW c \in Calls, ReplaceItems(c)
  PROVE  CatalogInv'
<1>1. Len(arg[c].add) \in Nat /\ pc[c] = "replaceItems" /\ GroupTableUnchanged
  BY DEF ReplaceItems, CatalogInv, PanelTyped, Knows
<1>2. CASE arg[c].name \notin DOMAIN nameIndex
  BY <1>1, <1>2, InsertSafe DEF ReplaceItems
<1>3. CASE arg[c].name \in DOMAIN nameIndex
  <2>1. PICK g, row : /\ g \in DOMAIN groups
                      /\ row = [groups[g] EXCEPT !.active = 0,
                                                 !.items = NewItems(arg[c].add, nextId)]
                      /\ groups' = [groups EXCEPT ![g] = row]
                      /\ nextId' = nextId + Len(arg[c].add)
                      /\ Goto(c, "publishGroup", Written(g, row, row.name))
    BY <1>3 DEF ReplaceItems
  <2>2. IsGroupRow(groups[g])
    BY <2>1 DEF CatalogInv, PanelTyped, GroupsTyped
  <2>3. IsGroupRow(row) /\ row.name = groups[g].name
    BY <2>1, <2>2 DEF IsGroupRow
  <2>4. Grows
    BY <1>1, <2>1, IdsGrow
  <2>7. GivenOut(g)'
    BY <2>1, <2>4, IdsTyped, StillGivenOut
  <2>5. groups' = Put(groups, g, row)
    BY <2>1, ExceptPuts
  <2>6. NameFree(g, row)
    BY <2>1, <2>3, IdsTyped DEF Unique, NameFree
  <2>8. row.name = OldName(g, row)
    BY <2>1, <2>3 DEF OldName
  <2>9. pc[c] \in {"insertGroup", "updateGroup", "replaceItems"}
    BY <1>1
  <2> QED BY <1>1, <2>1, <2>3, <2>4, <2>5, <2>6, <2>7, <2>8, <2>9, GroupWriteSafe
<1> QED BY <1>2, <1>3

LEMMA SetActiveSafe ==
  ASSUME CatalogInv, NEW c \in Calls, SetActive(c)
  PROVE  CatalogInv'
<1> DEFINE g == arg[c].on
<1>1. /\ pc[c] = "setActive" /\ GroupTableUnchanged /\ nextId' = nextId
      /\ groups' = [x \in DOMAIN groups |->
                      IF x = g THEN [groups[x] EXCEPT !.active = arg[c].row.active] ELSE groups[x]]
  BY DEF SetActive
<1>2. /\ OnlyCall(c) /\ pc'[c] = "publishActive" /\ busy'[c] = busy[c] /\ arg'[c] = arg[c]
  BY BusyNow, GotoMoves DEF SetActive
<1>3. busy[c] = {"groups"}
  BY <1>1, BusyNow DEF BusyTyped
<1>4. \A x \in DOMAIN groups : IsGroupRow(groups[x])
  BY DEF CatalogInv, PanelTyped, GroupsTyped
<1>5. /\ DOMAIN groups' = DOMAIN groups
      /\ \A x \in DOMAIN groups : groups'[x].name = groups[x].name /\ IsGroupRow(groups'[x])
  BY <1>1, <1>4 DEF IsGroupRow
<1>6. Unique(groups') /\ NamesOf(groups') = NamesOf(groups)
  BY <1>5, IdsTyped, NamesSame
<1>7. GroupsTyped'
  BY <1>1, <1>5, <1>6, IdsTyped DEF GroupsTyped, IdsBelow, GivenOut, IsGroupRow, Unique
<1>8. /\ ModelsTyped' /\ SettingsTyped' /\ DOMAIN settings \subseteq DOMAIN settings' /\ Grows
      /\ backup' = backup /\ suspect' = suspect
  BY <1>1, TablesStay, IdsTyped DEF GroupTableUnchanged, CatalogInv, Grows, caches, routeCaches
<1>9. Knows(c)' /\ BusyTyped(c)'
  BY <1>2, <1>3 DEF Knows, BusyTyped, Refreshing, Caches
<1>10. /\ groupCache' = groupCache
       /\ \A x \in Caches \ busy[c] : UNCHANGED <<Table(x), Cache(x)>>
  BY <1>1, <1>3, <1>6 DEF Caches, Table, Cache, GroupTableUnchanged, caches, routeCaches
<1>11. ASSUME Ready(c, "groups")
       PROVE  Ready(c, "groups")'
  <2>1. groupCache = groups /\ Checked(c, "groups")
    BY <1>1, <1>11, Before DEF Starts, Ready
  <2>2. g \in DOMAIN groups /\ arg[c].row = [groups[g] EXCEPT !.active = arg[c].row.active]
    BY <1>1, <2>1 DEF Checked
  <2>3. groups' = [groups EXCEPT ![g] = arg[c].row]
    BY <1>1, <2>2
  <2>4. groups' = Put(groups, g, arg[c].row)
    <3>1. PICK h, row : h = g /\ row = arg[c].row
      OBVIOUS
    <3>2. groups' = [groups EXCEPT ![h] = row] /\ h \in DOMAIN groups
      BY <2>2, <2>3, <3>1
    <3>3. groups' = Put(groups, h, row)
      BY <3>2, ExceptPuts
    <3> QED BY <3>1, <3>3
  <2>5. Publishes(c, "groups")' = Put(groupCache', arg'[c].on, arg'[c].row)
    BY <1>2 DEF Publishes
  <2> QED BY <1>2, <1>10, <2>1, <2>4, <2>5 DEF Ready, Checked, Table
<1> QED BY <1>2, <1>3, <1>7, <1>8, <1>9, <1>10, <1>11, WriteSafe DEF Grows

LEMMA DeleteGroupSafe ==
  ASSUME CatalogInv, NEW c \in Calls, DeleteGroup(c)
  PROVE  CatalogInv'
<1>1. PICK g, n : /\ g = arg[c].on /\ n = arg[c].name
                  /\ groups' = Without(groups, {g})
  BY DEF DeleteGroup
<1>0. pc[c] = "deleteGroup" /\ GroupTableUnchanged /\ nextId' = nextId
  BY DEF DeleteGroup
<1>2. OnlyCall(c) /\ pc'[c] = "forgetGroup" /\ busy'[c] = busy[c] /\ arg'[c] = arg[c]
  BY BusyNow, GotoMoves DEF DeleteGroup
<1>3. busy[c] = {"groups", "names"}
  BY <1>0, BusyNow DEF BusyTyped
<1>4. IsWithout(groups', groups, {g})
  BY <1>1, Withouts
<1>5. GroupsTyped'
  BY <1>0, <1>4 DEF IsWithout, CatalogInv, PanelTyped, GroupsTyped, IdsBelow, Unique, IsGroupRow
<1>6. /\ ModelsTyped' /\ SettingsTyped' /\ DOMAIN settings \subseteq DOMAIN settings' /\ Grows
      /\ backup' = backup /\ suspect' = suspect
  BY <1>0, TablesStay, IdsTyped DEF GroupTableUnchanged, CatalogInv, Grows, caches, routeCaches
<1>7. Knows(c)' /\ BusyTyped(c)'
  BY <1>2, <1>3 DEF Knows, BusyTyped, Refreshing, Caches
<1>8. /\ UNCHANGED <<groupCache, nameIndex>>
      /\ \A x \in Caches \ busy[c] : UNCHANGED <<Table(x), Cache(x)>>
  BY <1>0, <1>3 DEF Caches, Table, Cache, GroupTableUnchanged, caches, routeCaches
<1>9. Ready(c, "groups") => Ready(c, "groups")'
  <2>1. Ready(c, "groups") => groupCache = groups
    BY <1>0, Before DEF Starts
  <2>2. Publishes(c, "groups")' = Without(groupCache', {g})
    BY <1>1, <1>2 DEF Publishes
  <2> QED BY <1>1, <1>2, <1>8, <2>1, <2>2 DEF Ready, Checked, Table
<1>10. ASSUME Ready(c, "names")
       PROVE  Ready(c, "names")'
  <2>1. nameIndex = NamesOf(groups) /\ Checked(c, "names")
    BY <1>0, <1>10, Before DEF Starts, Ready
  <2>2. g \in DOMAIN groups /\ groups[g].name = n
    BY <1>0, <1>1, <2>1, NameChecked
  <2>3. NamesOf(Without(groups, {g})) = Without(NamesOf(groups), {n})
    BY <2>2, IdsTyped, NamesWithout
  <2>4. Publishes(c, "names")' = Without(nameIndex', {n})
    BY <1>1, <1>2 DEF Publishes
  <2>5. Publishes(c, "names")' = Table("names")'
    BY <1>1, <1>8, <2>1, <2>3, <2>4 DEF Table
  <2> QED BY <1>2, <2>5 DEF Ready, Checked
<1> QED BY <1>2, <1>3, <1>5, <1>6, <1>7, <1>8, <1>9, <1>10, WriteSafe DEF Grows

\* A call publishes all that it wrote, and ends.
LEMMA PublishesAll ==
  ASSUME CatalogInv, NEW c \in Calls, End(c), ModelRows(modelCache'),
         DOMAIN settingCache' \subseteq DOMAIN settings, UNCHANGED <<tables, backup, suspect>>,
         \A x \in Caches \ busy[c] : Cache(x)' = Cache(x),
         \A x \in busy[c] : ~Unfetched(c, x) /\ Cache(x)' = Publishes(c, x)
  PROVE  CatalogInv'
<1>1. OnlyCall(c) /\ pc'[c] = "done" /\ busy'[c] = {}
  BY EndMoves, BusyNow
<1>2. Knows(c)' /\ BusyTyped(c)'
  BY <1>1 DEF Knows, BusyTyped, Refreshing
<1> QED BY <1>1, <1>2, PublishSafe

\* What a publication leaves alone.
LEMMA CachesTyped ==
  ASSUME CatalogInv
  PROVE  /\ modelCache' = modelCache => ModelRows(modelCache')
         /\ settingCache' = settingCache => DOMAIN settingCache' \subseteq DOMAIN settings
  BY DEF CatalogInv, PanelTyped, ModelsTyped, SettingsTyped

LEMMA PublishGroupSafe ==
  ASSUME CatalogInv, NEW c \in Calls, PublishGroup(c)
  PROVE  CatalogInv'
<1>1. pc[c] = "publishGroup" /\ End(c) /\ UNCHANGED <<tables, backup, suspect>>
  BY DEF PublishGroup
<1>2. busy[c] = {"groups", "names"}
  BY <1>1, BusyNow DEF BusyTyped
<1>3. \A x \in Caches \ busy[c] : Cache(x)' = Cache(x)
  BY <1>2 DEF PublishGroup, Cache, Caches
<1>4. \A x \in busy[c] : ~Unfetched(c, x) /\ Cache(x)' = Publishes(c, x)
  BY <1>1, <1>2 DEF PublishGroup, Cache, Unfetched, Publishes
<1>5. ModelRows(modelCache') /\ DOMAIN settingCache' \subseteq DOMAIN settings
  BY CachesTyped DEF PublishGroup
<1> QED BY <1>1, <1>3, <1>4, <1>5, PublishesAll

LEMMA PublishActiveSafe ==
  ASSUME CatalogInv, NEW c \in Calls, PublishActive(c)
  PROVE  CatalogInv'
<1>1. pc[c] = "publishActive" /\ End(c) /\ UNCHANGED <<tables, backup, suspect>>
  BY DEF PublishActive
<1>2. busy[c] = {"groups"}
  BY <1>1, BusyNow DEF BusyTyped
<1>3. \A x \in Caches \ busy[c] : Cache(x)' = Cache(x)
  BY <1>2 DEF PublishActive, Cache, Caches
<1>4. \A x \in busy[c] : ~Unfetched(c, x) /\ Cache(x)' = Publishes(c, x)
  BY <1>1, <1>2 DEF PublishActive, Cache, Unfetched, Publishes
<1>5. ModelRows(modelCache') /\ DOMAIN settingCache' \subseteq DOMAIN settings
  BY CachesTyped DEF PublishActive
<1> QED BY <1>1, <1>3, <1>4, <1>5, PublishesAll

LEMMA ForgetGroupSafe ==
  ASSUME CatalogInv, NEW c \in Calls, ForgetGroup(c)
  PROVE  CatalogInv'
<1>1. pc[c] = "forgetGroup" /\ End(c) /\ UNCHANGED <<tables, backup, suspect>>
  BY DEF ForgetGroup
<1>2. busy[c] = {"groups", "names"}
  BY <1>1, BusyNow DEF BusyTyped
<1>3. \A x \in Caches \ busy[c] : Cache(x)' = Cache(x)
  BY <1>2 DEF ForgetGroup, Cache, Caches
<1>4. \A x \in busy[c] : ~Unfetched(c, x) /\ Cache(x)' = Publishes(c, x)
  BY <1>1, <1>2 DEF ForgetGroup, Cache, Unfetched, Publishes
<1>5. ModelRows(modelCache') /\ DOMAIN settingCache' \subseteq DOMAIN settings
  BY CachesTyped DEF ForgetGroup
<1> QED BY <1>1, <1>3, <1>4, <1>5, PublishesAll

-----------------------------------------------------------------------------
(* Settings. *)

LEMMA UpdateSettingSafe ==
  ASSUME CatalogInv, NEW c \in Calls, UpdateSetting(c)
  PROVE  CatalogInv'
<1>1. PICK k, v : /\ k = arg[c].key /\ v = arg[c].value /\ k \in DOMAIN settings
                  /\ settings' = [settings EXCEPT ![k] = v] /\ Goto(c, "publishSetting", v)
  BY DEF UpdateSetting
<1>2. /\ pc[c] = "setSetting" /\ UNCHANGED <<groups, models, nextId, caches, backup, suspect>>
      /\ UNCHANGED <<channels, keys>>
  BY DEF UpdateSetting
<1>3. /\ OnlyCall(c) /\ pc'[c] = "publishSetting" /\ busy'[c] = busy[c] /\ arg'[c] = arg[c]
      /\ read'[c] = v
  BY <1>1, BusyNow, GotoMoves
<1>4. busy[c] = {"settings"}
  BY <1>2, BusyNow DEF BusyTyped
<1>5. IsFun(settings') /\ DOMAIN settings' = DOMAIN settings /\ settings' = Put(settings, k, v)
  <2>1. settings' = Put(settings, k, v)
    BY <1>1, ExceptPuts
  <2>2. IsFun(Put(settings, k, v))
    BY Funs
  <2> QED BY <1>1, <2>1, <2>2
<1>6. GroupsTyped' /\ ModelsTyped' /\ Grows
  BY <1>2, TablesStay, IdsTyped DEF CatalogInv, Grows, caches, routeCaches
<1>7. SettingsTyped'
  BY <1>2, <1>5 DEF CatalogInv, PanelTyped, SettingsTyped, IsFun, caches
<1>8. Knows(c)' /\ BusyTyped(c)'
  BY <1>1, <1>3, <1>4, <1>5 DEF Knows, BusyTyped, Refreshing, Caches
<1>9. /\ settingCache' = settingCache
      /\ \A x \in Caches \ busy[c] : UNCHANGED <<Table(x), Cache(x)>>
  BY <1>2, <1>4 DEF Caches, Table, Cache, caches, routeCaches
<1>10. Ready(c, "settings") => Ready(c, "settings")'
  <2>1. Ready(c, "settings") => settingCache = settings
    BY <1>2, Before DEF Starts
  <2>2. Publishes(c, "settings")' = Put(settingCache', k, v)
    BY <1>1, <1>3 DEF Publishes
  <2> QED BY <1>3, <1>5, <1>9, <2>1, <2>2 DEF Ready, Checked, Table
<1> QED BY <1>2, <1>3, <1>4, <1>5, <1>6, <1>7, <1>8, <1>9, <1>10, WriteSafe DEF Grows

LEMMA LoadSettingSafe ==
  ASSUME CatalogInv, NEW c \in Calls, LoadSetting(c)
  PROVE  CatalogInv'
<1>1. PICK k, v : /\ k = arg[c].key /\ v = settings[k] /\ Goto(c, "publishSetting", v)
  BY DEF LoadSetting
<1>2. pc[c] = "loadSetting" /\ UNCHANGED <<tables, caches, backup, suspect>>
  BY DEF LoadSetting
<1>3. /\ OnlyCall(c) /\ pc'[c] = "publishSetting" /\ busy'[c] = busy[c] /\ arg'[c] = arg[c]
      /\ read'[c] = v
  BY <1>1, BusyNow, GotoMoves
<1>4. busy[c] = {"settings"} /\ k \in DOMAIN settings
  BY <1>1, <1>2, BusyNow DEF BusyTyped, Knows
<1>5. IsFun(settings)
  BY DEF CatalogInv, PanelTyped, SettingsTyped, IsFun
<1>6. settings = Put(settings, k, v)
  <2>1. PICK h : h = Put(settings, k, v) /\ IsFun(h) /\ IsPut(h, settings, k, v)
    BY Puts, Funs
  <2>2. DOMAIN h = DOMAIN settings /\ \A x \in DOMAIN settings : settings[x] = h[x]
    BY <1>1, <1>4, <2>1 DEF IsPut
  <2>3. settings = h
    BY <1>5, <2>1, <2>2, Extensional
  <2> QED BY <2>1, <2>3
<1>7. /\ GroupsTyped' /\ ModelsTyped' /\ SettingsTyped' /\ Grows
      /\ DOMAIN settings \subseteq DOMAIN settings'
      /\ \A x \in Caches : UNCHANGED <<Table(x), Cache(x)>>
  BY <1>2, OnlyCalls DEF CatalogInv, Grows, caches
<1>8. Knows(c)' /\ BusyTyped(c)'
  BY <1>1, <1>2, <1>3, <1>4 DEF Knows, BusyTyped, Refreshing, Caches, tables
<1>9. Ready(c, "settings") => Ready(c, "settings")'
  <2>1. Ready(c, "settings") => settingCache = settings
    BY <1>2, Before DEF Starts
  <2>2. Publishes(c, "settings")' = Put(settingCache', k, v)
    BY <1>1, <1>3 DEF Publishes
  <2>3. settings' = settings /\ settingCache' = settingCache
    BY <1>2 DEF tables, caches
  <2> QED BY <1>3, <1>6, <2>1, <2>2, <2>3 DEF Ready, Checked, Table
<1>10. backup' = backup /\ suspect' = suspect
  BY <1>2
<1> QED BY <1>3, <1>4, <1>7, <1>8, <1>9, <1>10, WriteSafe DEF Grows

LEMMA PublishSettingSafe ==
  ASSUME CatalogInv, NEW c \in Calls, PublishSetting(c)
  PROVE  CatalogInv'
<1>1. /\ pc[c] = "publishSetting" /\ End(c)
      /\ UNCHANGED <<tables, routeCaches, keySnap, backup, suspect>>
  BY DEF PublishSetting
<1>2. busy[c] = {"settings"} /\ arg[c].key \in DOMAIN settings
  BY <1>1, BusyNow DEF BusyTyped, Knows
<1>3. \A x \in Caches \ busy[c] : Cache(x)' = Cache(x)
  BY <1>1, <1>2 DEF routeCaches, Cache, Caches
<1>4. \A x \in busy[c] : ~Unfetched(c, x) /\ Cache(x)' = Publishes(c, x)
  BY <1>1, <1>2 DEF PublishSetting, Cache, Unfetched, Publishes
<1>5. DOMAIN settingCache' \subseteq DOMAIN settings
  <2>1. PICK h, k, v : h = settingCache' /\ h = Put(settingCache, k, v) /\ k = arg[c].key
    BY DEF PublishSetting
  <2>2. IsPut(h, settingCache, k, v)
    BY <2>1, Puts
  <2>3. DOMAIN h \subseteq DOMAIN settings
    BY <1>2, <2>1, <2>2 DEF IsPut, CatalogInv, PanelTyped, SettingsTyped
  <2> QED BY <2>1, <2>3
<1>6. ModelRows(modelCache')
  BY <1>1, CachesTyped DEF routeCaches
<1> QED BY <1>1, <1>3, <1>4, <1>5, <1>6, PublishesAll

-----------------------------------------------------------------------------
(* Keys. *)

LEMMA WriteKeysSafe ==
  ASSUME CatalogInv, NEW c \in Calls, WriteKeys(c)
  PROVE  CatalogInv'
<1>1. PICK id, s, rows :
         /\ s = arg[c].secret
         /\ id = IF arg[c].on \in DOMAIN keySnap THEN arg[c].on ELSE nextId
         /\ IF s = "deleted" THEN keys' = Without(keys, {id}) /\ rows = Without(keySnap, {id})
            ELSE keys' = Put(keys, id, s) /\ rows = Put(keySnap, id, s)
         /\ Goto(c, "publishKeys", rows)
  BY DEF WriteKeys
<1>2. /\ pc[c] = "writeKeys" /\ nextId' \in {nextId, nextId + 1}
      /\ UNCHANGED <<channels, models, groups, settings, caches, backup, suspect>>
  BY DEF WriteKeys
<1>3. /\ OnlyCall(c) /\ pc'[c] = "publishKeys" /\ busy'[c] = busy[c] /\ read'[c] = rows
  BY <1>1, BusyNow, GotoMoves
<1>4. busy[c] = {"keys"}
  BY <1>2, BusyNow DEF BusyTyped
<1>5. Grows
  BY <1>2, IdsTyped DEF Grows
<1>6. GroupsTyped' /\ ModelsTyped' /\ SettingsTyped' /\ DOMAIN settings \subseteq DOMAIN settings'
  BY <1>2, <1>5, TablesStay DEF CatalogInv, Grows, caches, routeCaches
<1>7. Knows(c)' /\ BusyTyped(c)'
  BY <1>3, <1>4 DEF Knows, BusyTyped, Refreshing, Caches
<1>8. /\ keySnap' = keySnap
      /\ \A x \in Caches \ busy[c] : UNCHANGED <<Table(x), Cache(x)>>
  BY <1>2, <1>4 DEF Caches, Table, Cache, caches, routeCaches
<1>9. Ready(c, "keys") => Ready(c, "keys")'
  <2>1. Ready(c, "keys") => keySnap = keys
    BY <1>2, Before DEF Starts
  <2>2. Publishes(c, "keys")' = rows
    BY <1>3 DEF Publishes
  <2>3. keySnap = keys => rows = keys'
    BY <1>1
  <2> QED BY <1>3, <2>1, <2>2, <2>3 DEF Ready, Checked, Table
<1> QED BY <1>2, <1>3, <1>4, <1>5, <1>6, <1>7, <1>8, <1>9, WriteSafe DEF Grows

LEMMA PublishKeysSafe ==
  ASSUME CatalogInv, NEW c \in Calls, PublishKeys(c)
  PROVE  CatalogInv'
<1>1. /\ pc[c] = "publishKeys" /\ End(c) /\ keySnap' = read[c]
      /\ UNCHANGED <<tables, routeCaches, settingCache, backup, suspect>>
  BY DEF PublishKeys
<1>2. \A x \in Caches \ {"keys"} : Cache(x)' = Cache(x) /\ Publishes(c, x) = Cache(x)
  BY <1>1 DEF routeCaches, Cache, Caches, Publishes
<1>3. Cache("keys")' = Publishes(c, "keys")
  BY <1>1 DEF Cache, Publishes
<1>4. busy[c] \subseteq Caches
  BY BusyNow DEF BusyTyped
<1>5. \A x \in busy[c] : ~Unfetched(c, x) /\ Cache(x)' = Publishes(c, x)
  <2>1. \A x \in busy[c] : ~Unfetched(c, x)
    BY <1>1 DEF Unfetched
  <2> QED BY <1>2, <1>3, <1>4, <2>1
<1>6. \A x \in Caches \ busy[c] : Cache(x)' = Cache(x)
  <2>1. "keys" \in busy[c]
    BY <1>1, BusyNow DEF BusyTyped, Caches
  <2> QED BY <1>2, <2>1
<1>7. ModelRows(modelCache') /\ DOMAIN settingCache' \subseteq DOMAIN settings
  BY <1>1, CachesTyped DEF routeCaches
<1> QED BY <1>1, <1>5, <1>6, <1>7, PublishesAll

-----------------------------------------------------------------------------
(* Channels. *)

LEMMA ReturnMoves ==
  ASSUME Functions, NEW c \in Calls, IsChange(arg[c]), Return(c)
  PROVE  /\ OnlyCall(c) /\ busy'[c] = {} /\ pc'[c] \in {"done", "fetch"}
         /\ pc'[c] = "fetch" => IsChange(arg'[c])
<1>1. CASE arg[c].todo = {}
  BY <1>1, EndMoves DEF Return
<1>2. CASE arg[c].todo # {}
  <2>1. /\ OnlyCall(c) /\ busy'[c] = {} /\ pc'[c] = "fetch"
        /\ arg'[c] = [arg[c] EXCEPT !.on = 0, !.edit = Nothing]
    BY <1>2 DEF Return, Functions, OnlyCall
  <2>2. IsChange(arg'[c])
    BY <2>1 DEF IsChange
  <2> QED BY <2>1, <2>2
<1> QED BY <1>1, <1>2

\* A change that wrote nothing ends, or goes on with the next channel.
LEMMA ReturnSafe ==
  ASSUME CatalogInv, NEW c \in Calls, pc[c] = "updateChannel", Return(c),
         UNCHANGED <<tables, caches, backup, suspect>>
  PROVE  CatalogInv'
<1>1. /\ OnlyCall(c) /\ busy'[c] = {} /\ pc'[c] \in {"done", "fetch"}
      /\ pc'[c] = "fetch" => IsChange(arg'[c])
  BY BusyNow, ReturnMoves DEF Knows
<1>2. Knows(c)' /\ BusyTyped(c)'
  BY <1>1 DEF Knows, BusyTyped, Refreshing, IsChange, ModelRows
<1>3. /\ GroupsTyped' /\ ModelsTyped' /\ SettingsTyped'
      /\ nextId' \in Int /\ nextId' >= nextId /\ DOMAIN settings \subseteq DOMAIN settings'
      /\ \A x \in Caches : UNCHANGED <<Table(x), Cache(x)>>
  BY OnlyCalls DEF CatalogInv, caches
<1>4. busy[c] \subseteq Caches
  BY BusyNow DEF BusyTyped
<1>5. \A x \in busy[c] : Ready(c, x) => Cache(x)' = Table(x)'
  BY <1>3, <1>4, StartsReady DEF Starts
<1> QED BY <1>1, <1>2, <1>3, <1>5, WriteSafe

LEMMA SetEnabledSafe ==
  ASSUME CatalogInv, NEW c \in Calls, SetEnabled(c)
  PROVE  CatalogInv'
<1>1. PICK on, flag : /\ on = arg[c].on /\ flag = arg[c].enabled
                      /\ channels' = [x \in DOMAIN channels |->
                                        IF x = on THEN [channels[x] EXCEPT !.enabled = flag]
                                        ELSE channels[x]]
  BY DEF SetEnabled
<1>2. /\ pc[c] = "setEnabled" /\ UNCHANGED <<models, groups, nextId>>
      /\ UNCHANGED <<settings, keys, caches, backup, suspect>>
  BY DEF SetEnabled, ChannelTablesOnly
<1>3. OnlyCall(c) /\ pc'[c] = "publishEnabled" /\ busy'[c] = busy[c] /\ arg'[c] = arg[c]
  BY BusyNow, GotoMoves DEF SetEnabled
<1>4. busy[c] = {"channels"}
  BY <1>2, BusyNow DEF BusyTyped
<1>5. /\ GroupsTyped' /\ ModelsTyped' /\ SettingsTyped' /\ Grows
      /\ DOMAIN settings \subseteq DOMAIN settings'
  BY <1>2, TablesStay, IdsTyped DEF CatalogInv, Grows, caches, routeCaches
<1>6. Knows(c)' /\ BusyTyped(c)'
  BY <1>3, <1>4 DEF Knows, BusyTyped, Refreshing, Caches
<1>7. /\ channelCache' = channelCache
      /\ \A x \in Caches \ busy[c] : UNCHANGED <<Table(x), Cache(x)>>
  BY <1>2, <1>4 DEF Caches, Table, Cache, caches, routeCaches
<1>8. Ready(c, "channels") => Ready(c, "channels")'
  <2>1. Ready(c, "channels") => channelCache = channels
    BY <1>2, Before DEF Starts
  <2>2. Publishes(c, "channels")' =
           [x \in DOMAIN channelCache' |->
               IF x = on THEN [channelCache'[x] EXCEPT !.enabled = flag] ELSE channelCache'[x]]
    BY <1>1, <1>3 DEF Publishes
  <2> QED BY <1>1, <1>3, <1>7, <2>1, <2>2 DEF Ready, Checked, Table
<1> QED BY <1>2, <1>3, <1>4, <1>5, <1>6, <1>7, <1>8, WriteSafe DEF Grows

LEMMA PublishEnabledSafe ==
  ASSUME CatalogInv, NEW c \in Calls, PublishEnabled(c)
  PROVE  CatalogInv'
<1>1. pc[c] = "publishEnabled" /\ End(c) /\ UNCHANGED <<tables, backup, suspect>>
  BY DEF PublishEnabled
<1>2. busy[c] = {"channels"}
  BY <1>1, BusyNow DEF BusyTyped
<1>3. \A x \in Caches \ busy[c] : Cache(x)' = Cache(x)
  BY <1>2 DEF PublishEnabled, Cache, Caches
<1>4. \A x \in busy[c] : ~Unfetched(c, x) /\ Cache(x)' = Publishes(c, x)
  BY <1>1, <1>2 DEF PublishEnabled, Cache, Unfetched, Publishes
<1>5. ModelRows(modelCache') /\ DOMAIN settingCache' \subseteq DOMAIN settings
  BY CachesTyped DEF PublishEnabled
<1> QED BY <1>1, <1>3, <1>4, <1>5, PublishesAll

\* Groups lose members and keep their names.
LEMMA ClearedTyped ==
  ASSUME CatalogInv, NEW gone, groups' = Cleared(gone), Grows
  PROVE  GroupsTyped'
<1>1. \A g \in DOMAIN groups : IsGroupRow(groups[g])
  BY DEF CatalogInv, PanelTyped, GroupsTyped
<1>2. PICK lost : groups' = [g \in DOMAIN groups |->
                     [groups[g] EXCEPT !.items = Without(@, lost),
                                       !.active = IF @ \in lost THEN 0 ELSE @]]
  BY DEF Cleared
<1>3. /\ DOMAIN groups' = DOMAIN groups
      /\ \A g \in DOMAIN groups : groups'[g].name = groups[g].name /\ IsGroupRow(groups'[g])
  <2>1. ASSUME NEW g \in DOMAIN groups
        PROVE  groups'[g].name = groups[g].name /\ IsGroupRow(groups'[g])
    <3>0. PICK items, active : /\ items = Without(groups[g].items, lost)
                               /\ active = IF groups[g].active \in lost THEN 0
                                           ELSE groups[g].active
      OBVIOUS
    <3>1. groups'[g] = [groups[g] EXCEPT !.items = items, !.active = active]
      BY <1>2, <3>0
    <3>2. groups[g] = [name |-> groups[g].name, active |-> groups[g].active,
                       items |-> groups[g].items]
      BY <1>1 DEF IsGroupRow
    <3>3. groups'[g] = [name |-> groups[g].name, active |-> active, items |-> items]
      BY <3>1, <3>2
    <3> QED BY <3>3 DEF IsGroupRow
  <2> QED BY <1>2, <2>1
<1>4. Unique(groups')
  BY <1>3, IdsTyped, NamesSame
<1>5. \A g \in DOMAIN groups' : GivenOut(g)'
  BY <1>3, IdsTyped, StillGivenOut
<1> QED BY <1>3, <1>4, <1>5 DEF GroupsTyped, IdsBelow, GivenOut, IsGroupRow, Unique

LEMMA DeleteChannelSafe ==
  ASSUME CatalogInv, NEW c \in Calls, DeleteChannel(c)
  PROVE  CatalogInv'
<1>1. PICK ch, gone :
         /\ ch = arg[c].on /\ channels' = Without(channels, {ch})
         /\ models' = Without(models, gone) /\ groups' = Cleared(gone)
         /\ Goto(c, "forgetChannel", gone)
  BY DEF DeleteChannel
<1>2. /\ pc[c] = "deleteChannel" /\ nextId' = nextId
      /\ UNCHANGED <<settings, keys, caches, backup, suspect>>
  BY DEF DeleteChannel, ChannelTablesOnly
<1>3. /\ OnlyCall(c) /\ pc'[c] = "forgetChannel" /\ busy'[c] = busy[c] /\ arg'[c] = arg[c]
      /\ read'[c] = gone
  BY <1>1, BusyNow, GotoMoves
<1>4. busy[c] = RouteCaches /\ IsChange(arg[c])
  BY <1>2, BusyNow DEF BusyTyped, Knows
<1>5. Grows
  BY <1>2, IdsTyped DEF Grows
<1>6. GroupsTyped'
  BY <1>1, <1>5, ClearedTyped
<1>7. ModelsTyped'
  <2>1. IsWithout(models', models, gone)
    BY <1>1, Withouts
  <2>2. modelCache' = modelCache
    BY <1>2 DEF caches, routeCaches
  <2>3. IdsBelow(models', nextId')
    BY <1>2, <2>1 DEF IsWithout, IdsBelow, CatalogInv, PanelTyped, ModelsTyped
  <2>4. ModelRows(models') /\ ModelRows(modelCache')
    BY <2>1, <2>2 DEF IsWithout, ModelRows, CatalogInv, PanelTyped, ModelsTyped
  <2> QED BY <2>3, <2>4 DEF ModelsTyped, IdsBelow, ModelRows
<1>8. SettingsTyped' /\ DOMAIN settings \subseteq DOMAIN settings'
  BY <1>2, <1>5, TablesStay DEF CatalogInv, Grows, caches
<1>9. Knows(c)' /\ BusyTyped(c)'
  BY <1>3, <1>4 DEF Knows, IsChange, ModelRows, BusyTyped, Refreshing, Caches, RouteCaches
<1>10. /\ UNCHANGED <<channelCache, modelCache>>
       /\ \A x \in Caches \ busy[c] : UNCHANGED <<Table(x), Cache(x)>>
  BY <1>2, <1>4 DEF Caches, RouteCaches, Table, Cache, caches, routeCaches
<1>11. Ready(c, "channels") => Ready(c, "channels")'
  <2>1. Ready(c, "channels") => channelCache = channels
    BY <1>2, Before DEF Starts
  <2>2. Publishes(c, "channels")' = Without(channelCache', {ch})
    BY <1>1, <1>3 DEF Publishes
  <2> QED BY <1>1, <1>3, <1>10, <2>1, <2>2 DEF Ready, Checked, Table
<1>12. Ready(c, "models") => Ready(c, "models")'
  <2>1. Ready(c, "models") => modelCache = models
    BY <1>2, Before DEF Starts
  <2>2. Publishes(c, "models")' = Without(modelCache', gone)
    BY <1>1, <1>3 DEF Publishes
  <2> QED BY <1>1, <1>3, <1>10, <2>1, <2>2 DEF Ready, Checked, Table
<1>13. \A x \in {"groups", "names"} : Ready(c, x)'
  BY <1>3 DEF Ready, Checked, Unfetched
<1>14. \A x \in busy[c] : Ready(c, x) => Ready(c, x)'
  BY <1>4, <1>11, <1>12, <1>13 DEF RouteCaches
<1> QED BY <1>2, <1>3, <1>5, <1>6, <1>7, <1>8, <1>9, <1>10, <1>14, WriteSafe DEF Grows

LEMMA ForgetChannelSafe ==
  ASSUME CatalogInv, NEW c \in Calls, ForgetChannel(c)
  PROVE  CatalogInv'
<1>1. /\ pc[c] = "forgetChannel"
      /\ UNCHANGED <<tables, groupCache, nameIndex, settingCache, keySnap, backup, suspect>>
  BY DEF ForgetChannel
<1>2. OnlyCall(c) /\ pc'[c] = "readGroups" /\ busy'[c] = busy[c] /\ arg'[c] = arg[c]
  BY BusyNow, GotoMoves DEF ForgetChannel
<1>3. busy[c] = RouteCaches /\ IsChange(arg[c])
  BY <1>1, BusyNow DEF BusyTyped, Knows
<1>4. Grows /\ SettingsTyped' /\ GroupsTyped' /\ DOMAIN settings \subseteq DOMAIN settings'
  BY <1>1, TablesStay, IdsTyped DEF CatalogInv, Grows, tables
<1>5. ModelsTyped'
  <2>1. PICK h, gone : h = modelCache' /\ h = Without(modelCache, gone)
    BY DEF ForgetChannel
  <2>2. IsWithout(h, modelCache, gone)
    BY <2>1, Withouts
  <2>3. ModelRows(h)
    BY <2>2 DEF IsWithout, ModelRows, CatalogInv, PanelTyped, ModelsTyped
  <2>4. UNCHANGED <<models, nextId>>
    BY <1>1 DEF tables
  <2> QED BY <2>1, <2>3, <2>4 DEF CatalogInv, PanelTyped, ModelsTyped, IdsBelow, ModelRows
<1>6. Knows(c)' /\ BusyTyped(c)'
  BY <1>2, <1>3 DEF Knows, IsChange, ModelRows, BusyTyped, Refreshing, Caches, RouteCaches
<1>7. \A x \in Caches \ busy[c] : UNCHANGED <<Table(x), Cache(x)>>
  BY <1>1, <1>3 DEF Caches, RouteCaches, Table, Cache, tables
<1>8. ASSUME NEW x \in {"channels", "models"}, Ready(c, x)
      PROVE  Ready(c, x)'
  <2>1. Publishes(c, x) = Table(x)
    BY <1>1, <1>8 DEF Ready, Unfetched
  <2>2. Cache(x)' = Publishes(c, x)
    BY <1>1 DEF ForgetChannel, Cache, Publishes
  <2>3. Publishes(c, x)' = Cache(x)'
    BY <1>2 DEF Publishes
  <2>4. Table(x)' = Table(x)
    BY <1>1 DEF Table, tables
  <2> QED BY <1>2, <2>1, <2>2, <2>3, <2>4 DEF Ready, Checked
<1>9. \A x \in {"groups", "names"} : Ready(c, x)'
  BY <1>2 DEF Ready, Checked, Unfetched
<1>10. \A x \in busy[c] : Ready(c, x) => Ready(c, x)'
  BY <1>3, <1>8, <1>9 DEF RouteCaches
<1> QED BY <1>1, <1>2, <1>4, <1>5, <1>6, <1>7, <1>10, WriteSafe DEF Grows

\* Groups that are read again: what is wrong of them is mended, unless another call writes them.
LEMMA ReadGroupsSafe ==
  ASSUME CatalogInv, NEW c \in Calls, NEW here, NEW next, ReadGroups(c, here, next),
         <<here, next>> \in {<<"readGroups", "storeGroups">>, <<"readAllGroups", "storeAllGroups">>}
  PROVE  CatalogInv'
<1> DEFINE xs == {"groups", "names"}
<1>1. /\ pc[c] = here /\ UNCHANGED <<tables, caches, backup>>
      /\ suspect' = suspect \ (xs \ Spoils(Shared(c, xs)))
  BY DEF ReadGroups, Reread
<1>2. /\ OnlyCall(c) /\ pc'[c] = next /\ busy'[c] = busy[c] /\ arg'[c] = arg[c]
      /\ read'[c] = groups
  BY BusyNow, GotoMoves DEF ReadGroups
<1>3. BusyTyped(c) /\ Knows(c) /\ xs \subseteq busy[c] /\ busy[c] \subseteq Caches
  BY <1>1, BusyNow DEF BusyTyped, Refreshing, RouteCaches, Caches
<1>4. /\ GroupsTyped' /\ ModelsTyped' /\ SettingsTyped' /\ Grows
      /\ DOMAIN settings \subseteq DOMAIN settings'
      /\ \A x \in Caches : UNCHANGED <<Table(x), Cache(x)>>
  BY <1>1, OnlyCalls DEF CatalogInv, Grows, caches
<1>5. Knows(c)' /\ BusyTyped(c)'
  BY <1>1, <1>2, <1>3 DEF Knows, IsChange, ModelRows, BusyTyped, Refreshing, RouteCaches, Caches
<1>6. NamesSuspect'
  BY <1>1 DEF CatalogInv, NamesSuspect, Spoils
<1>7. \A x \in Caches \ suspect' :
         x \in suspect => x \in xs /\ \A d \in Calls \ {c} : x \notin busy[d]
  BY <1>1 DEF Spoils, Shared
<1>8. ASSUME NEW x \in xs
      PROVE  Ready(c, x)'
  <2>1. Publishes(c, x)' = Table(x)'
    BY <1>1, <1>2 DEF Publishes, Table, tables
  <2> QED BY <1>2, <2>1 DEF Ready, Checked
<1>9. ASSUME NEW x \in busy[c] \ xs, Ready(c, x)
      PROVE  Ready(c, x)'
  <2>1. Publishes(c, x) = Cache(x) /\ Publishes(c, x)' = Cache(x)'
    BY <1>1, <1>2 DEF Publishes
  <2>2. Unfetched(c, x) => Unfetched(c, x)'
    BY <1>1, <1>2 DEF Unfetched
  <2> QED BY <1>2, <1>3, <1>4, <1>9, <2>1, <2>2 DEF Ready, Checked
<1>10. \A x \in busy[c] \ suspect' : x \in xs \/ Ready(c, x) => Ready(c, x)'
  BY <1>8, <1>9
<1> HIDE DEF xs
<1>11. backup' = backup /\ busy'[c] \subseteq busy[c] /\ xs \in SUBSET busy[c]
  BY <1>1, <1>2, <1>3
<1> QED BY <1>2, <1>4, <1>5, <1>6, <1>7, <1>10, <1>11, StepSafe DEF Grows

\* They are stored, and the call goes on or ends.
LEMMA StoreGroupsSafe ==
  ASSUME CatalogInv, NEW c \in Calls, NEW here \in {"storeGroups", "storeAllGroups"},
         StoreGroups(c, here), OnlyCall(c), Knows(c)', BusyTyped(c)', busy'[c] \in {busy[c], {}},
         pc'[c] \in {"done", "fetch", "readKeys"}, busy'[c] = {} <=> here = "storeGroups"
  PROVE  CatalogInv'
<1>1. /\ pc[c] = here
      /\ UNCHANGED <<tables, channelCache, modelCache, settingCache, keySnap, backup, suspect>>
  BY DEF StoreGroups
<1>2. {"groups", "names"} \subseteq busy[c] /\ busy[c] \subseteq Caches
  BY <1>1, BusyNow DEF BusyTyped, Refreshing, RouteCaches, Caches
<1>3. Grows /\ SettingsTyped' /\ GroupsTyped' /\ ModelsTyped' /\ DOMAIN settings \subseteq DOMAIN settings'
  BY <1>1, TablesStay, IdsTyped DEF CatalogInv, Grows, tables
<1>4. \A x \in Caches \ busy[c] : UNCHANGED <<Table(x), Cache(x)>>
  BY <1>1, <1>2 DEF Caches, Table, Cache, tables
<1>5. ASSUME NEW x \in busy[c], Ready(c, x)
      PROVE  IF x \in busy'[c] THEN Ready(c, x)' ELSE Cache(x)' = Table(x)'
  <2>1. Cache(x)' = Publishes(c, x)
    BY <1>1, <1>2 DEF StoreGroups, Cache, Publishes, Caches
  <2>2. Table(x)' = Table(x)
    BY <1>1, <1>2 DEF Table, tables, Caches
  <2>3. Publishes(c, x)' = Cache(x)'
    BY DEF Publishes
  <2>4. Unfetched(c, x) => x \in busy'[c] /\ Unfetched(c, x)'
    <3>1. SUFFICES ASSUME Unfetched(c, x)
                   PROVE  x \in busy'[c] /\ Unfetched(c, x)'
      OBVIOUS
    <3>2. here = "storeAllGroups" /\ x = "keys"
      BY <1>1, <3>1 DEF Unfetched
    <3>3. busy'[c] = busy[c]
      BY <3>2
    <3>4. busy'[c] # {}
      BY <3>2
    <3>5. pc'[c] = "readKeys"
      BY <3>4 DEF BusyTyped
    <3> QED BY <3>2, <3>3, <3>5 DEF Unfetched
  <2> QED BY <1>5, <2>1, <2>2, <2>3, <2>4 DEF Ready, Checked
<1> QED BY <1>1, <1>3, <1>4, <1>5, WriteSafe DEF Grows

LEMMA GroupsRefreshedSafe ==
  ASSUME CatalogInv, NEW c \in Calls, GroupsRefreshed(c)
  PROVE  CatalogInv'
<1>1. pc[c] = "storeGroups" /\ StoreGroups(c, "storeGroups") /\ Return(c)
  BY DEF GroupsRefreshed, StoreGroups
<1>2. /\ OnlyCall(c) /\ busy'[c] = {} /\ pc'[c] \in {"done", "fetch"}
      /\ pc'[c] = "fetch" => IsChange(arg'[c])
  BY <1>1, BusyNow, ReturnMoves DEF Knows
<1>3. Knows(c)' /\ BusyTyped(c)'
  BY <1>2 DEF Knows, BusyTyped, Refreshing, IsChange, ModelRows
<1> QED BY <1>1, <1>2, <1>3, StoreGroupsSafe

LEMMA StoreAllGroupsSafe ==
  ASSUME CatalogInv, NEW c \in Calls, StoreAllGroups(c)
  PROVE  CatalogInv'
<1>1. pc[c] = "storeAllGroups" /\ StoreGroups(c, "storeAllGroups")
  BY DEF StoreAllGroups, StoreGroups
<1>2. OnlyCall(c) /\ pc'[c] = "readKeys" /\ busy'[c] = busy[c]
  BY BusyNow, GotoMoves DEF StoreAllGroups
<1>3. busy[c] = Caches
  BY <1>1, BusyNow DEF BusyTyped, Refreshing
<1>4. Knows(c)' /\ BusyTyped(c)' /\ busy[c] # {}
  BY <1>2, <1>3 DEF Knows, BusyTyped, Refreshing, Caches
<1> QED BY <1>1, <1>2, <1>4, StoreGroupsSafe

\* What is left unread when a refresh ends early is suspect.
LEMMA GivesUpSafe ==
  ASSUME CatalogInv, NEW c \in Calls, OnlyCall(c), busy'[c] = {}, Knows(c)', BusyTyped(c)',
         NEW xs \in SUBSET Caches, Tangle(xs), UNCHANGED <<tables, caches, backup>>,
         \A x \in busy[c] \ xs : ~Unfetched(c, x) /\ Publishes(c, x) = Cache(x)
  PROVE  CatalogInv'
<1>1. /\ GroupsTyped' /\ ModelsTyped' /\ SettingsTyped' /\ Grows
      /\ DOMAIN settings \subseteq DOMAIN settings'
      /\ \A x \in Caches : UNCHANGED <<Table(x), Cache(x)>>
  BY OnlyCalls DEF CatalogInv, Grows, caches
<1>2. NamesSuspect'
  BY NamesStaySuspect DEF CatalogInv
<1>3. PICK fresh \in SUBSET busy[c] : fresh = {}
  OBVIOUS
<1>4. xs \subseteq suspect' /\ suspect \subseteq suspect'
  BY DEF Tangle, Spoils
<1>5. busy[c] \subseteq Caches
  BY BusyNow DEF BusyTyped
<1>6. \A x \in busy[c] \ suspect' : Ready(c, x) => Cache(x)' = Table(x)'
  BY <1>1, <1>4, <1>5 DEF Ready
<1>7. \A x \in Caches \ suspect' :
         x \in suspect => x \in fresh /\ \A d \in Calls \ {c} : x \notin busy[d]
  BY <1>4
<1>8. \A x \in busy[c] \ suspect' :
         x \in fresh \/ Ready(c, x) => IF x \in busy'[c] THEN Ready(c, x)'
                                       ELSE Cache(x)' = Table(x)'
  BY <1>3, <1>6
<1> QED BY <1>1, <1>2, <1>7, <1>8, StepSafe DEF Grows

LEMMA GroupsNotRefreshedSafe ==
  ASSUME CatalogInv, NEW c \in Calls, GroupsNotRefreshed(c)
  PROVE  CatalogInv'
<1>1. /\ pc[c] = "readGroups" /\ Tangle({"groups", "names"}) /\ Return(c)
      /\ UNCHANGED <<tables, caches, backup>>
  BY DEF GroupsNotRefreshed
<1>2. /\ OnlyCall(c) /\ busy'[c] = {} /\ pc'[c] \in {"done", "fetch"}
      /\ pc'[c] = "fetch" => IsChange(arg'[c])
  BY <1>1, BusyNow, ReturnMoves DEF Knows
<1>3. Knows(c)' /\ BusyTyped(c)'
  BY <1>2 DEF Knows, BusyTyped, Refreshing, IsChange, ModelRows
<1>4. \A x \in busy[c] \ {"groups", "names"} : ~Unfetched(c, x) /\ Publishes(c, x) = Cache(x)
  BY <1>1 DEF Unfetched, Publishes
<1>5. {"groups", "names"} \in SUBSET Caches
  BY DEF Caches
<1> QED BY <1>1, <1>2, <1>3, <1>4, <1>5, GivesUpSafe

LEMMA InitCacheFailsSafe ==
  ASSUME CatalogInv, NEW c \in Calls, InitCacheFails(c)
  PROVE  CatalogInv'
<1>1. /\ pc[c] \in {"readSettings", "readChannels", "readAllGroups", "readKeys"}
      /\ Tangle(Unread[pc[c]]) /\ End(c) /\ UNCHANGED <<tables, caches, backup>>
  BY DEF InitCacheFails, Unread
<1>2. OnlyCall(c) /\ pc'[c] = "done" /\ busy'[c] = {}
  BY <1>1, EndMoves, BusyNow
<1>3. Knows(c)' /\ BusyTyped(c)'
  BY <1>2 DEF Knows, BusyTyped, Refreshing
<1>4. PICK xs : xs = Unread[pc[c]]
  OBVIOUS
<1>5. xs = CASE pc[c] = "readSettings" -> Caches
             [] pc[c] = "readChannels" -> Caches \ {"settings"}
             [] pc[c] = "readAllGroups" -> {"groups", "names", "keys"}
             [] pc[c] = "readKeys" -> {"keys"}
  BY <1>1, <1>4 DEF Unread
<1>6. xs \in SUBSET Caches
  BY <1>1, <1>5 DEF Caches
<1>7. busy[c] \subseteq Caches
  BY BusyNow DEF BusyTyped
<1>8. \A x \in busy[c] \ xs : ~Unfetched(c, x) /\ Publishes(c, x) = Cache(x)
  BY <1>1, <1>5, <1>7 DEF Unfetched, Publishes, Caches
<1> QED BY <1>1, <1>2, <1>3, <1>4, <1>6, <1>8, GivesUpSafe

-----------------------------------------------------------------------------
(* The import of a backup, and the caches read again. *)

\* xs are read again, in a refresh of all caches.
LEMMA RereadSafe ==
  ASSUME CatalogInv, NEW c \in Calls, OnlyCall(c), busy[c] = Caches, busy'[c] = Caches,
         Knows(c)', BusyTyped(c)', backup' = backup, NEW xs \in SUBSET Caches,
         Reread(c, xs), "names" \in xs => "groups" \in xs,
         Grows, DOMAIN settings \subseteq DOMAIN settings',
         GroupsTyped', ModelsTyped', SettingsTyped',
         \A x \in xs : Ready(c, x)', \A x \in Caches \ xs : Ready(c, x) => Ready(c, x)'
  PROVE  CatalogInv'
<1>1. NamesSuspect'
  BY NamesStaySuspect DEF CatalogInv
<1>2. \A x \in Caches \ suspect' :
         x \in suspect => x \in xs /\ \A d \in Calls \ {c} : x \notin busy[d]
  BY DEF Reread, Spoils, Shared
<1>3. \A x \in busy[c] \ suspect' :
         x \in xs \/ Ready(c, x) => IF x \in busy'[c] THEN Ready(c, x)'
                                    ELSE Cache(x)' = Table(x)'
  OBVIOUS
<1> QED BY <1>1, <1>2, <1>3, StepSafe DEF Grows

LEMMA ReadSettingsSafe ==
  ASSUME CatalogInv, NEW c \in Calls, ReadSettings(c)
  PROVE  CatalogInv'
<1>1. PICK rows : settings' = rows /\ rows = Over(settings, Defaults) /\ Goto(c, "storeSettings", rows)
  BY DEF ReadSettings
<1>2. /\ pc[c] = "readSettings" /\ Reread(c, {"settings"})
      /\ UNCHANGED <<channels, models, groups, keys, nextId, caches, backup>>
  BY DEF ReadSettings
<1>3. OnlyCall(c) /\ pc'[c] = "storeSettings" /\ busy'[c] = busy[c] /\ read'[c] = rows
  BY <1>1, BusyNow, GotoMoves
<1>4. busy[c] = Caches
  BY <1>2, BusyNow DEF BusyTyped, Refreshing
<1>5. IsFun(rows)
  BY <1>1, Funs
<1>6. DOMAIN rows = DOMAIN settings \cup DOMAIN Defaults
  BY <1>1, Overs DEF IsOver
<1>7. SettingsTyped' /\ DOMAIN settings \subseteq DOMAIN settings'
  BY <1>1, <1>2, <1>5, <1>6 DEF CatalogInv, PanelTyped, SettingsTyped, IsFun, caches
<1>8. GroupsTyped' /\ ModelsTyped' /\ Grows
  BY <1>2, TablesStay, IdsTyped DEF CatalogInv, Grows, caches, routeCaches
<1>9. Knows(c)' /\ BusyTyped(c)'
  BY <1>1, <1>3, <1>4 DEF Knows, BusyTyped, Refreshing, Caches
<1>10. Ready(c, "settings")'
  <2>1. Publishes(c, "settings")' = Over(rows, settingCache')
    BY <1>3 DEF Publishes
  <2>2. PICK h, old : h = Over(rows, old) /\ old = settingCache'
    OBVIOUS
  <2>3. IsFun(h) /\ IsOver(h, rows, old)
    BY <2>2, Funs, Overs
  <2>4. DOMAIN old \subseteq DOMAIN rows
    BY <1>1, <1>7, <2>2 DEF SettingsTyped
  <2>5. h = rows
    <3>1. DOMAIN h = DOMAIN rows /\ \A x \in DOMAIN h : h[x] = rows[x]
      BY <2>3, <2>4 DEF IsOver
    <3> QED BY <1>5, <2>3, <3>1, Extensional
  <2> QED BY <1>1, <1>3, <2>1, <2>2, <2>5 DEF Ready, Checked, Table
<1>11. \A x \in Caches \ {"settings"} : Ready(c, x)'
  BY <1>3 DEF Ready, Checked, Unfetched
<1>12. {"settings"} \in SUBSET Caches /\ backup' = backup
  BY <1>2 DEF Caches
<1> QED BY <1>2, <1>3, <1>4, <1>7, <1>8, <1>9, <1>10, <1>11, <1>12, RereadSafe

LEMMA ReadChannelsSafe ==
  ASSUME CatalogInv, NEW c \in Calls, ReadChannels(c)
  PROVE  CatalogInv'
<1>1. PICK rows : rows.channels = channels /\ rows.models = models /\ Goto(c, "storeChannels", rows)
  <2> DEFINE both == [channels |-> channels, models |-> models]
  <2>1. both.channels = channels /\ both.models = models
    OBVIOUS
  <2>2. Goto(c, "storeChannels", both)
    BY DEF ReadChannels
  <2> HIDE DEF both
  <2> QED BY <2>1, <2>2
<1>2. /\ pc[c] = "readChannels" /\ Reread(c, {"channels", "models"})
      /\ UNCHANGED <<tables, caches, backup>>
  BY DEF ReadChannels
<1>3. OnlyCall(c) /\ pc'[c] = "storeChannels" /\ busy'[c] = busy[c] /\ read'[c] = rows
  BY <1>1, BusyNow, GotoMoves
<1>4. busy[c] = Caches
  BY <1>2, BusyNow DEF BusyTyped, Refreshing
<1>5. /\ GroupsTyped' /\ ModelsTyped' /\ SettingsTyped' /\ Grows
      /\ DOMAIN settings \subseteq DOMAIN settings'
      /\ \A x \in Caches : UNCHANGED <<Table(x), Cache(x)>>
  BY <1>2, OnlyCalls DEF CatalogInv, Grows, caches
<1>6. ModelRows(rows.models)
  BY <1>1 DEF CatalogInv, PanelTyped, ModelsTyped
<1>7. Knows(c)' /\ BusyTyped(c)'
  BY <1>3, <1>4, <1>6 DEF Knows, ModelRows, BusyTyped, Refreshing, Caches
<1>8. \A x \in {"channels", "models"} : Ready(c, x)'
  <2>1. UNCHANGED <<channels, models>>
    BY <1>2 DEF tables
  <2>2. /\ Publishes(c, "channels")' = rows.channels /\ Publishes(c, "models")' = rows.models
    BY <1>3 DEF Publishes
  <2> QED BY <1>1, <1>3, <2>1, <2>2 DEF Ready, Checked, Table
<1>9. \A x \in {"groups", "names", "keys"} : Ready(c, x)'
  BY <1>3 DEF Ready, Checked, Unfetched
<1>10. Ready(c, "settings") => Ready(c, "settings")'
  <2>1. Publishes(c, "settings") = Cache("settings") /\ Publishes(c, "settings")' = Cache("settings")'
    BY <1>2, <1>3 DEF Publishes
  <2>2. ~Unfetched(c, "settings")
    BY <1>2 DEF Unfetched
  <2> QED BY <1>3, <1>5, <2>1, <2>2 DEF Ready, Checked, Caches
<1>11. \A x \in Caches \ {"channels", "models"} : Ready(c, x) => Ready(c, x)'
  BY <1>9, <1>10 DEF Caches
<1>12. {"channels", "models"} \in SUBSET Caches /\ backup' = backup
  BY <1>2 DEF Caches
<1> QED BY <1>2, <1>3, <1>4, <1>5, <1>7, <1>8, <1>11, <1>12, RereadSafe

LEMMA ReadKeysSafe ==
  ASSUME CatalogInv, NEW c \in Calls, ReadKeys(c)
  PROVE  CatalogInv'
<1>1. /\ pc[c] = "readKeys" /\ Reread(c, {"keys"})
      /\ UNCHANGED <<tables, routeCaches, settingCache, keySnap, backup>>
  BY DEF ReadKeys
<1>2. OnlyCall(c) /\ pc'[c] = "publishKeys" /\ busy'[c] = busy[c] /\ read'[c] = keys
  BY BusyNow, GotoMoves DEF ReadKeys
<1>3. busy[c] = Caches
  BY <1>1, BusyNow DEF BusyTyped, Refreshing
<1>4. /\ GroupsTyped' /\ ModelsTyped' /\ SettingsTyped' /\ Grows
      /\ DOMAIN settings \subseteq DOMAIN settings'
      /\ \A x \in Caches : UNCHANGED <<Table(x), Cache(x)>>
  BY <1>1, OnlyCalls DEF CatalogInv, Grows
<1>5. Knows(c)' /\ BusyTyped(c)'
  BY <1>2, <1>3 DEF Knows, BusyTyped, Refreshing, Caches
<1>6. Ready(c, "keys")'
  <2>1. Publishes(c, "keys")' = keys /\ keys' = keys
    BY <1>1, <1>2 DEF Publishes, tables
  <2> QED BY <1>2, <2>1 DEF Ready, Checked, Table
<1>7. ASSUME NEW x \in Caches \ {"keys"}, Ready(c, x)
      PROVE  Ready(c, x)'
  <2>1. Publishes(c, x) = Cache(x) /\ Publishes(c, x)' = Cache(x)' /\ ~Unfetched(c, x)
    BY <1>1, <1>2 DEF Publishes, Unfetched
  <2> QED BY <1>2, <1>4, <1>7, <2>1 DEF Ready, Checked
<1>8. {"keys"} \in SUBSET Caches /\ backup' = backup
  BY <1>1 DEF Caches
<1> QED BY <1>1, <1>2, <1>3, <1>4, <1>5, <1>6, <1>7, <1>8, RereadSafe

LEMMA StoreSettingsSafe ==
  ASSUME CatalogInv, NEW c \in Calls, StoreSettings(c)
  PROVE  CatalogInv'
<1>1. /\ pc[c] = "storeSettings" /\ settingCache' = Over(read[c], settingCache)
      /\ UNCHANGED <<tables, routeCaches, keySnap, backup, suspect>>
  BY DEF StoreSettings
<1>2. OnlyCall(c) /\ pc'[c] = "readChannels" /\ busy'[c] = busy[c]
  BY BusyNow, GotoMoves DEF StoreSettings
<1>3. busy[c] = Caches
  BY <1>1, BusyNow DEF BusyTyped, Refreshing
<1>4. Grows /\ GroupsTyped' /\ ModelsTyped' /\ DOMAIN settings \subseteq DOMAIN settings'
  BY <1>1, TablesStay, IdsTyped DEF CatalogInv, Grows, tables, routeCaches
<1>5. SettingsTyped'
  <2>1. PICK h, rows : h = settingCache' /\ rows = read[c] /\ IsOver(h, rows, settingCache)
    BY <1>1, Overs
  <2>2. DOMAIN rows \subseteq DOMAIN settings
    BY <1>1, <2>1, BusyNow DEF Knows
  <2>3. DOMAIN h \subseteq DOMAIN settings
    BY <2>1, <2>2 DEF IsOver, CatalogInv, PanelTyped, SettingsTyped
  <2> QED BY <1>1, <2>1, <2>3 DEF CatalogInv, PanelTyped, SettingsTyped, tables
<1>6. Knows(c)' /\ BusyTyped(c)'
  BY <1>2, <1>3 DEF Knows, BusyTyped, Refreshing, Caches
<1>7. Ready(c, "settings") => Ready(c, "settings")'
  <2>1. Cache("settings")' = Publishes(c, "settings") /\ ~Unfetched(c, "settings")
    BY <1>1 DEF Cache, Publishes, Unfetched
  <2>2. Publishes(c, "settings")' = Cache("settings")' /\ Table("settings")' = Table("settings")
    BY <1>1, <1>2 DEF Publishes, Table, tables
  <2> QED BY <1>2, <2>1, <2>2 DEF Ready, Checked
<1>8. \A x \in Caches \ {"settings"} : Ready(c, x)'
  BY <1>2 DEF Ready, Checked, Unfetched
<1>9. \A x \in busy[c] : Ready(c, x) => Ready(c, x)'
  BY <1>3, <1>7, <1>8
<1> QED BY <1>1, <1>2, <1>3, <1>4, <1>5, <1>6, <1>9, WriteSafe DEF Grows

LEMMA StoreChannelsSafe ==
  ASSUME CatalogInv, NEW c \in Calls, StoreChannels(c)
  PROVE  CatalogInv'
<1>1. /\ pc[c] = "storeChannels" /\ channelCache' = read[c].channels /\ modelCache' = read[c].models
      /\ UNCHANGED <<tables, groupCache, nameIndex, settingCache, keySnap, backup, suspect>>
  BY DEF StoreChannels
<1>2. OnlyCall(c) /\ pc'[c] = "readAllGroups" /\ busy'[c] = busy[c]
  BY BusyNow, GotoMoves DEF StoreChannels
<1>3. busy[c] = Caches /\ ModelRows(read[c].models)
  BY <1>1, BusyNow DEF BusyTyped, Refreshing, Knows
<1>4. Grows /\ GroupsTyped' /\ SettingsTyped' /\ DOMAIN settings \subseteq DOMAIN settings'
  BY <1>1, TablesStay, IdsTyped DEF CatalogInv, Grows, tables
<1>5. ModelsTyped'
  BY <1>1, <1>3 DEF CatalogInv, PanelTyped, ModelsTyped, IdsBelow, ModelRows, tables
<1>6. Knows(c)' /\ BusyTyped(c)'
  BY <1>2, <1>3 DEF Knows, BusyTyped, Refreshing, Caches
<1>7. ASSUME NEW x \in {"channels", "models", "settings"}, Ready(c, x)
      PROVE  Ready(c, x)'
  <2>1. Cache(x)' = Publishes(c, x) /\ ~Unfetched(c, x)
    BY <1>1 DEF Cache, Publishes, Unfetched
  <2>2. Publishes(c, x)' = Cache(x)' /\ Table(x)' = Table(x)
    BY <1>1, <1>2 DEF Publishes, Table, tables
  <2> QED BY <1>2, <1>7, <2>1, <2>2 DEF Ready, Checked
<1>8. \A x \in {"groups", "names", "keys"} : Ready(c, x)'
  BY <1>2 DEF Ready, Checked, Unfetched
<1>9. \A x \in busy[c] : Ready(c, x) => Ready(c, x)'
  BY <1>3, <1>7, <1>8 DEF Caches
<1> QED BY <1>1, <1>2, <1>3, <1>4, <1>5, <1>6, <1>9, WriteSafe DEF Grows

-----------------------------------------------------------------------------
(* Channels that are created. *)

LEMMA OverRows ==
  ASSUME NEW f, NEW g, ModelRows(f), ModelRows(g)
  PROVE  ModelRows(Over(f, g))
<1>1. PICK h : h = Over(f, g) /\ IsOver(h, f, g)
  BY Overs
<1>2. ModelRows(h)
  BY <1>1 DEF IsOver, ModelRows
<1> QED BY <1>1, <1>2

\* Models that a statement adds, or writes in the place of others.
LEMMA ModelsWritten ==
  ASSUME CatalogInv, Grows, NEW added, NEW kept, ModelRows(added), ModelRows(kept),
         \A m \in DOMAIN added : GivenOut(m)', DOMAIN kept \subseteq DOMAIN models,
         models' = Over(added, kept), modelCache' = modelCache
  PROVE  ModelsTyped'
<1>1. PICK after : after = models' /\ IsOver(after, added, kept) /\ ModelRows(after)
  BY Overs, OverRows
<1>2. \A m \in DOMAIN after : GivenOut(m)'
  BY <1>1, IdsTyped, StillGivenOut DEF IsOver
<1>3. ModelRows(modelCache)
  BY DEF CatalogInv, PanelTyped, ModelsTyped
<1> QED BY <1>1, <1>2, <1>3 DEF ModelsTyped, IdsBelow, GivenOut, ModelRows

\* The first block of a text, and what is left of it.
LEMMA TextBlocks ==
  ASSUME NEW r, IsText(r)
  PROVE  /\ Head(r.text).models \in Seq(ModelNames)
         /\ Len(r.text) # 1 => IsText([r EXCEPT !.text = Tail(@)])
<1>1. PICK text : text = r.text /\ text \in Seq(Blocks) /\ text # <<>> /\ r = [text |-> text]
  BY DEF IsText
<1>3. Head(text) \in Blocks
  BY <1>1, HeadTailProperties
<1>4. \A block \in Blocks : block.models \in Seq(ModelNames)
  BY CatalogAssumption DEF Blocks
<1>5. Len(text) # 1 => Tail(text) \in Seq(Blocks) /\ Tail(text) # <<>>
  <2>1. PICK rest : rest = Tail(text)
    OBVIOUS
  <2>2. rest \in Seq(Blocks) /\ Len(rest) = Len(text) - 1 /\ Len(text) \in Nat
    BY <1>1, <2>1, HeadTailProperties, LenProperties
  <2>3. Len(text) # 1 => rest # <<>>
    BY <2>2, EmptySeq
  <2> QED BY <2>1, <2>2, <2>3
<1>6. PICK rest : rest = Tail(text)
  OBVIOUS
<1>7. [r EXCEPT !.text = Tail(@)] = [text |-> rest]
  <2>1. r = [text |-> text]
    BY <1>1
  <2>2. [r EXCEPT !.text = rest] = [text |-> rest]
    BY <2>1
  <2> QED BY <1>1, <1>6, <2>2
<1>8. Len(text) # 1 => IsText([text |-> rest])
  BY <1>5, <1>6 DEF IsText
<1> QED BY <1>1, <1>3, <1>4, <1>7, <1>8

LEMMA NextBlockMoves ==
  ASSUME Functions, NEW c \in Calls, IsText(arg[c]), busy[c] = {"channels", "models"}, NextBlock(c)
  PROVE  /\ OnlyCall(c) /\ Knows(c)' /\ BusyTyped(c)'
         /\ \/ pc'[c] = "done" /\ busy'[c] = {}
            \/ pc'[c] = "insertChannel" /\ busy'[c] = busy[c]
<1>1. CASE Len(arg[c].text) = 1
  <2>1. OnlyCall(c) /\ pc'[c] = "done" /\ busy'[c] = {}
    BY <1>1, EndMoves DEF NextBlock
  <2> QED BY <2>1 DEF Knows, BusyTyped, Refreshing
<1>2. CASE Len(arg[c].text) # 1
  <2>1. /\ OnlyCall(c) /\ pc'[c] = "insertChannel" /\ busy'[c] = busy[c]
        /\ arg'[c] = [arg[c] EXCEPT !.text = Tail(@)]
    BY <1>2 DEF NextBlock, Functions, OnlyCall
  <2>2. IsText(arg'[c])
    BY <1>2, <2>1, TextBlocks
  <2> QED BY <2>1, <2>2 DEF Knows, IsText, BusyTyped, Refreshing, Caches
<1> QED BY <1>1, <1>2

\* Rows of a table, and their publication.
LEMMA AddedModels ==
  ASSUME NEW names \in Seq(ModelNames), NEW first \in Int, NEW ch, NEW added,
         added = [m \in first + 1 .. first + Len(names) |->
                    [channel |-> ch, name |-> names[m - first], source |-> "manual"]]
  PROVE  /\ ModelRows(added)
         /\ \A m \in DOMAIN added : m \in Int /\ first < m /\ m < first + 1 + Len(names)
<1>1. Len(names) \in Nat
  OBVIOUS
<1>2. ASSUME NEW m \in DOMAIN added
      PROVE  IsModelRow(added[m]) /\ m \in Int /\ first < m /\ m < first + 1 + Len(names)
  <2>1. m \in first + 1 .. first + Len(names)
    BY <1>2
  <2>2. m \in Int /\ first < m /\ m < first + 1 + Len(names) /\ m - first \in 1 .. Len(names)
    BY <1>1, <2>1
  <2>3. PICK n : n = names[m - first] /\ n \in ModelNames
    BY <2>2
  <2>4. added[m] = [channel |-> ch, name |-> n, source |-> "manual"]
    BY <2>1, <2>3
  <2>5. IsModelRow([channel |-> ch, name |-> n, source |-> "manual"])
    BY <2>3 DEF IsModelRow
  <2> QED BY <2>2, <2>4, <2>5
<1> QED BY <1>2 DEF ModelRows

LEMMA ChannelCreateSafe ==
  ASSUME CatalogInv, NEW c \in Calls, ChannelCreate(c)
  PROVE  CatalogInv'
<1>1. /\ pc[c] = "insertChannel" /\ groups' = groups
      /\ UNCHANGED <<settings, keys, caches, backup, suspect>>
  BY DEF ChannelCreate, ChannelTablesOnly
<1>2. busy[c] = {"channels", "models"} /\ IsText(arg[c])
  BY <1>1, BusyNow DEF BusyTyped, Knows
<1>3. CASE NextBlock(c) /\ UNCHANGED <<channels, models, nextId>>
  <2>1. /\ OnlyCall(c) /\ Knows(c)' /\ BusyTyped(c)' /\ busy'[c] \subseteq busy[c]
        /\ \/ busy'[c] = {}
           \/ pc'[c] = "insertChannel"
    BY <1>2, <1>3, NextBlockMoves, BusyNow
  <2>2. /\ GroupsTyped' /\ ModelsTyped' /\ SettingsTyped'
        /\ nextId' \in Int /\ nextId' >= nextId /\ DOMAIN settings \subseteq DOMAIN settings'
        /\ \A x \in Caches : UNCHANGED <<Table(x), Cache(x)>>
    BY <1>1, <1>3, OnlyCalls DEF CatalogInv, tables, caches
  <2>3. ASSUME NEW x \in busy[c], Ready(c, x)
        PROVE  IF x \in busy'[c] THEN Ready(c, x)' ELSE Cache(x)' = Table(x)'
    <3>1. Cache(x) = Table(x) /\ x \in Caches
      BY <1>1, <1>2, <2>3, StartsReady DEF Starts, Caches
    <3>2. Cache(x)' = Table(x)'
      BY <2>2, <3>1
    <3>3. x \in busy'[c] => Publishes(c, x)' = Cache(x)' /\ Checked(c, x)'
      BY <2>1 DEF Publishes, Checked
    <3> QED BY <3>2, <3>3 DEF Ready
  <2>4. backup' = backup /\ suspect' = suspect
    BY <1>1
  <2> QED BY <2>1, <2>2, <2>3, <2>4, WriteSafe
<1>4. CASE ~(NextBlock(c) /\ UNCHANGED <<channels, models, nextId>>)
  <2>1. PICK names, id, row, added :
           /\ names = Head(arg[c].text).models /\ id = nextId
           /\ added = [m \in id + 1 .. id + Len(names) |->
                         [channel |-> id, name |-> names[m - id], source |-> "manual"]]
           /\ channels' = Put(channels, id, row) /\ models' = Over(added, models)
           /\ nextId' = nextId + 1 + Len(names)
           /\ Goto(c, "publishNew", [on |-> id, row |-> row, models |-> added])
    BY <1>4 DEF ChannelCreate
  <2>2. /\ names \in Seq(ModelNames) /\ Len(names) \in Nat
        /\ id \in Int /\ nextId = id /\ nextId' = id + 1 + Len(names)
    <3>1. PICK r : r = arg[c] /\ IsText(r)
      BY <1>2
    <3>2. names \in Seq(ModelNames)
      BY <2>1, <3>1, TextBlocks
    <3> QED BY <2>1, <3>2, IdsTyped, LenProperties
  <2>3. ModelRows(added) /\ \A m \in DOMAIN added : GivenOut(m)'
    <3>1. added = [m \in id + 1 .. id + Len(names) |->
                     [channel |-> id, name |-> names[m - id], source |-> "manual"]]
      BY <2>1
    <3>2. /\ ModelRows(added)
          /\ \A m \in DOMAIN added : m \in Int /\ id < m /\ m < id + 1 + Len(names)
      BY <2>2, <3>1, AddedModels
    <3> QED BY <2>2, <3>2 DEF GivenOut
  <2>4. Grows
    BY <2>2 DEF Grows
  <2>5. /\ OnlyCall(c) /\ pc'[c] = "publishNew" /\ busy'[c] = busy[c] /\ arg'[c] = arg[c]
        /\ read'[c].on = id /\ read'[c].row = row /\ read'[c].models = added
    <3>1. PICK w : w = [on |-> id, row |-> row, models |-> added]
      OBVIOUS
    <3>2. w.on = id /\ w.row = row /\ w.models = added
      BY <3>1
    <3>3. Goto(c, "publishNew", w)
      BY <2>1, <3>1
    <3> QED BY <3>2, <3>3, GotoMoves, BusyNow
  <2>6. ModelsTyped'
    <3>1. modelCache' = modelCache /\ ModelRows(models)
      BY <1>1 DEF caches, routeCaches, CatalogInv, PanelTyped, ModelsTyped
    <3> QED BY <2>1, <2>3, <2>4, <3>1, ModelsWritten
  <2>7. GroupsTyped' /\ SettingsTyped' /\ DOMAIN settings \subseteq DOMAIN settings'
    BY <1>1, <2>4, TablesStay DEF CatalogInv, Grows, caches
  <2>8. Knows(c)' /\ BusyTyped(c)'
    BY <1>2, <2>3, <2>5 DEF Knows, IsText, ModelRows, BusyTyped, Refreshing, Caches
  <2>9. /\ UNCHANGED <<channelCache, modelCache>>
        /\ \A x \in Caches \ busy[c] : UNCHANGED <<Table(x), Cache(x)>>
    BY <1>1, <1>2 DEF Caches, Table, Cache, caches, routeCaches
  <2>10. Ready(c, "channels") => Ready(c, "channels")'
    <3>1. Ready(c, "channels") => channelCache = channels
      BY <1>1, Before DEF Starts
    <3>2. Publishes(c, "channels")' = Put(channelCache', id, row)
      BY <2>5 DEF Publishes
    <3> QED BY <2>1, <2>5, <2>9, <3>1, <3>2 DEF Ready, Checked, Table
  <2>11. Ready(c, "models") => Ready(c, "models")'
    <3>1. Ready(c, "models") => modelCache = models
      BY <1>1, Before DEF Starts
    <3>2. Publishes(c, "models")' = Over(added, modelCache')
      BY <2>5 DEF Publishes
    <3> QED BY <2>1, <2>5, <2>9, <3>1, <3>2 DEF Ready, Checked, Table
  <2>12. backup' = backup /\ suspect' = suspect
    BY <1>1
  <2>13. \A x \in busy[c] : Ready(c, x) => Ready(c, x)'
    BY <1>2, <2>10, <2>11
  <2> QED BY <2>4, <2>5, <2>6, <2>7, <2>8, <2>9, <2>12, <2>13, WriteSafe DEF Grows
<1> QED BY <1>3, <1>4

LEMMA PublishNewSafe ==
  ASSUME CatalogInv, NEW c \in Calls, PublishNew(c)
  PROVE  CatalogInv'
<1>1. /\ pc[c] = "publishNew" /\ NextBlock(c)
      /\ UNCHANGED <<tables, groupCache, nameIndex, settingCache, keySnap, backup, suspect>>
  BY DEF PublishNew
<1>2. busy[c] = {"channels", "models"} /\ IsText(arg[c]) /\ ModelRows(read[c].models)
  BY <1>1, BusyNow DEF BusyTyped, Knows
<1>3. /\ OnlyCall(c) /\ Knows(c)' /\ BusyTyped(c)' /\ busy'[c] \subseteq busy[c]
      /\ busy'[c] = {} \/ pc'[c] = "insertChannel"
  BY <1>1, <1>2, NextBlockMoves, BusyNow
<1>4. Grows /\ SettingsTyped' /\ GroupsTyped' /\ DOMAIN settings \subseteq DOMAIN settings'
  BY <1>1, TablesStay, IdsTyped DEF CatalogInv, Grows, tables
<1>5. ModelsTyped'
  <2>1. PICK h, rows : h = modelCache' /\ h = Over(rows, modelCache) /\ rows = read[c].models
    BY DEF PublishNew
  <2>2. ModelRows(h)
    BY <1>2, <2>1, OverRows DEF CatalogInv, PanelTyped, ModelsTyped
  <2>3. UNCHANGED <<models, nextId>>
    BY <1>1 DEF tables
  <2> QED BY <2>1, <2>2, <2>3 DEF CatalogInv, PanelTyped, ModelsTyped, IdsBelow, ModelRows
<1>6. \A x \in Caches \ busy[c] : UNCHANGED <<Table(x), Cache(x)>>
  BY <1>1, <1>2 DEF Caches, Table, Cache, tables
<1>7. ASSUME NEW x \in busy[c], Ready(c, x)
      PROVE  IF x \in busy'[c] THEN Ready(c, x)' ELSE Cache(x)' = Table(x)'
  <2>1. Publishes(c, x) = Table(x) /\ Cache(x)' = Publishes(c, x)
    BY <1>1, <1>2, <1>7 DEF Ready, Unfetched, PublishNew, Cache, Publishes
  <2>2. Table(x)' = Table(x)
    BY <1>1, <1>2 DEF Table, tables
  <2>3. x \in busy'[c] => Publishes(c, x)' = Cache(x)' /\ Checked(c, x)'
    BY <1>3 DEF Publishes, Checked
  <2> QED BY <2>1, <2>2, <2>3 DEF Ready
<1> QED BY <1>1, <1>3, <1>4, <1>5, <1>6, <1>7, WriteSafe DEF Grows

-----------------------------------------------------------------------------
(* Changes of a channel. *)

\* What is wanted of a channel is what its upstream offers and what was added by hand.
LEMMA WantedKnown ==
  ASSUME NEW seen, ModelRows(seen), NEW offer \in Offers, NEW ms \in SUBSET DOMAIN seen
  PROVE  offer \cup {seen[m].name : m \in ms} \subseteq ModelNames
<1>1. offer \subseteq ModelNames
  BY DEF ModelNames
<1>2. \A m \in ms : seen[m].name \in ModelNames
  BY DEF ModelRows, IsModelRow
<1> QED BY <1>1, <1>2

\* A run of the synchronisation goes on to write the change e of the channel ch.
Fetches(c, ch, rest, e) ==
    /\ e.changes = {"models"} /\ DOMAIN e.models \subseteq ModelNames
    /\ arg' = [arg EXCEPT ![c] = [rest EXCEPT !.on = ch, !.edit = e]]
    /\ pc' = [pc EXCEPT ![c] = "updateChannel"]
    /\ Touch(c, RouteCaches)
    /\ UNCHANGED read

LEMMA FetchModelsSafe ==
  ASSUME CatalogInv, NEW c \in Calls, FetchModels(c)
  PROVE  CatalogInv'
<1>1. pc[c] = "fetch" /\ UNCHANGED <<tables, caches, backup>>
  BY DEF FetchModels
<1>2. busy[c] = {} /\ IsChange(arg[c])
  BY <1>1, BusyNow DEF BusyTyped, Knows
<1>3. PICK ch, rest :
         /\ rest = [arg[c] EXCEPT !.todo = @ \ {ch}]
         /\ \/ \E e : Fetches(c, ch, rest, e)
            \/ End(c) /\ UNCHANGED suspect
            \/ arg' = [arg EXCEPT ![c] = rest] /\ UNCHANGED <<pc, read, busy, suspect>>
  <2>1. PICK ch \in arg[c].todo :
          LET seen == arg[c].seen
              NamesBy(source) == {seen[m].name : m \in {x \in ModelsOf(seen, ch) : seen[x].source = source}}
              rest == [arg[c] EXCEPT !.todo = @ \ {ch}]
          IN  \/ \E offer \in Offers :
                    LET auto == offer \ NamesBy("manual")
                        wanted == [n \in auto \cup NamesBy("manual") |->
                                      IF n \in auto THEN "auto" ELSE "manual"]
                    IN  /\ arg' = [arg EXCEPT ![c] = [rest EXCEPT !.on = ch, !.edit =
                                      [changes |-> {"models"}, kept |-> {}, fresh |-> {},
                                       models |-> wanted]]]
                        /\ pc' = [pc EXCEPT ![c] = "updateChannel"]
                        /\ Touch(c, RouteCaches)
                        /\ UNCHANGED read
              \/ /\ IF rest.todo = {} THEN End(c)
                    ELSE arg' = [arg EXCEPT ![c] = rest] /\ UNCHANGED <<pc, read, busy>>
                 /\ UNCHANGED suspect
    BY DEF FetchModels
  <2> DEFINE seen == arg[c].seen
             NamesBy(source) == {seen[m].name : m \in {x \in ModelsOf(seen, ch) : seen[x].source = source}}
             rest == [arg[c] EXCEPT !.todo = @ \ {ch}]
             ms == {x \in ModelsOf(seen, ch) : seen[x].source = "manual"}
  <2>2. CASE \E offer \in Offers :
                LET auto == offer \ NamesBy("manual")
                    wanted == [n \in auto \cup NamesBy("manual") |->
                                  IF n \in auto THEN "auto" ELSE "manual"]
                IN  /\ arg' = [arg EXCEPT ![c] = [rest EXCEPT !.on = ch, !.edit =
                                  [changes |-> {"models"}, kept |-> {}, fresh |-> {},
                                   models |-> wanted]]]
                    /\ pc' = [pc EXCEPT ![c] = "updateChannel"]
                    /\ Touch(c, RouteCaches)
                    /\ UNCHANGED read
    <3>1. PICK offer \in Offers :
             LET auto == offer \ NamesBy("manual")
                 wanted == [n \in auto \cup NamesBy("manual") |->
                               IF n \in auto THEN "auto" ELSE "manual"]
             IN  /\ arg' = [arg EXCEPT ![c] = [rest EXCEPT !.on = ch, !.edit =
                               [changes |-> {"models"}, kept |-> {}, fresh |-> {},
                                models |-> wanted]]]
                 /\ pc' = [pc EXCEPT ![c] = "updateChannel"]
                 /\ Touch(c, RouteCaches)
                 /\ UNCHANGED read
      BY <2>2
    <3>2. PICK wanted : wanted = [n \in (offer \ NamesBy("manual")) \cup NamesBy("manual") |->
                                    IF n \in offer \ NamesBy("manual") THEN "auto" ELSE "manual"]
      OBVIOUS
    <3>3. PICK e : e = [changes |-> {"models"}, kept |-> {}, fresh |-> {}, models |-> wanted]
      OBVIOUS
    <3>4. e.changes = {"models"} /\ e.models = wanted
      BY <3>3
    <3>5. ms \in SUBSET DOMAIN seen /\ NamesBy("manual") = {seen[m].name : m \in ms}
      BY DEF ModelsOf
    <3>6. DOMAIN e.models \subseteq ModelNames
      <4>1. DOMAIN e.models \subseteq offer \cup {seen[m].name : m \in ms}
        BY <3>2, <3>4, <3>5
      <4>2. ModelRows(seen)
        BY <1>2 DEF IsChange
      <4> QED BY <3>5, <4>1, <4>2, WantedKnown
    <3>7. /\ arg' = [arg EXCEPT ![c] = [rest EXCEPT !.on = ch, !.edit = e]]
          /\ pc' = [pc EXCEPT ![c] = "updateChannel"] /\ Touch(c, RouteCaches) /\ UNCHANGED read
      BY <3>1, <3>2, <3>3
    <3>8. Fetches(c, ch, rest, e)
      BY <3>4, <3>6, <3>7 DEF Fetches
    <3> QED BY <3>8
  <2>3. CASE /\ IF rest.todo = {} THEN End(c)
                ELSE arg' = [arg EXCEPT ![c] = rest] /\ UNCHANGED <<pc, read, busy>>
             /\ UNCHANGED suspect
    BY <2>3
  <2> QED BY <2>1, <2>2, <2>3
<1>4. rest.on = arg[c].on /\ IsChange(rest)
  BY <1>2, <1>3 DEF IsChange
<1>5. CASE \E e : Fetches(c, ch, rest, e)
  <2>1. PICK e : Fetches(c, ch, rest, e)
    BY <1>5
  <2>2. e.changes = {"models"} /\ DOMAIN e.models \subseteq ModelNames
    BY <2>1 DEF Fetches
  <2>3. PICK r : r = [rest EXCEPT !.on = ch, !.edit = e]
    OBVIOUS
  <2>4. r.edit = e /\ IsChange(r)
    BY <1>4, <2>3 DEF IsChange
  <2>5. /\ OnlyCall(c) /\ pc'[c] = "updateChannel" /\ arg'[c] = r /\ busy'[c] = RouteCaches
        /\ suspect' = suspect \cup Spoils(Shared(c, RouteCaches))
    BY <2>1, <2>3, BusyNow DEF Fetches, Functions, OnlyCall, Touch, Tangle
  <2>6. Knows(c)' /\ BusyTyped(c)'
    BY <2>2, <2>4, <2>5 DEF Knows, IsChange, ModelRows, BusyTyped, Refreshing, Caches, RouteCaches
  <2>7. /\ RouteCaches \in SUBSET Caches
        /\ pc'[c] \in Starts \ {"updateGroup", "deleteGroup", "setActive"}
    BY <2>5 DEF Caches, RouteCaches, Starts
  <2> QED BY <1>1, <1>2, <2>5, <2>6, <2>7, TouchSafe DEF caches
<1>6. CASE End(c) /\ UNCHANGED suspect
  BY <1>1, <1>6, EndSafe DEF Starts, caches
<1>7. CASE arg' = [arg EXCEPT ![c] = rest] /\ UNCHANGED <<pc, read, busy, suspect>>
  <2>1. OnlyCall(c) /\ pc'[c] = "fetch" /\ busy'[c] = {} /\ arg'[c] = rest
    BY <1>1, <1>2, <1>7, BusyNow DEF Functions, OnlyCall
  <2>2. Knows(c)' /\ BusyTyped(c)'
    BY <1>4, <2>1 DEF Knows, IsChange, ModelRows, BusyTyped, Refreshing
  <2>3. /\ GroupsTyped' /\ ModelsTyped' /\ SettingsTyped'
        /\ nextId' \in Int /\ nextId' >= nextId /\ DOMAIN settings \subseteq DOMAIN settings'
        /\ \A x \in Caches : UNCHANGED <<Table(x), Cache(x)>>
    BY <1>1, OnlyCalls DEF CatalogInv, caches
  <2>4. backup' = backup /\ suspect' = suspect
    BY <1>1, <1>7
  <2> QED BY <1>2, <2>1, <2>2, <2>3, <2>4, WriteSafe
<1> QED BY <1>3, <1>5, <1>6, <1>7

\* The models of a channel as a change publishes them are rows.
LEMMA PublishedRows ==
  ASSUME NEW c, ModelRows(read[c].models), ModelRows(modelCache)
  PROVE  ModelRows(ModelsPublished(c))
<1> DEFINE now == read[c].models
           ch == arg[c].on
           stays == {x \in ModelsOf(modelCache, ch) : x \in DOMAIN now}
           stay == [m \in stays |-> [modelCache[m] EXCEPT !.source = now[m].source]]
           rest == Without(modelCache, ModelsOf(modelCache, ch))
<1>1. ModelRows(stay)
  <2>1. ASSUME NEW m \in stays
        PROVE  IsModelRow(stay[m])
    <3>1. PICK r, source : /\ r = modelCache[m] /\ source = now[m].source /\ IsModelRow(r)
                           /\ stay[m] = [r EXCEPT !.source = source]
      BY DEF ModelsOf, ModelRows
    <3>2. r = [channel |-> r.channel, name |-> r.name, source |-> r.source]
      BY <3>1 DEF IsModelRow
    <3>3. [r EXCEPT !.source = source] = [channel |-> r.channel, name |-> r.name, source |-> source]
      BY <3>2
    <3> QED BY <3>1, <3>3 DEF IsModelRow
  <2> QED BY <2>1 DEF ModelRows
<1>2. ModelRows(rest)
  <2>1. IsWithout(rest, modelCache, ModelsOf(modelCache, ch))
    BY Withouts
  <2> HIDE DEF rest
  <2> QED BY <2>1 DEF IsWithout, ModelRows
<1>3. ModelsPublished(c) = Over(stay, Over(now, rest))
  BY DEF ModelsPublished
<1> HIDE DEF stay, rest, now
<1>4. ModelRows(now)
  BY DEF now
<1>5. ModelRows(Over(now, rest))
  BY <1>2, <1>4, OverRows
<1> QED BY <1>1, <1>3, <1>5, OverRows

LEMMA PublishChannelSafe ==
  ASSUME CatalogInv, NEW c \in Calls, PublishChannel(c)
  PROVE  CatalogInv'
<1>1. /\ pc[c] = "publishChannel" /\ channelCache' = Put(channelCache, arg[c].on, read[c].row)
      /\ UNCHANGED <<tables, groupCache, nameIndex, settingCache, keySnap, backup, suspect>>
  BY DEF PublishChannel
<1>2. BusyTyped(c) /\ IsChange(arg[c]) /\ ModelRows(read[c].models)
  BY <1>1, BusyNow DEF Knows
<1>3. Cache("channels")' = Publishes(c, "channels")
  BY <1>1 DEF Cache, Publishes
<1>4. CASE "models" \in arg[c].edit.changes
  <2>1. modelCache' = ModelsPublished(c) /\ Goto(c, "readGroups", Nothing)
    BY <1>4 DEF PublishChannel, ModelsPublished
  <2>2. OnlyCall(c) /\ pc'[c] = "readGroups" /\ busy'[c] = busy[c] /\ arg'[c] = arg[c]
    BY <2>1, BusyNow, GotoMoves
  <2>3. busy[c] = RouteCaches
    BY <1>1, <1>2, <1>4 DEF BusyTyped
  <2>4. Knows(c)' /\ BusyTyped(c)'
    BY <1>2, <2>2, <2>3 DEF Knows, IsChange, ModelRows, BusyTyped, Refreshing, Caches, RouteCaches
  <2>5. Grows /\ SettingsTyped' /\ GroupsTyped' /\ DOMAIN settings \subseteq DOMAIN settings'
    BY <1>1, TablesStay, IdsTyped DEF CatalogInv, Grows, tables
  <2>6. ModelsTyped'
    <3>1. ModelRows(ModelsPublished(c))
      BY <1>2, PublishedRows DEF CatalogInv, PanelTyped, ModelsTyped
    <3>2. ModelRows(modelCache')
      BY <2>1, <3>1
    <3> QED BY <1>1, <3>2 DEF CatalogInv, PanelTyped, ModelsTyped, IdsBelow, ModelRows, tables
  <2>7. \A x \in Caches \ busy[c] : UNCHANGED <<Table(x), Cache(x)>>
    BY <1>1, <2>3 DEF Caches, RouteCaches, Table, Cache, tables
  <2>8. ASSUME NEW x \in {"channels", "models"}, Ready(c, x)
        PROVE  Ready(c, x)'
    <3>1. Publishes(c, x) = Table(x)
      BY <1>1, <2>8 DEF Ready, Unfetched
    <3>2. Cache(x)' = Publishes(c, x)
      BY <1>1, <1>3, <2>1 DEF Cache, Publishes
    <3>3. Publishes(c, x)' = Cache(x)'
      BY <2>2 DEF Publishes
    <3>4. Table(x)' = Table(x)
      BY <1>1 DEF Table, tables
    <3> QED BY <2>2, <3>1, <3>2, <3>3, <3>4 DEF Ready, Checked
  <2>9. \A x \in {"groups", "names"} : Ready(c, x)'
    BY <2>2 DEF Ready, Checked, Unfetched
  <2>10. \A x \in busy[c] : Ready(c, x) => Ready(c, x)'
    BY <2>3, <2>8, <2>9 DEF RouteCaches
  <2> QED BY <1>1, <2>2, <2>4, <2>5, <2>6, <2>7, <2>10, WriteSafe DEF Grows
<1>5. CASE "models" \notin arg[c].edit.changes
  <2>1. modelCache' = modelCache /\ Return(c)
    BY <1>5 DEF PublishChannel
  <2>2. /\ OnlyCall(c) /\ busy'[c] = {} /\ pc'[c] \in {"done", "fetch"}
        /\ pc'[c] = "fetch" => IsChange(arg'[c])
    BY <1>2, <2>1, BusyNow, ReturnMoves
  <2>3. Knows(c)' /\ BusyTyped(c)'
    BY <2>2 DEF Knows, BusyTyped, Refreshing, IsChange, ModelRows
  <2>4. busy[c] = {"channels"}
    BY <1>1, <1>2, <1>5 DEF BusyTyped
  <2>5. \A x \in Caches \ busy[c] : Cache(x)' = Cache(x)
    BY <1>1, <2>1, <2>4 DEF Caches, Cache
  <2>6. \A x \in busy[c] : ~Unfetched(c, x) /\ Cache(x)' = Publishes(c, x)
    BY <1>1, <1>3, <2>4 DEF Unfetched
  <2>7. ModelRows(modelCache') /\ DOMAIN settingCache' \subseteq DOMAIN settings
    BY <1>1, <2>1, CachesTyped
  <2> QED BY <1>1, <2>2, <2>3, <2>5, <2>6, <2>7, PublishSafe
<1> QED BY <1>4, <1>5

\* What is added has finitely many names.
LEMMA AddedNames ==
  ASSUME NEW S \in SUBSET ModelNames
  PROVE  SetToSeq(S) \in Seq(ModelNames) /\ Len(SetToSeq(S)) \in Nat
<1>1. IsFiniteSet(S)
  BY FS_Subset, CatalogAssumption
<1>2. PICK n \in Nat : n = Cardinality(S) /\ ExistsBijection(1 .. n, S)
  BY <1>1, FS_CardinalityType
<1>3. PICK f : f \in Bijection(1 .. n, S)
  BY <1>2 DEF ExistsBijection
<1>4. f \in [1 .. n -> S] /\ IsInjective(f)
  BY <1>3 DEF Bijection, Injection
<1>5. SetToSeq(S) \in [1 .. n -> S]
  BY <1>2, <1>4 DEF SetToSeq
<1>6. SetToSeq(S) \in Seq(ModelNames)
  <2>1. \A g \in [1 .. n -> ModelNames] : g \in Seq(ModelNames)
    BY SMT
  <2>2. SetToSeq(S) \in [1 .. n -> ModelNames]
    BY <1>5
  <2> QED BY <2>1, <2>2
<1> QED BY <1>6, LenProperties

LEMMA WantedRows ==
  ASSUME CatalogInv, NEW ch, NEW wanted, NEW names \in Seq(ModelNames),
         NEW w, w = Wanted(ch, wanted, names), NEW m \in DOMAIN w
  PROVE  /\ IsModelRow(w[m]) /\ w[m].channel = ch
         /\ m \in Int /\ m < nextId + Len(names)
         /\ m \in DOMAIN models => models[m].channel = ch /\ w[m].name = models[m].name
<1> DEFINE old == {x \in ModelsOf(models, ch) : models[x].name \in DOMAIN wanted}
           Row(n) == [channel |-> ch, name |-> n, source |-> wanted[n]]
<1>0. nextId \in Int /\ Len(names) \in Nat
  BY IdsTyped, LenProperties
<1>1. w = [x \in old \cup (nextId .. nextId + Len(names) - 1) |->
             IF x \in old THEN Row(models[x].name) ELSE Row(names[x - nextId + 1])]
  BY DEF Wanted
<1>2. m \in old \cup (nextId .. nextId + Len(names) - 1)
  BY <1>1
<1>3. \A n \in ModelNames : IsModelRow(Row(n)) /\ Row(n).channel = ch /\ Row(n).name = n
  <2>1. ASSUME NEW n \in ModelNames
        PROVE  IsModelRow(Row(n)) /\ Row(n).channel = ch /\ Row(n).name = n
    <3>1. PICK source : source = wanted[n]
      OBVIOUS
    <3>2. Row(n) = [channel |-> ch, name |-> n, source |-> source]
      BY <3>1
    <3> QED BY <3>2 DEF IsModelRow
  <2> QED BY <2>1
<1>4. CASE m \in old
  <2>1. m \in DOMAIN models /\ models[m].channel = ch /\ models[m].name \in ModelNames
    BY <1>4 DEF ModelsOf, CatalogInv, PanelTyped, ModelsTyped, ModelRows, IsModelRow
  <2>2. w[m] = Row(models[m].name)
    BY <1>1, <1>4
  <2>3. GivenOut(m)
    BY <2>1, IdsTyped
  <2> HIDE DEF Row
  <2>4. m \in Int /\ m < nextId + Len(names)
    BY <1>0, <2>3 DEF GivenOut
  <2> QED BY <1>3, <2>1, <2>2, <2>4
<1>5. CASE m \notin old
  <2>1. m \in nextId .. nextId + Len(names) - 1
    BY <1>2, <1>5
  <2>2. m \in Int /\ nextId <= m /\ m < nextId + Len(names) /\ m - nextId + 1 \in 1 .. Len(names)
    BY <1>0, <2>1
  <2>3. PICK n \in ModelNames : n = names[m - nextId + 1]
    BY <2>2, ElementOfSeq
  <2>4. w[m] = Row(n)
    BY <1>1, <1>5, <2>1, <2>3
  <2>5. m \notin DOMAIN models
    BY <1>0, <2>2, IdsTyped DEF GivenOut
  <2> HIDE DEF Row
  <2> QED BY <1>3, <2>2, <2>4, <2>5
<1> QED BY <1>4, <1>5

\* The models written to the table, as the cache will get them from the call.
LEMMA ModelsReplaced ==
  ASSUME NEW ch, NEW w, NEW after, NEW now, NEW stay,
         \A m \in DOMAIN models : IsModelRow(models[m]),
         \A m \in DOMAIN w : IsModelRow(w[m]) /\ w[m].channel = ch,
         \A m \in DOMAIN w \cap DOMAIN models :
            models[m].channel = ch /\ w[m].name = models[m].name,
         after = Over(w, Without(models, ModelsOf(models, ch))),
         now = Restrict(after, ModelsOf(after, ch)),
         stay = [m \in {x \in ModelsOf(models, ch) : x \in DOMAIN now} |->
                    [models[m] EXCEPT !.source = now[m].source]]
  PROVE  ModelRows(now) /\ Over(stay, Over(now, Without(models, ModelsOf(models, ch)))) = after
<1> DEFINE kept == Without(models, ModelsOf(models, ch))
           both == Over(now, kept)
           all == Over(stay, both)
<1>1. IsWithout(kept, models, ModelsOf(models, ch))
  BY Withouts
<1>2. IsOver(after, w, kept) /\ IsOver(both, now, kept) /\ IsOver(all, stay, both)
  BY Overs
<1>3. IsFun(after) /\ IsFun(all)
  BY Funs
<1> HIDE DEF kept, both, all
<1>4. ModelsOf(after, ch) = DOMAIN w
  <2>1. ASSUME NEW m \in DOMAIN after
        PROVE  after[m].channel = ch <=> m \in DOMAIN w
    <3>1. CASE m \in DOMAIN w
      BY <1>2, <3>1 DEF IsOver
    <3>2. CASE m \notin DOMAIN w
      <4>1. m \in DOMAIN kept /\ after[m] = kept[m]
        BY <1>2, <3>2 DEF IsOver
      <4>2. kept[m] = models[m] /\ m \in DOMAIN models \ ModelsOf(models, ch)
        BY <1>1, <4>1 DEF IsWithout
      <4> QED BY <3>2, <4>1, <4>2 DEF ModelsOf
    <3> QED BY <3>1, <3>2
  <2>2. DOMAIN w \subseteq DOMAIN after
    BY <1>2 DEF IsOver
  <2> QED BY <2>1, <2>2 DEF ModelsOf
<1>5. DOMAIN now = DOMAIN w /\ \A m \in DOMAIN w : now[m] = w[m]
  BY <1>2, <1>4 DEF Restrict, IsOver
<1>6. ModelRows(now)
  BY <1>5 DEF ModelRows
<1>7. /\ DOMAIN stay \subseteq DOMAIN w
      /\ \A m \in DOMAIN stay : stay[m] = w[m]
  <2>1. DOMAIN stay \subseteq DOMAIN w /\ DOMAIN stay \subseteq DOMAIN models
    BY <1>5 DEF ModelsOf
  <2>2. ASSUME NEW m \in DOMAIN stay
        PROVE  stay[m] = w[m]
    <3>1. PICK r, v : /\ r = models[m] /\ v = w[m] /\ IsModelRow(r) /\ IsModelRow(v)
                      /\ v.channel = r.channel /\ v.name = r.name
      BY <2>1
    <3>2. stay[m] = [r EXCEPT !.source = v.source]
      BY <1>5, <2>1, <3>1
    <3>3. /\ r = [channel |-> r.channel, name |-> r.name, source |-> r.source]
          /\ v = [channel |-> v.channel, name |-> v.name, source |-> v.source]
      BY <3>1 DEF IsModelRow
    <3>4. [r EXCEPT !.source = v.source] = [channel |-> r.channel, name |-> r.name, source |-> v.source]
      BY <3>3
    <3> QED BY <3>1, <3>2, <3>3, <3>4
  <2> QED BY <2>1, <2>2
<1>8. DOMAIN all = DOMAIN after
  BY <1>2, <1>5, <1>7 DEF IsOver
<1>9. \A m \in DOMAIN all : all[m] = after[m]
  BY <1>2, <1>5, <1>7 DEF IsOver
<1>10. all = after
  BY <1>3, <1>8, <1>9, Extensional
<1> QED BY <1>6, <1>10 DEF all, both, kept

LEMMA ChannelWriteSafe ==
  ASSUME CatalogInv, NEW c \in Calls, NEW ch, NEW row, NEW now,
         pc[c] = "updateChannel", ch = arg[c].on, channels' = Put(channels, ch, row),
         Goto(c, "publishChannel", [row |-> row, models |-> now]), ChannelTablesOnly,
         Grows, GroupsTyped', ModelsTyped', ModelRows(now),
         IF "models" \in arg[c].edit.changes
           THEN models' = Over([m \in {x \in ModelsOf(models, ch) : x \in DOMAIN now} |->
                                   [models[m] EXCEPT !.source = now[m].source]],
                               Over(now, Without(models, ModelsOf(models, ch))))
           ELSE UNCHANGED <<models, groups>>
  PROVE  CatalogInv'
<1>1. UNCHANGED <<settings, keys, caches, backup, suspect>>
  BY DEF ChannelTablesOnly
<1>2. /\ OnlyCall(c) /\ pc'[c] = "publishChannel" /\ busy'[c] = busy[c] /\ arg'[c] = arg[c]
      /\ read'[c].row = row /\ read'[c].models = now
  <2>1. PICK w : w = [row |-> row, models |-> now]
    OBVIOUS
  <2>2. w.row = row /\ w.models = now
    BY <2>1
  <2>3. Goto(c, "publishChannel", w)
    BY <2>1
  <2> QED BY <2>2, <2>3, GotoMoves, BusyNow
<1>3. BusyTyped(c) /\ IsChange(arg[c]) /\ busy[c] \subseteq Caches
  BY BusyNow DEF Knows, BusyTyped
<1>4. busy[c] = IF "models" \in arg[c].edit.changes THEN RouteCaches ELSE {"channels"}
  BY <1>3 DEF BusyTyped
<1>5. SettingsTyped' /\ DOMAIN settings \subseteq DOMAIN settings'
  BY <1>1, TablesStay DEF CatalogInv, Grows, caches
<1>6. Knows(c)' /\ BusyTyped(c)'
  BY <1>2, <1>3, <1>4 DEF Knows, IsChange, ModelRows, BusyTyped, Refreshing, Caches, RouteCaches
<1>7. UNCHANGED <<channelCache, modelCache, groupCache, nameIndex, settingCache, keySnap>>
  BY <1>1 DEF caches, routeCaches
<1>8. \A x \in Caches \ busy[c] : UNCHANGED <<Table(x), Cache(x)>>
  <2>1. CASE "models" \in arg[c].edit.changes
    BY <1>1, <1>4, <1>7, <2>1 DEF Caches, RouteCaches, Table, Cache
  <2>2. CASE "models" \notin arg[c].edit.changes
    BY <1>1, <1>4, <1>7, <2>2 DEF Caches, Table, Cache
  <2> QED BY <2>1, <2>2
<1>9. Ready(c, "channels") => Ready(c, "channels")'
  <2>1. Ready(c, "channels") => channelCache = channels
    BY Before DEF Starts
  <2>2. Publishes(c, "channels")' = Put(channelCache', ch, row)
    BY <1>2 DEF Publishes
  <2> QED BY <1>2, <1>7, <2>1, <2>2 DEF Ready, Checked, Table
<1>10. ASSUME "models" \in busy[c], Ready(c, "models")
       PROVE  Ready(c, "models")'
  <2>1. modelCache = models
    BY <1>10, Before DEF Starts
  <2>2. "models" \in arg[c].edit.changes
    BY <1>4, <1>10
  <2>3. Publishes(c, "models")' = ModelsPublished(c)'
    BY <1>2 DEF Publishes
  <2>4. ModelsPublished(c)' = models'
    BY <1>2, <1>7, <2>1, <2>2 DEF ModelsPublished
  <2> QED BY <1>2, <2>3, <2>4 DEF Ready, Checked, Table
<1>11. \A x \in {"groups", "names"} : Ready(c, x)'
  BY <1>2 DEF Ready, Checked, Unfetched
<1>12. \A x \in busy[c] : Ready(c, x) => Ready(c, x)'
  BY <1>4, <1>9, <1>10, <1>11 DEF RouteCaches
<1> QED BY <1>1, <1>2, <1>5, <1>6, <1>8, <1>12, WriteSafe DEF Grows

LEMMA UpdateChannelSafe ==
  ASSUME CatalogInv, NEW c \in Calls, UpdateChannel(c)
  PROVE  CatalogInv'
<1>1. pc[c] = "updateChannel" /\ ChannelTablesOnly
  BY DEF UpdateChannel
<1>2. IsChange(arg[c]) /\ DOMAIN arg[c].edit.models \subseteq ModelNames
  BY <1>1, BusyNow DEF Knows
<1>3. CASE Return(c) /\ UNCHANGED <<channels, models, groups, nextId>>
  BY <1>1, <1>3, ReturnSafe DEF ChannelTablesOnly, tables
<1>4. CASE ~(Return(c) /\ UNCHANGED <<channels, models, groups, nextId>>)
  <2>1. PICK ch, row, wanted, now :
           /\ ch = arg[c].on /\ wanted = arg[c].edit.models /\ ch \in DOMAIN channels
           /\ channels' = [channels EXCEPT ![ch] = row]
           /\ now = Restrict(models', ModelsOf(models', ch))
           /\ Goto(c, "publishChannel", [row |-> row, models |-> now])
           /\ IF "models" \in arg[c].edit.changes
                THEN \E names :
                       /\ names = SetToSeq(DOMAIN wanted \ {models[m].name : m \in ModelsOf(models, ch)})
                       /\ models' = Over(Wanted(ch, wanted, names),
                                         Without(models, ModelsOf(models, ch)))
                       /\ groups' = Cleared(ModelsOf(models, ch) \ DOMAIN models')
                       /\ nextId' = nextId + Len(names)
                ELSE UNCHANGED <<models, groups, nextId>>
    BY <1>4 DEF UpdateChannel
  <2>2. channels' = Put(channels, ch, row)
    BY <2>1, ExceptPuts
  <2>0. ch = arg[c].on /\ Goto(c, "publishChannel", [row |-> row, models |-> now])
    BY <2>1
  <2>3. modelCache' = modelCache /\ ModelRows(models) /\ ModelRows(modelCache)
    BY <1>1 DEF ChannelTablesOnly, caches, routeCaches, CatalogInv, PanelTyped, ModelsTyped
  <2>4. CASE "models" \in arg[c].edit.changes
    <3>1. PICK names, w, kept, gone :
             /\ names = SetToSeq(DOMAIN wanted \ {models[m].name : m \in ModelsOf(models, ch)})
             /\ w = Wanted(ch, wanted, names) /\ kept = Without(models, ModelsOf(models, ch))
             /\ models' = Over(w, kept)
             /\ gone = ModelsOf(models, ch) \ DOMAIN models' /\ groups' = Cleared(gone)
             /\ nextId' = nextId + Len(names)
      BY <2>1, <2>4
    <3>2. names \in Seq(ModelNames) /\ Len(names) \in Nat
      BY <1>2, <2>1, <3>1, AddedNames
    <3>3. Grows
      BY <3>1, <3>2, IdsGrow
    <3>4. GroupsTyped'
      BY <3>1, <3>3, ClearedTyped
    <3>5. \A m \in DOMAIN w : /\ IsModelRow(w[m]) /\ w[m].channel = ch
                              /\ m \in Int /\ m < nextId + Len(names)
                              /\ m \in DOMAIN models =>
                                   models[m].channel = ch /\ w[m].name = models[m].name
      BY <3>1, <3>2, WantedRows
    <3>6. ModelRows(w) /\ \A m \in DOMAIN w : GivenOut(m)'
      BY <3>1, <3>5 DEF ModelRows, GivenOut
    <3>7. ModelRows(kept) /\ DOMAIN kept \subseteq DOMAIN models
      <4>1. IsWithout(kept, models, ModelsOf(models, ch))
        BY <3>1, Withouts
      <4> QED BY <2>3, <4>1 DEF IsWithout, ModelRows
    <3>8. ModelsTyped'
      BY <2>3, <3>1, <3>3, <3>6, <3>7, ModelsWritten
    <3>9. /\ ModelRows(now)
          /\ models' = Over([m \in {x \in ModelsOf(models, ch) : x \in DOMAIN now} |->
                               [models[m] EXCEPT !.source = now[m].source]],
                           Over(now, Without(models, ModelsOf(models, ch))))
      <4>1. PICK after, stay :
               /\ after = models'
               /\ stay = [m \in {x \in ModelsOf(models, ch) : x \in DOMAIN now} |->
                            [models[m] EXCEPT !.source = now[m].source]]
        OBVIOUS
      <4>2. /\ \A m \in DOMAIN models : IsModelRow(models[m])
            /\ \A m \in DOMAIN w : IsModelRow(w[m]) /\ w[m].channel = ch
            /\ \A m \in DOMAIN w \cap DOMAIN models :
                  models[m].channel = ch /\ w[m].name = models[m].name
        BY <2>3, <3>5 DEF ModelRows
      <4>3. /\ after = Over(w, Without(models, ModelsOf(models, ch)))
            /\ now = Restrict(after, ModelsOf(after, ch))
        BY <2>1, <3>1, <4>1
      <4>4. ModelRows(now) /\ Over(stay, Over(now, Without(models, ModelsOf(models, ch)))) = after
        BY <4>1, <4>2, <4>3, ModelsReplaced
      <4> QED BY <4>1, <4>4
    <3> QED BY <1>1, <2>0, <2>2, <2>4, <3>3, <3>4, <3>8, <3>9, ChannelWriteSafe
  <2>5. CASE "models" \notin arg[c].edit.changes
    <3>1. UNCHANGED <<models, groups, nextId>>
      BY <2>1, <2>5
    <3>2. Grows
      BY <3>1, IdsTyped DEF Grows
    <3>3. GroupsTyped' /\ ModelsTyped'
      BY <2>3, <3>1, <3>2, TablesStay DEF CatalogInv, Grows
    <3>4. ModelRows(now)
      <4>1. now = Restrict(models, ModelsOf(models, ch))
        BY <2>1, <3>1
      <4> QED BY <2>3, <4>1 DEF Restrict, ModelsOf, ModelRows
    <3> QED BY <1>1, <2>0, <2>2, <2>5, <3>1, <3>2, <3>3, <3>4, ChannelWriteSafe
  <2> QED BY <2>4, <2>5
<1> QED BY <1>3, <1>4

\* A backup brings groups under names that are free.
AddedGroups(d) ==
    [g \in NewGroupRows(d) |-> [name |-> d.groups[g], active |-> 0, items |-> Nothing]]
HasItems(after, all, items) ==
    /\ DOMAIN after = DOMAIN all
    /\ \A g \in DOMAIN all : after[g] = [all[g] EXCEPT !.items = items[g]]

LEMMA ImportedGroups ==
  ASSUME CatalogInv, NEW d, BackupTyped(d), NEW all, NEW items, Grows,
         all = Over(AddedGroups(d), groups), HasItems(groups', all, items)
  PROVE  GroupsTyped'
<1>0. PICK added : added = AddedGroups(d)
  OBVIOUS
<1>1. IsOver(all, added, groups)
  BY <1>0, Overs
<1>2. ASSUME NEW g \in DOMAIN added
      PROVE  /\ IsGroupRow(added[g]) /\ added[g].name = d.groups[g]
             /\ g \in DOMAIN d.groups /\ IdOf(groups, d.groups[g]) = {}
  <2>1. g \in DOMAIN d.groups /\ IdOf(groups, d.groups[g]) = {}
    BY <1>0 DEF AddedGroups, NewGroupRows
  <2>2. PICK n : n = d.groups[g] /\ added[g] = [name |-> n, active |-> 0, items |-> Nothing]
    BY <1>0 DEF AddedGroups
  <2> QED BY <2>1, <2>2 DEF IsGroupRow
<1>3. \A g \in DOMAIN groups : IsGroupRow(groups[g])
  BY DEF CatalogInv, PanelTyped, GroupsTyped
<1>4. \A g \in DOMAIN all : IsGroupRow(all[g])
  BY <1>1, <1>2, <1>3 DEF IsOver
<1>5. Unique(all)
  <2>1. \A g, h \in DOMAIN added : added[g].name = added[h].name => g = h
    BY <1>2 DEF BackupTyped
  <2>2. ASSUME NEW g \in DOMAIN added, NEW h \in DOMAIN groups
        PROVE  added[g].name # groups[h].name
    BY <1>2 DEF IdOf
  <2>3. \A g \in DOMAIN all : \/ g \in DOMAIN added /\ all[g] = added[g]
                              \/ g \in DOMAIN groups /\ all[g] = groups[g]
    BY <1>1 DEF IsOver
  <2>4. ASSUME NEW g \in DOMAIN all, NEW h \in DOMAIN all, all[g].name = all[h].name
        PROVE  g = h
    <3>1. CASE g \in DOMAIN added /\ h \in DOMAIN added /\ all[g] = added[g] /\ all[h] = added[h]
      BY <2>1, <2>4, <3>1
    <3>2. CASE g \in DOMAIN groups /\ h \in DOMAIN groups /\ all[g] = groups[g] /\ all[h] = groups[h]
      BY <2>4, <3>2, IdsTyped DEF Unique
    <3>3. CASE g \in DOMAIN added /\ h \in DOMAIN groups /\ all[g] = added[g] /\ all[h] = groups[h]
      BY <2>2, <2>4, <3>3
    <3>4. CASE g \in DOMAIN groups /\ h \in DOMAIN added /\ all[g] = groups[g] /\ all[h] = added[h]
      BY <2>2, <2>4, <3>4
    <3> QED BY <2>3, <3>1, <3>2, <3>3, <3>4
  <2> QED BY <2>4 DEF Unique
<1>6. ASSUME NEW g \in DOMAIN all
      PROVE  groups'[g].name = all[g].name /\ IsGroupRow(groups'[g])
  <2>0. groups'[g] = [all[g] EXCEPT !.items = items[g]]
    BY DEF HasItems
  <2>1. PICK r, i : r = all[g] /\ i = items[g] /\ IsGroupRow(r) /\ groups'[g] = [r EXCEPT !.items = i]
    BY <1>4, <2>0
  <2>2. r = [name |-> r.name, active |-> r.active, items |-> r.items]
    BY <2>1 DEF IsGroupRow
  <2>3. [r EXCEPT !.items = i] = [name |-> r.name, active |-> r.active, items |-> i]
    BY <2>2
  <2> QED BY <2>1, <2>3 DEF IsGroupRow
<1>7. Unique(groups')
  BY <1>5, <1>6 DEF Unique, HasItems
<1>8. \A g \in DOMAIN all : GivenOut(g)
  BY <1>1, <1>2, IdsTyped DEF IsOver, BackupTyped, IdsBelow, GivenOut
<1>9. \A g \in DOMAIN groups' : GivenOut(g)'
  BY <1>8, StillGivenOut DEF HasItems
<1> QED BY <1>6, <1>7, <1>9 DEF HasItems, GroupsTyped, IdsBelow, GivenOut, IsGroupRow, Unique

LEMMA ImportSafe ==
  ASSUME CatalogInv, NEW c \in Calls, Import(c)
  PROVE  CatalogInv'
<1>1. /\ pc[c] = "import" /\ suspect' = suspect \cup {"references"}
      /\ nextId' = nextId /\ UNCHANGED <<caches, backup>>
  BY DEF Import
<1>2. PICK d : d = arg[c] /\ BackupTyped(d)
  BY <1>1, BusyNow DEF Knows
<1>3. busy[c] = Caches
  BY <1>1, BusyNow DEF BusyTyped
<1>4. Grows
  BY <1>1, IdsTyped DEF Grows
<1>5. GroupsTyped'
  <2>1. PICK all, items :
           /\ all = Over(AddedGroups(d), groups)
           /\ items = [g \in DOMAIN all |->
                         Over([i \in {x \in NewItemRows(d) : d.items[x].group = g} |-> d.items[i].item],
                              all[g].items)]
    OBVIOUS
  <2>2. groups' = [g \in DOMAIN all |-> [all[g] EXCEPT !.items =
                     Over([i \in {x \in NewItemRows(d) : d.items[x].group = g} |-> d.items[i].item], @)]]
    BY <1>2, <2>1 DEF Import, AddedGroups
  <2>3. HasItems(groups', all, items)
    BY <2>1, <2>2 DEF HasItems
  <2>4. all = Over(AddedGroups(d), groups)
    BY <2>1
  <2> QED BY <1>2, <1>4, <2>3, <2>4, ImportedGroups
<1>6. ModelsTyped'
  <2>1. PICK added : added = Restrict(d.models, NewModelRows(d)) /\ models' = Over(added, models)
    BY <1>2 DEF Import
  <2>2. DOMAIN added \subseteq DOMAIN d.models /\ \A m \in DOMAIN added : added[m] = d.models[m]
    BY <2>1 DEF Restrict, NewModelRows
  <2>3. ModelRows(added) /\ \A m \in DOMAIN added : GivenOut(m)
    BY <1>2, <2>2 DEF BackupTyped, ModelRows, IdsBelow, GivenOut
  <2>4. \A m \in DOMAIN added : GivenOut(m)'
    BY <1>4, <2>3, StillGivenOut
  <2>5. ModelRows(models) /\ modelCache' = modelCache
    BY <1>1 DEF CatalogInv, PanelTyped, ModelsTyped, caches, routeCaches
  <2> QED BY <1>4, <2>1, <2>3, <2>4, <2>5, ModelsWritten
<1>7. SettingsTyped' /\ DOMAIN settings \subseteq DOMAIN settings'
  <2>1. PICK rows, h : h = settings' /\ h = Over(rows, settings)
    BY DEF Import
  <2>2. IsOver(h, rows, settings) /\ IsFun(h)
    BY <2>1, Overs, Funs
  <2>3. DOMAIN settings \subseteq DOMAIN h
    BY <2>2 DEF IsOver
  <2>4. DOMAIN settingCache' \subseteq DOMAIN h
    BY <1>1, <2>3 DEF CatalogInv, PanelTyped, SettingsTyped, caches
  <2> QED BY <2>1, <2>2, <2>3, <2>4 DEF SettingsTyped, IsFun
<1>8. OnlyCall(c) /\ pc'[c] = "readSettings" /\ busy'[c] = busy[c]
  BY BusyNow, GotoMoves DEF Import
<1>9. Knows(c)' /\ BusyTyped(c)'
  BY <1>3, <1>8 DEF Knows, BusyTyped, Refreshing
<1>10. \A x \in busy[c] : Ready(c, x)'
  BY <1>8 DEF Ready, Checked, Unfetched
<1>11. \A x \in Caches \ busy[c] : UNCHANGED <<Table(x), Cache(x)>>
  BY <1>3
<1>12. backup' = backup
  BY <1>1
<1> QED BY <1>1, <1>4, <1>5, <1>6, <1>7, <1>8, <1>9, <1>10, <1>11, <1>12, WriteSafe DEF Grows

-----------------------------------------------------------------------------
(* The theorem. *)

LEMMA CatalogInit ==
  ASSUME PdInit
  PROVE  CatalogInv
<1>1. nextId = FirstId /\ nextId \in Int
  BY CatalogAssumption DEF PdInit
<1>2. GroupsTyped /\ groups = Rows.groups
  BY CatalogAssumption DEF PdInit, GroupsTyped, Unique, IdsBelow
<1>3. ModelsTyped
  BY CatalogAssumption DEF PdInit, ModelsTyped, ModelRows, IdsBelow
<1>4. SettingsTyped
  BY CatalogAssumption DEF PdInit, SettingsTyped
<1>5. BackupTyped(backup)
  <2>1. \A g, h \in DOMAIN Foreign.groups : Foreign.groups[g] = Foreign.groups[h] => g = h
    BY CatalogAssumption DEF IsInjective
  <2> QED BY <2>1, CatalogAssumption DEF PdInit, BackupTyped, ModelRows, IdsBelow
<1>6. Functions /\ \A c \in Calls : pc[c] = "new" /\ busy[c] = {}
  BY DEF PdInit, Functions
<1>7. \A c \in Calls : BusyTyped(c) /\ Knows(c)
  BY <1>6 DEF BusyTyped, Knows, Refreshing
<1>8. \A x \in Caches : Cache(x) = Table(x)
  BY DEF PdInit, Caches, Cache, Table
<1>9. CachesReady
  BY <1>6, <1>8 DEF CachesReady
<1>10. NamesSuspect
  BY DEF PdInit, NamesSuspect
<1> QED BY <1>1, <1>2, <1>3, <1>4, <1>5, <1>6, <1>7, <1>9, <1>10 DEF CatalogInv, PanelTyped

LEMMA ReadsGroupsSafe ==
  ASSUME CatalogInv, NEW c \in Calls, GroupsRead(c) \/ ReadAllGroups(c)
  PROVE  CatalogInv'
<1>1. CASE GroupsRead(c)
  BY <1>1, ReadGroupsSafe DEF GroupsRead
<1>2. CASE ReadAllGroups(c)
  BY <1>2, ReadGroupsSafe DEF ReadAllGroups
<1> QED BY <1>1, <1>2

\* The steps on groups, on channels, and on the rest.
GroupStep(c) ==
    \/ GroupCreate(c) \/ GroupUpdate(c) \/ GroupActiveItemUpdate(c) \/ GroupDel(c)
    \/ GroupReplaceItemsByName(c)
    \/ InsertGroup(c) \/ UpdateGroup(c) \/ SetActive(c) \/ DeleteGroup(c) \/ ReplaceItems(c)
    \/ PublishGroup(c) \/ PublishActive(c) \/ ForgetGroup(c)

ChannelStep(c) ==
    \/ ChannelImportFromText(c) \/ ChannelUpdate(c) \/ ChannelEnabled(c) \/ ChannelDel(c)
    \/ ChannelCreate(c) \/ UpdateChannel(c) \/ SetEnabled(c) \/ DeleteChannel(c)
    \/ PublishNew(c) \/ PublishChannel(c) \/ PublishEnabled(c) \/ ForgetChannel(c)
    \/ GroupsRead(c) \/ GroupsRefreshed(c) \/ GroupsNotRefreshed(c)
    \/ SyncModelsTask(c) \/ FetchModels(c)

KeyStep(c) ==
    \/ APIKeyCreate(c) \/ APIKeyUpdate(c) \/ APIKeyDelete(c)
    \/ WriteKeys(c) \/ KeyWriteFails(c) \/ ReadKeys(c) \/ PublishKeys(c)

RestoreStep(c) ==
    \/ SettingSetString(c) \/ UpdateSetting(c) \/ PublishSetting(c)
    \/ SettingGetString(c) \/ LoadSetting(c)
    \/ DBExportAll(c) \/ DBImportIncremental(c)
    \/ ReadSettings(c) \/ StoreSettings(c) \/ ReadChannels(c) \/ StoreChannels(c)
    \/ ReadAllGroups(c) \/ StoreAllGroups(c) \/ InitCacheFails(c)
    \/ StatementFails(c)

LEMMA Steps ==
  Next <=> \E c \in Calls :
              GroupStep(c) \/ ChannelStep(c) \/ KeyStep(c) \/ RestoreStep(c) \/ Import(c)
  BY DEF Next, GroupStep, ChannelStep, KeyStep, RestoreStep

LEMMA CatalogStep ==
  ASSUME CatalogInv, Next
  PROVE  CatalogInv'
<1>1. PICK c \in Calls : GroupStep(c) \/ ChannelStep(c) \/ KeyStep(c) \/ RestoreStep(c) \/ Import(c)
  BY Steps
<1>2. CASE GroupStep(c)
  BY <1>2, GroupCreateSafe, GroupUpdateSafe, GroupActiveSafe, GroupDelSafe, InsertGroupSafe,
     UpdateGroupSafe, SetActiveSafe, DeleteGroupSafe, ReplaceItemsSafe, PublishGroupSafe,
     PublishActiveSafe, ForgetGroupSafe DEF GroupStep
<1>3. CASE ChannelStep(c)
  BY <1>3, ChannelImportSafe, ChannelUpdateSafe, ChannelEnabledSafe, ChannelDelSafe,
     ChannelCreateSafe, UpdateChannelSafe, SetEnabledSafe, DeleteChannelSafe, PublishNewSafe,
     PublishChannelSafe, PublishEnabledSafe, ForgetChannelSafe, ReadsGroupsSafe,
     GroupsRefreshedSafe, GroupsNotRefreshedSafe, SyncSafe, FetchModelsSafe DEF ChannelStep
<1>4. CASE KeyStep(c)
  BY <1>4, KeyRequestsSafe, WriteKeysSafe, KeyWriteFailsSafe, ReadKeysSafe, PublishKeysSafe
     DEF KeyStep
<1>5. CASE RestoreStep(c)
  BY <1>5, SettingSetSafe, UpdateSettingSafe, PublishSettingSafe, SettingGetSafe, LoadSettingSafe,
     ExportSafe, ImportBegins, ReadSettingsSafe, StoreSettingsSafe, ReadChannelsSafe,
     StoreChannelsSafe, ReadsGroupsSafe, StoreAllGroupsSafe, InitCacheFailsSafe,
     StatementFailsSafe DEF RestoreStep
<1> QED BY <1>1, <1>2, <1>3, <1>4, <1>5, ImportSafe

LEMMA CatalogStutters ==
  ASSUME CatalogInv, UNCHANGED panelVars
  PROVE  CatalogInv'
<1>1. UNCHANGED <<tables, caches, calls, backup, suspect>>
  BY DEF panelVars
<1>2. UNCHANGED <<pc, arg, read, busy>>
  BY <1>1 DEF calls
<1>3. /\ GroupsTyped' /\ ModelsTyped' /\ SettingsTyped'
      /\ nextId' \in Int /\ nextId' >= nextId /\ DOMAIN settings \subseteq DOMAIN settings'
      /\ \A x \in Caches : UNCHANGED <<Table(x), Cache(x)>>
  BY <1>1, OnlyCalls DEF CatalogInv, caches
<1>4. \A c \in Calls : BusyTyped(c)' /\ Knows(c)'
  BY <1>2, <1>3, KnowsStays, BusyStays DEF CatalogInv, PanelTyped
<1>5. BackupTyped(backup)'
  BY <1>1, <1>3, BackupStays DEF CatalogInv, PanelTyped, BackupTyped
<1>6. PanelTyped'
  BY <1>2, <1>3, <1>4, <1>5 DEF CatalogInv, PanelTyped, Functions
<1>7. CachesReady'
  <2> SUFFICES ASSUME NEW x \in Caches \ suspect'
               PROVE  /\ \A c, d \in Calls : x \in busy'[c] /\ x \in busy'[d] => c = d
                      /\ \A c \in Calls : x \in busy'[c] => Ready(c, x)'
                      /\ (\A c \in Calls : x \notin busy'[c]) => Cache(x)' = Table(x)'
    BY DEF CachesReady
  <2>1. ASSUME NEW c \in Calls, x \in busy'[c]
        PROVE  Ready(c, x)'
    BY <1>1, <1>2, <1>3, <2>1, ReadyStays DEF CatalogInv, PanelTyped, CachesReady
  <2> QED BY <1>1, <1>2, <1>3, <2>1 DEF CatalogInv, CachesReady
<1> QED BY <1>1, <1>6, <1>7 DEF CatalogInv, NamesSuspect

\* Once no call that writes a cache is in flight, the cache is what its table is, whatever
\* overlapped before, unless two calls wrote it at once or its refresh failed (op/cache.go:9).
THEOREM CachesAlwaysFollow ==
  Spec => []CachesFollowTables
<1>1. PdInit => CatalogInv
  BY CatalogInit
<1>2. CatalogInv /\ [Next]_panelVars => CatalogInv'
  BY CatalogStep, CatalogStutters
<1>3. CatalogInv => CachesFollowTables
  BY DEF CatalogInv, CachesReady, CachesFollowTables, Follows, Cache, Table, Caches
<1> QED BY <1>1, <1>2, <1>3, PTL DEF Spec

-----------------------------------------------------------------------------
(* Keys that were deleted or replaced. *)

Holding == {"writeKeys", "publishKeys"}

\* Each of the rows is in the table.
InKeys(rows) == \A id \in DOMAIN rows : id \in DOMAIN keys /\ keys[id] = rows[id]

\* The holder of the lock is the one call that writes keys: the snapshot is in the table until
\* the holder has written, and then what the holder will publish is.
KeysInv ==
    /\ Functions
    /\ keyLock \in Calls \cup {Nobody}
    /\ \A c \in Calls : pc[c] \in Holding => keyLock = c
    /\ keyLock # Nobody => pc[keyLock] \in Holding
    /\ keyLock = Nobody \/ pc[keyLock] = "writeKeys" => InKeys(keySnap)
    /\ keyLock # Nobody /\ pc[keyLock] = "publishKeys" => InKeys(read[keyLock])

\* A step of a call that does not hold the lock.
Elsewhere(c) == OnlyCall(c) /\ pc[c] \notin Holding /\ pc'[c] \notin Holding

LEMMA ElsewhereSafe ==
  ASSUME KeysInv, NEW c \in Calls, Elsewhere(c), UNCHANGED <<keySnap, keyLock>>,
         \A id \in DOMAIN keys : id \in DOMAIN keys' /\ keys'[id] = keys[id]
  PROVE  KeysInv'
<1>1. \A rows : InKeys(rows) => \A id \in DOMAIN rows : id \in DOMAIN keys' /\ keys'[id] = rows[id]
  BY DEF InKeys
<1>2. ASSUME keyLock # Nobody
      PROVE  keyLock \in Calls \ {c} /\ UNCHANGED <<pc[keyLock], read[keyLock]>>
  BY <1>2 DEF KeysInv, Elsewhere, OnlyCall
<1> QED BY <1>1, <1>2 DEF KeysInv, InKeys, Elsewhere, OnlyCall, Functions

\* What the operators of the actions do to the place of their call.
LEMMA ReturnGoes ==
  ASSUME Functions, NEW c \in Calls, Return(c) \/ NextBlock(c) \/ End(c)
  PROVE  OnlyCall(c) /\ pc'[c] \in {"done", "fetch", "insertChannel"}
<1>1. CASE End(c)
  BY <1>1, EndMoves
<1>2. CASE ~End(c)
  BY <1>2 DEF Return, NextBlock, Functions, OnlyCall
<1> QED BY <1>1, <1>2

\* No other step touches the keys, their snapshot or the lock.
KeysStay == UNCHANGED <<keys, keySnap, keyLock>>

LEMMA Begins ==
  ASSUME Functions, NEW c \in Calls, NEW next \in Starts \ Holding, NEW r, NEW xs,
         Begin(c, next, r, xs)
  PROVE  Elsewhere(c) /\ KeysStay
  BY BeginMoves DEF Elsewhere, KeysStay, Holding, tables, caches

LEMMA GroupsElsewhere ==
  ASSUME Functions, NEW c \in Calls, GroupStep(c)
  PROVE  Elsewhere(c) /\ KeysStay
<1>1. CASE \/ GroupCreate(c) \/ GroupUpdate(c) \/ GroupActiveItemUpdate(c) \/ GroupDel(c)
           \/ GroupReplaceItemsByName(c)
  <2>1. PICK next \in Starts \ Holding : \E r, xs : Begin(c, next, r, xs)
    BY <1>1 DEF GroupCreate, GroupUpdate, GroupActiveItemUpdate, GroupDel, GroupReplaceItemsByName,
                Starts, Holding
  <2> QED BY <2>1, Begins
<1>2. CASE InsertGroup(c) \/ UpdateGroup(c) \/ SetActive(c) \/ DeleteGroup(c) \/ ReplaceItems(c)
  <2>1. PICK next \in {"publishGroup", "publishActive", "forgetGroup"} : \E w : Goto(c, next, w)
    BY <1>2 DEF InsertGroup, UpdateGroup, SetActive, DeleteGroup, ReplaceItems, Insert
  <2>2. /\ pc[c] \in {"insertGroup", "updateGroup", "setActive", "deleteGroup", "replaceItems"}
        /\ GroupTableUnchanged
    BY <1>2 DEF InsertGroup, UpdateGroup, SetActive, DeleteGroup, ReplaceItems
  <2>3. OnlyCall(c) /\ pc'[c] = next
    BY <2>1, GotoMoves
  <2> QED BY <2>2, <2>3 DEF Elsewhere, Holding, KeysStay, GroupTableUnchanged, caches
<1>3. CASE PublishGroup(c) \/ PublishActive(c) \/ ForgetGroup(c)
  <2>1. /\ End(c) /\ pc[c] \in {"publishGroup", "publishActive", "forgetGroup"}
        /\ UNCHANGED <<tables, keySnap, keyLock>>
    BY <1>3 DEF PublishGroup, PublishActive, ForgetGroup
  <2>2. OnlyCall(c) /\ pc'[c] = "done"
    BY <2>1, EndMoves
  <2> QED BY <2>1, <2>2 DEF Elsewhere, Holding, KeysStay, tables
<1> QED BY <1>1, <1>2, <1>3 DEF GroupStep

LEMMA ChannelsElsewhere ==
  ASSUME Functions, NEW c \in Calls, ChannelStep(c)
  PROVE  Elsewhere(c) /\ KeysStay
<1>1. CASE \/ ChannelImportFromText(c) \/ ChannelUpdate(c) \/ ChannelEnabled(c) \/ ChannelDel(c)
           \/ SyncModelsTask(c)
  <2>1. PICK next \in Starts \ Holding : \E r, xs : Begin(c, next, r, xs)
    BY <1>1 DEF ChannelImportFromText, ChannelUpdate, ChannelEnabled, ChannelDel, SyncModelsTask,
                Starts, Holding
  <2> QED BY <2>1, Begins
<1>2. CASE FetchModels(c)
  <2>1. pc[c] = "fetch" /\ UNCHANGED <<tables, caches>>
    BY <1>2 DEF FetchModels
  <2>2. OnlyCall(c) /\ pc'[c] \in {"updateChannel", "done", "fetch"}
    <3>1. CASE End(c)
      BY <3>1, EndMoves
    <3>2. CASE ~End(c)
      BY <1>2, <3>2 DEF FetchModels, Touch, Functions, OnlyCall
    <3> QED BY <3>1, <3>2
  <2> QED BY <2>1, <2>2 DEF Elsewhere, Holding, KeysStay, tables, caches
<1>3. CASE ChannelCreate(c) \/ UpdateChannel(c) \/ SetEnabled(c) \/ DeleteChannel(c)
  <2>1. /\ pc[c] \in {"insertChannel", "updateChannel", "setEnabled", "deleteChannel"}
        /\ ChannelTablesOnly
    BY <1>3 DEF ChannelCreate, UpdateChannel, SetEnabled, DeleteChannel
  <2>2. \/ \E next \in {"publishNew", "publishChannel", "publishEnabled", "forgetChannel"}, w \in {read'[c]} :
              Goto(c, next, w)
        \/ Return(c) \/ NextBlock(c)
    BY <1>3 DEF ChannelCreate, UpdateChannel, SetEnabled, DeleteChannel, Goto, Functions
  <2>3. OnlyCall(c) /\ pc'[c] \notin Holding
    BY <2>2, GotoMoves, ReturnGoes DEF Holding
  <2> QED BY <2>1, <2>3 DEF Elsewhere, Holding, KeysStay, ChannelTablesOnly, caches
<1>4. CASE \/ PublishNew(c) \/ PublishChannel(c) \/ PublishEnabled(c) \/ ForgetChannel(c)
           \/ GroupsRead(c) \/ GroupsRefreshed(c) \/ GroupsNotRefreshed(c)
  <2>1. /\ pc[c] \in {"publishNew", "publishChannel", "publishEnabled", "forgetChannel",
                       "readGroups", "storeGroups"}
        /\ UNCHANGED <<tables, keySnap, keyLock>>
    BY <1>4 DEF PublishNew, PublishChannel, PublishEnabled, ForgetChannel, GroupsRead,
                GroupsRefreshed, GroupsNotRefreshed, ReadGroups, StoreGroups, caches
  <2>2. \/ Goto(c, "readGroups", Nothing) \/ Goto(c, "storeGroups", groups)
        \/ Return(c) \/ NextBlock(c) \/ End(c)
    BY <1>4 DEF PublishNew, PublishChannel, PublishEnabled, ForgetChannel, GroupsRead,
                GroupsRefreshed, GroupsNotRefreshed, ReadGroups, StoreGroups
  <2>3. OnlyCall(c) /\ pc'[c] \notin Holding
    BY <2>2, GotoMoves, ReturnGoes DEF Holding
  <2> QED BY <2>1, <2>3 DEF Elsewhere, Holding, KeysStay, tables
<1> QED BY <1>1, <1>2, <1>3, <1>4 DEF ChannelStep

LEMMA RestoreElsewhere ==
  ASSUME Functions, NEW c \in Calls, RestoreStep(c)
  PROVE  Elsewhere(c) /\ KeysStay
<1>1. CASE SettingSetString(c) \/ SettingGetString(c) \/ DBImportIncremental(c)
  <2>1. PICK next \in Starts \ Holding : \E r, xs : Begin(c, next, r, xs)
    BY <1>1 DEF SettingSetString, SettingGetString, DBImportIncremental, Starts, Holding
  <2> QED BY <2>1, Begins
<1>2. CASE \/ UpdateSetting(c) \/ LoadSetting(c) \/ ReadSettings(c) \/ StoreSettings(c)
           \/ ReadChannels(c) \/ StoreChannels(c) \/ ReadAllGroups(c) \/ StoreAllGroups(c)
  <2>1. pc[c] \in {"setSetting", "loadSetting"} \cup Refreshing /\ KeysStay
    BY <1>2 DEF UpdateSetting, LoadSetting, ReadSettings, StoreSettings, ReadChannels, StoreChannels,
                ReadAllGroups, StoreAllGroups, ReadGroups, StoreGroups, Refreshing, KeysStay,
                tables, caches
  <2>2. PICK next \in {"publishSetting"} \cup Refreshing : \E w : Goto(c, next, w)
    BY <1>2 DEF UpdateSetting, LoadSetting, ReadSettings, StoreSettings, ReadChannels, StoreChannels,
                ReadAllGroups, StoreAllGroups, ReadGroups, StoreGroups, Refreshing
  <2>3. OnlyCall(c) /\ pc'[c] = next
    BY <2>2, GotoMoves
  <2> QED BY <2>1, <2>3 DEF Elsewhere, Holding, Refreshing
<1>3. CASE PublishSetting(c) \/ DBExportAll(c) \/ InitCacheFails(c) \/ StatementFails(c)
  <2>1. End(c) /\ pc[c] \notin Holding /\ KeysStay
    BY <1>3 DEF PublishSetting, DBExportAll, InitCacheFails, StatementFails, MayBegin, Unread,
                Statements, Holding, KeysStay, tables, caches
  <2> QED BY <2>1, EndMoves DEF Elsewhere, Holding
<1> QED BY <1>1, <1>2, <1>3 DEF RestoreStep

\* An import adds rows, and leaves those that are there.
LEMMA ImportAddsKeys ==
  ASSUME KeysInv, NEW c \in Calls, Import(c)
  PROVE  KeysInv'
<1>1. /\ pc[c] = "import" /\ UNCHANGED <<keySnap, keyLock>> /\ Goto(c, "readSettings", Nothing)
  BY DEF Import, caches
<1>2. Elsewhere(c)
  BY <1>1, GotoMoves DEF KeysInv, Elsewhere, Holding
<1>3. PICK rows, h : /\ h = keys' /\ h = Over(rows, keys)
                     /\ DOMAIN rows \cap DOMAIN keys = {}
  <2>1. keys' = Over(Restrict(arg[c].keys, NewKeyRows(arg[c])), keys)
    BY DEF Import
  <2>2. DOMAIN Restrict(arg[c].keys, NewKeyRows(arg[c])) \cap DOMAIN keys = {}
    BY DEF Restrict, NewKeyRows
  <2> QED BY <2>1, <2>2
<1>4. IsOver(h, rows, keys)
  BY <1>3, Overs
<1>5. \A id \in DOMAIN keys : id \in DOMAIN keys' /\ keys'[id] = keys[id]
  BY <1>3, <1>4 DEF IsOver
<1> QED BY <1>1, <1>2, <1>5, ElsewhereSafe

\* The snapshot that a call is going to publish is written like the table.
LEMMA WrittenAlike ==
  ASSUME NEW rows, NEW id, NEW s, InKeys(rows),
         keys' = Without(keys, {id}) \/ keys' = Put(keys, id, s)
  PROVE  /\ keys' = Without(keys, {id}) => InKeys(Without(rows, {id}))'
         /\ keys' = Put(keys, id, s) => InKeys(Put(rows, id, s))'
<1>1. PICK table : table = keys'
  OBVIOUS
<1>2. ASSUME table = Without(keys, {id})
      PROVE  InKeys(Without(rows, {id}))'
  <2>1. PICK h : h = Without(rows, {id}) /\ IsWithout(h, rows, {id})
    BY Withouts
  <2>2. IsWithout(table, keys, {id})
    BY <1>2, Withouts
  <2>3. \A x \in DOMAIN h : x \in DOMAIN table /\ table[x] = h[x]
    BY <2>1, <2>2 DEF IsWithout, InKeys
  <2> QED BY <1>1, <2>1, <2>3 DEF InKeys
<1>3. ASSUME table = Put(keys, id, s)
      PROVE  InKeys(Put(rows, id, s))'
  <2>1. PICK h : h = Put(rows, id, s) /\ IsPut(h, rows, id, s)
    BY Puts
  <2>2. IsPut(table, keys, id, s)
    BY <1>3, Puts
  <2>3. \A x \in DOMAIN h : x \in DOMAIN table /\ table[x] = h[x]
    BY <2>1, <2>2 DEF IsPut, InKeys
  <2> QED BY <1>1, <2>1, <2>3 DEF InKeys
<1> QED BY <1>1, <1>2, <1>3

LEMMA HoldersKeepKeys ==
  ASSUME KeysInv, NEW c \in Calls, KeyStep(c)
  PROVE  KeysInv'
<1>0. Functions /\ Nobody \notin Calls
  BY CatalogAssumption DEF KeysInv, Nobody, Calls
<1>1. CASE APIKeyCreate(c) \/ APIKeyUpdate(c) \/ APIKeyDelete(c)
  <2>1. PICK r : LockFor(c, r)
    BY <1>1 DEF APIKeyCreate, APIKeyUpdate, APIKeyDelete
  <2>2. /\ OnlyCall(c) /\ pc'[c] = "writeKeys" /\ keyLock = Nobody /\ keyLock' = c
        /\ UNCHANGED <<keys, keySnap>>
    BY <1>0, <2>1 DEF LockFor, Touch, Functions, OnlyCall, tables
  <2>3. \A d \in Calls \ {c} : pc'[d] \notin Holding
    BY <1>0, <2>2 DEF KeysInv, OnlyCall
  <2> QED BY <1>0, <2>2, <2>3 DEF KeysInv, InKeys, Holding, OnlyCall
<1>2. CASE WriteKeys(c)
  <2>1. PICK id, s, rows :
           /\ \/ keys' = Without(keys, {id}) /\ rows = Without(keySnap, {id})
              \/ keys' = Put(keys, id, s) /\ rows = Put(keySnap, id, s)
           /\ Goto(c, "publishKeys", rows)
    BY <1>2 DEF WriteKeys
  <2>2. pc[c] = "writeKeys" /\ UNCHANGED <<keySnap, keyLock>>
    BY <1>2 DEF WriteKeys, caches
  <2>3. OnlyCall(c) /\ pc'[c] = "publishKeys" /\ read'[c] = rows
    BY <1>0, <2>1, GotoMoves
  <2>4. keyLock = c /\ InKeys(keySnap)
    BY <2>2 DEF KeysInv, Holding
  <2>5. InKeys(rows)'
    BY <2>1, <2>2, <2>4, WrittenAlike DEF InKeys
  <2>6. \A d \in Calls \ {c} : pc'[d] \notin Holding
    BY <2>3, <2>4 DEF KeysInv, OnlyCall
  <2> QED BY <1>0, <2>2, <2>3, <2>4, <2>5, <2>6 DEF KeysInv, InKeys, Holding, OnlyCall
<1>3. CASE KeyWriteFails(c)
  <2>1. /\ pc[c] = "writeKeys" /\ keyLock' = Nobody /\ End(c) /\ UNCHANGED <<keys, keySnap>>
    BY <1>3 DEF KeyWriteFails, tables
  <2>2. OnlyCall(c) /\ pc'[c] = "done"
    BY <1>0, <2>1, EndMoves
  <2>3. keyLock = c /\ InKeys(keySnap)
    BY <2>1 DEF KeysInv, Holding
  <2>4. \A d \in Calls : pc'[d] \notin Holding
    BY <2>2, <2>3 DEF KeysInv, OnlyCall, Holding
  <2> QED BY <1>0, <2>1, <2>2, <2>3, <2>4 DEF KeysInv, InKeys, OnlyCall
<1>4. CASE ReadKeys(c)
  <2>1. /\ keyLock = Nobody /\ keyLock' = c /\ Goto(c, "publishKeys", keys)
        /\ UNCHANGED <<keys, keySnap>>
    BY <1>4 DEF ReadKeys, tables
  <2>2. OnlyCall(c) /\ pc'[c] = "publishKeys" /\ read'[c] = keys
    BY <1>0, <2>1, GotoMoves
  <2>3. \A d \in Calls \ {c} : pc'[d] \notin Holding
    BY <1>0, <2>1, <2>2 DEF KeysInv, OnlyCall
  <2> QED BY <1>0, <2>1, <2>2, <2>3 DEF KeysInv, InKeys, Holding, OnlyCall
<1>5. CASE PublishKeys(c)
  <2>1. /\ pc[c] = "publishKeys" /\ keySnap' = read[c] /\ keyLock' = Nobody /\ End(c)
        /\ keys' = keys
    BY <1>5 DEF PublishKeys, tables
  <2>2. OnlyCall(c) /\ pc'[c] = "done"
    BY <1>0, <2>1, EndMoves
  <2>3. keyLock = c /\ InKeys(read[c])
    BY <1>0, <2>1 DEF KeysInv, Holding
  <2>4. \A d \in Calls : pc'[d] \notin Holding
    BY <2>2, <2>3 DEF KeysInv, OnlyCall, Holding
  <2>5. InKeys(keySnap)'
    BY <2>1, <2>3 DEF InKeys
  <2> QED BY <1>0, <2>1, <2>2, <2>4, <2>5 DEF KeysInv, OnlyCall
<1> QED BY <1>1, <1>2, <1>3, <1>4, <1>5 DEF KeyStep

\* Whatever overlaps, a key that was deleted or replaced is not accepted again: while nobody holds
\* the lock, each key of the snapshot is in the table (STA-05, op/apikey.go:236).
THEOREM RevokedKeysAlwaysStayOut ==
  Spec => []RevokedKeysStayOut
<1>1. PdInit => KeysInv
  <2>1. ASSUME PdInit
        PROVE  KeysInv
    <3>1. Functions /\ \A c \in Calls : pc[c] = "new"
      BY <2>1 DEF PdInit, Functions
    <3>2. keyLock = Nobody /\ InKeys(keySnap)
      BY <2>1 DEF PdInit, InKeys
    <3> QED BY <3>1, <3>2 DEF KeysInv, Holding
  <2> QED BY <2>1
<1>2. KeysInv /\ [Next]_panelVars => KeysInv'
  <2> SUFFICES ASSUME KeysInv, [Next]_panelVars
               PROVE  KeysInv'
    OBVIOUS
  <2>1. CASE UNCHANGED panelVars
    BY <2>1 DEF KeysInv, Functions, InKeys, panelVars, tables, caches, calls
  <2>2. CASE Next
    <3>1. PICK c \in Calls :
             GroupStep(c) \/ ChannelStep(c) \/ KeyStep(c) \/ RestoreStep(c) \/ Import(c)
      BY <2>2, Steps
    <3>2. CASE GroupStep(c) \/ ChannelStep(c) \/ RestoreStep(c)
      <4>1. Elsewhere(c) /\ KeysStay
        BY <3>2, GroupsElsewhere, ChannelsElsewhere, RestoreElsewhere DEF KeysInv
      <4> QED BY <4>1, ElsewhereSafe DEF KeysStay
    <3> QED BY <3>1, <3>2, HoldersKeepKeys, ImportAddsKeys
  <2> QED BY <2>1, <2>2
<1>3. KeysInv => RevokedKeysStayOut
  BY DEF KeysInv, InKeys, RevokedKeysStayOut
<1> QED BY <1>1, <1>2, <1>3, PTL DEF Spec

-----------------------------------------------------------------------------
(* Members, references and what is active. *)

LEMMA RefNamesAre ==
  ASSUME NEW items, NEW n
  PROVE  n \in RefNames(items) <=> \E t \in Range(items) : IsGroupRef(t) /\ t.ref = n
  BY DEF RefNames, Range

\* A table with fewer groups and references than one without cycles has none.
LEMMA FewerEdges ==
  ASSUME NEW gs, NEW after, NoCycle(gs), DOMAIN after \subseteq DOMAIN gs,
         \A g \in DOMAIN after : RefEdges(after, g) \subseteq RefEdges(gs, g)
  PROVE  NoCycle(after)
<1> SUFFICES ASSUME NEW s \in SUBSET {g \in DOMAIN after : RefEdges(after, g) # {}}, s # {}
             PROVE  \E g \in s : RefEdges(after, g) \cap s = {}
  BY DEF NoCycle
<1>1. s \subseteq DOMAIN after /\ \A g \in s : RefEdges(after, g) # {}
  OBVIOUS
<1>2. s \in SUBSET {g \in DOMAIN gs : RefEdges(gs, g) # {}}
  BY <1>1
<1>3. PICK g \in s : RefEdges(gs, g) \cap s = {}
  BY <1>2 DEF NoCycle
<1> QED BY <1>1, <1>3

\* Nor has one in which the references of one group lead into a set that is closed and
\* that it is not in.
LEMMA EdgesInto ==
  ASSUME NEW gs, NEW after, NEW g, NEW r \in SUBSET (DOMAIN gs \ {g}), NoCycle(gs),
         DOMAIN after = DOMAIN gs \cup {g},
         \A h \in r : RefEdges(gs, h) \subseteq r,
         \A h \in DOMAIN gs \ {g} : RefEdges(after, h) \subseteq RefEdges(gs, h),
         RefEdges(after, g) \subseteq r
  PROVE  NoCycle(after)
<1> SUFFICES ASSUME NEW s \in SUBSET {h \in DOMAIN after : RefEdges(after, h) # {}}, s # {}
             PROVE  \E h \in s : RefEdges(after, h) \cap s = {}
  BY DEF NoCycle
<1>1. s \subseteq DOMAIN after /\ \A h \in s : RefEdges(after, h) # {}
  OBVIOUS
<1>2. ASSUME NEW part \in SUBSET (s \ {g}), part # {}
      PROVE  \E h \in part : RefEdges(gs, h) \cap part = {}
  <2>1. part \in SUBSET {h \in DOMAIN gs : RefEdges(gs, h) # {}}
    BY <1>1
  <2> QED BY <1>2, <2>1 DEF NoCycle
<1>3. CASE s \cap r # {}
  <2>1. PICK h \in s \cap r : RefEdges(gs, h) \cap (s \cap r) = {}
    BY <1>2, <1>3
  <2>2. RefEdges(after, h) \subseteq RefEdges(gs, h) /\ RefEdges(gs, h) \subseteq r
    OBVIOUS
  <2> QED BY <2>1, <2>2
<1>4. CASE s \cap r = {} /\ g \in s
  BY <1>4
<1>5. CASE g \notin s
  <2>1. PICK h \in s : RefEdges(gs, h) \cap s = {}
    BY <1>2, <1>5
  <2> QED BY <1>1, <1>5, <2>1
<1> QED BY <1>3, <1>4, <1>5

\* A target that a group may have whose references are to lead into r.
LeadsInto(t, r, gs, ms) ==
    IF IsGroupRef(t) THEN \E h \in r : gs[h].name = t.ref ELSE t.model \in DOMAIN ms

\* The row of one group is written.
LEMMA PutHolds ==
  ASSUME NEW gs, NEW ms, NEW g, NEW row, NEW after, NEW r \in SUBSET (DOMAIN gs \ {g}),
         Unique(gs), References(gs, ms), after = Put(gs, g, row),
         \A h \in DOMAIN gs \ {g} : gs[h].name # row.name,
         \A h \in r : RefEdges(gs, h) \subseteq r,
         \A t \in Range(row.items) : LeadsInto(t, r, gs, ms),
         row.active \in DOMAIN row.items \cup {0},
         g \in DOMAIN gs /\ row.name # gs[g].name =>
            \A h \in DOMAIN gs \ {g} : gs[g].name \notin RefNames(gs[h].items)
  PROVE  References(after, ms)
<1>1. IsPut(after, gs, g, row)
  BY Puts
<1>2. MembersPoint(gs, ms) /\ ActiveOwn(gs) /\ NoCycle(gs)
  BY DEF References
<1>3. ASSUME NEW h \in DOMAIN gs \ {g}, NEW t \in Range(gs[h].items), IsGroupRef(t)
      PROVE  \E x \in DOMAIN after : after[x].name = t.ref
  <2>1. PICK x \in DOMAIN gs : gs[x].name = t.ref
    BY <1>2, <1>3 DEF MembersPoint, PointsTo, IdOf
  <2>2. gs[x].name \in RefNames(gs[h].items)
    BY <1>3, <2>1, RefNamesAre
  <2> QED BY <1>1, <2>1, <2>2 DEF IsPut
<1>4. MembersPoint(after, ms)
  <2> SUFFICES ASSUME NEW h \in DOMAIN after, NEW t \in Range(after[h].items)
               PROVE  PointsTo(t, after, ms)
    BY DEF MembersPoint
  <2>1. CASE h = g
    <3>1. LeadsInto(t, r, gs, ms)
      BY <1>1, <2>1 DEF IsPut
    <3>2. \A x \in r : x \in DOMAIN after /\ after[x] = gs[x]
      BY <1>1 DEF IsPut
    <3> QED BY <3>1, <3>2 DEF LeadsInto, PointsTo, IdOf
  <2>2. CASE h # g
    <3>1. h \in DOMAIN gs \ {g} /\ after[h] = gs[h]
      BY <1>1, <2>2 DEF IsPut
    <3>2. PointsTo(t, gs, ms)
      BY <1>2, <3>1 DEF MembersPoint
    <3> QED BY <1>3, <3>1, <3>2 DEF PointsTo, IdOf
  <2> QED BY <2>1, <2>2
<1>5. ActiveOwn(after)
  BY <1>1, <1>2 DEF IsPut, ActiveOwn
<1>6. ASSUME NEW h \in DOMAIN gs \ {g}
      PROVE  RefEdges(after, h) \subseteq RefEdges(gs, h)
  <2> SUFFICES ASSUME NEW x \in RefEdges(after, h)
               PROVE  x \in RefEdges(gs, h)
    OBVIOUS
  <2>1. x \in DOMAIN after /\ after[x].name \in RefNames(gs[h].items)
    BY <1>1 DEF RefEdges, IsPut
  <2>2. PICK t \in Range(gs[h].items) : IsGroupRef(t) /\ t.ref = after[x].name
    BY <2>1, RefNamesAre
  <2>3. PICK y \in DOMAIN gs : gs[y].name = after[x].name
    BY <1>2, <2>2 DEF MembersPoint, PointsTo, IdOf
  <2>4. x = y
    BY <1>1, <2>1, <2>3 DEF IsPut, Unique
  <2> QED BY <2>1, <2>3, <2>4 DEF RefEdges
<1>7. RefEdges(after, g) \subseteq r
  <2> SUFFICES ASSUME NEW x \in RefEdges(after, g)
               PROVE  x \in r
    OBVIOUS
  <2>1. x \in DOMAIN after /\ after[x].name \in RefNames(row.items)
    BY <1>1 DEF RefEdges, IsPut
  <2>2. PICK t \in Range(row.items) : IsGroupRef(t) /\ t.ref = after[x].name
    BY <2>1, RefNamesAre
  <2>3. PICK y \in r : gs[y].name = after[x].name
    BY <2>2 DEF LeadsInto
  <2> QED BY <1>1, <2>1, <2>3 DEF IsPut, Unique
<1>8. DOMAIN after = DOMAIN gs \cup {g}
  BY <1>1 DEF IsPut
<1>9. NoCycle(after)
  BY <1>2, <1>6, <1>7, <1>8, EdgesInto
<1> QED BY <1>4, <1>5, <1>9 DEF References

\* Groups and members go, and what the others point to stays.
LEMMA FewerMembers ==
  ASSUME NEW gs, NEW ms, NEW after, NEW now, References(gs, ms), DOMAIN after \subseteq DOMAIN gs,
         \A g \in DOMAIN after : /\ after[g].name = gs[g].name
                                 /\ Range(after[g].items) \subseteq Range(gs[g].items),
         \A g \in DOMAIN after : \A t \in Range(after[g].items) :
            PointsTo(t, gs, ms) => PointsTo(t, after, now),
         ActiveOwn(after)
  PROVE  References(after, now)
<1>1. MembersPoint(gs, ms) /\ NoCycle(gs)
  BY DEF References
<1>2. MembersPoint(after, now)
  BY <1>1 DEF MembersPoint
<1>3. ASSUME NEW g \in DOMAIN after
      PROVE  RefEdges(after, g) \subseteq RefEdges(gs, g)
  <2>1. RefNames(after[g].items) \subseteq RefNames(gs[g].items)
    BY RefNamesAre
  <2> QED BY <2>1 DEF RefEdges
<1>4. NoCycle(after)
  BY <1>1, <1>3, FewerEdges
<1> QED BY <1>2, <1>4 DEF References

-----------------------------------------------------------------------------
(* What was checked at the beginning still fits when the statement comes. *)

GroupStatements == {"insertGroup", "replaceItems", "updateGroup", "deleteGroup", "setActive"}

\* The references of the group once it is updated lead into a set of groups that it is not in
\* and that references do not leave, and a name that it gives up is referred to by no other.
UpdateFits(g, e) ==
    /\ \E r \in SUBSET (DOMAIN groups \ {g}) :
          /\ \A h \in r : RefEdges(groups, h) \subseteq r
          /\ \A t \in Range(e.add) \cup Range(Without(groups[g].items, e.drop)) :
                LeadsInto(t, r, groups, models)
    /\ e.name \notin {"", groups[g].name} => ~\E h \in DOMAIN groups \ {g} :
          groups[g].name \in RefNames(groups[h].items)

\* What was checked of the caches holds of the tables when the statement comes.
Fits(c) ==
    /\ pc[c] \in {"insertGroup", "replaceItems"} => arg[c].add \in Seq(Range(arg[c].add))
    /\ pc[c] = "insertGroup" => \A t \in Range(arg[c].add) : PointsTo(t, groups, models)
    /\ pc[c] = "replaceItems" => \A t \in Range(arg[c].add) : t.model \in DOMAIN models
    /\ pc[c] = "updateGroup" => /\ arg[c].edit.add \in Seq(Range(arg[c].edit.add))
                               /\ UpdateFits(arg[c].on, arg[c].edit)
    /\ pc[c] = "deleteGroup" => ~\E h \in DOMAIN groups \ {arg[c].on} :
                                    arg[c].name \in RefNames(groups[h].items)
    /\ pc[c] = "setActive" => arg[c].row.active \in DOMAIN groups[arg[c].on].items \cup {0}

\* A member that is no reference has the id of a model, so that none may be zero.
Positive(id) == id > 0 /\ 0 \notin DOMAIN models

RefBody ==
    /\ suspect \cap {"models", "groups", "names"} = {}
    /\ Positive(nextId)
    /\ ItemsBelow(groups, nextId)
    /\ References(groups, models)
    /\ \A c \in Calls : Fits(c)

RefInv == "references" \notin suspect => RefBody

-----------------------------------------------------------------------------
(* Steps that write groups, and steps that do not. *)

\* The mark of references stays for good, and comes with those of what they are checked against.
MarksStay ==
    /\ "references" \in suspect => "references" \in suspect'
    /\ "references" \notin suspect' => suspect' \cap {"models", "groups", "names"} \subseteq suspect

LEMMA Marks ==
  ASSUME NEW c, \/ suspect' = suspect \/ \E xs : Tangle(xs)
                \/ \E xs \in SUBSET Caches : Reread(c, xs)
  PROVE  MarksStay
  BY DEF MarksStay, Tangle, Spoils, Reread, Caches

LEMMA Primed ==
  /\ References(groups', models') => References(groups, models)'
  /\ ItemsBelow(groups', nextId') => ItemsBelow(groups, nextId)'
<1>1. References(groups', models') => References(groups, models)'
  BY DEF References, MembersPoint, ActiveOwn, NoCycle, RefEdges, RefNames, PointsTo, IsGroupRef, IdOf
<1>2. ItemsBelow(groups', nextId') => ItemsBelow(groups, nextId)'
  BY DEF ItemsBelow, IdsBelow, IsItem
<1> QED BY <1>1, <1>2

MoreModels == DOMAIN models \subseteq DOMAIN models' /\ (Positive(nextId) => Positive(nextId)')

LEMMA FitsStays ==
  ASSUME NEW d, Fits(d), UNCHANGED <<pc[d], arg[d]>>, groups' = groups,
         DOMAIN models \subseteq DOMAIN models'
  PROVE  Fits(d)'
<1>1. \A t : PointsTo(t, groups, models) => PointsTo(t, groups', models')
  BY DEF PointsTo
<1>2. \A t, r : LeadsInto(t, r, groups, models) => LeadsInto(t, r, groups', models')
  BY DEF LeadsInto
<1>3. \A g, e : UpdateFits(g, e) => UpdateFits(g, e)'
  BY <1>2 DEF UpdateFits
<1> QED BY <1>1, <1>3 DEF Fits

\* A step that writes no groups.
LEMMA MoveHolds ==
  ASSUME CatalogInv, RefInv, NEW c \in Calls, OnlyCall(c), groups' = groups, MoreModels, Grows,
         MarksStay, "references" \notin suspect' => Fits(c)'
  PROVE  RefInv'
<1> SUFFICES ASSUME "references" \notin suspect'
             PROVE  RefBody'
  BY DEF RefInv
<1>1. RefBody
  BY DEF RefInv, MarksStay
<1>2. suspect' \cap {"models", "groups", "names"} = {}
  BY <1>1 DEF MarksStay, RefBody
<1>3. Positive(nextId)'
  BY <1>1 DEF RefBody, MoreModels
<1>4. ItemsBelow(groups, nextId)'
  <2>1. ItemsBelow(groups', nextId')
    BY <1>1, IdsTyped DEF RefBody, ItemsBelow, IdsBelow, Grows
  <2> QED BY <2>1, Primed
<1>5. References(groups, models)'
  <2>1. MembersPoint(groups', models')
    BY <1>1 DEF RefBody, References, MembersPoint, PointsTo, MoreModels
  <2>2. References(groups', models')
    BY <1>1, <2>1 DEF RefBody, References
  <2> QED BY <2>2, Primed
<1>6. ASSUME NEW d \in Calls
      PROVE  Fits(d)'
  <2>1. CASE d # c
    BY <1>1, <2>1, FitsStays DEF RefBody, OnlyCall, MoreModels
  <2> QED BY <2>1
<1> QED BY <1>2, <1>3, <1>4, <1>5, <1>6 DEF RefBody

\* A statement that writes groups: nobody else is about to.
LEMMA WriteHolds ==
  ASSUME CatalogInv, RefInv, NEW c \in Calls, OnlyCall(c), "groups" \in busy[c],
         pc'[c] \notin GroupStatements, suspect' = suspect,
         RefBody => /\ Positive(nextId)' /\ ItemsBelow(groups', nextId')
                    /\ References(groups', models')
  PROVE  RefInv'
<1> SUFFICES ASSUME "references" \notin suspect'
             PROVE  RefBody'
  BY DEF RefInv
<1>1. RefBody
  BY DEF RefInv
<1>2. ASSUME NEW d \in Calls
      PROVE  Fits(d)'
  <2>1. pc'[d] \notin GroupStatements
    <3>1. CASE d # c
      <4>1. "groups" \in Caches \ suspect
        BY <1>1 DEF RefBody, Caches
      <4>2. "groups" \notin busy[d]
        BY <3>1, <4>1 DEF CatalogInv, CachesReady
      <4>3. pc[d] \notin GroupStatements
        BY <4>2, BusyNow DEF BusyTyped, GroupStatements
      <4> QED BY <3>1, <4>3 DEF OnlyCall
    <3> QED BY <3>1
  <2> QED BY <2>1 DEF Fits, GroupStatements
<1>3. ItemsBelow(groups, nextId)' /\ References(groups, models)'
  BY <1>1, Primed
<1> QED BY <1>1, <1>2, <1>3 DEF RefBody

-----------------------------------------------------------------------------
(* Calls on groups begin. *)

\* A call that is going to write groups, beside no other: what it checks is in the tables.
LEMMA BeginsAlone ==
  ASSUME CatalogInv, RefInv, NEW c \in Calls, NEW next, NEW request, NEW xs \in SUBSET Caches,
         Begin(c, next, request, xs), "groups" \in xs, "references" \notin suspect'
  PROVE  /\ RefBody /\ groupCache = groups /\ DOMAIN modelCache \subseteq DOMAIN models
         /\ "names" \in xs => nameIndex = NamesOf(groups)
<1>1. /\ pc[c] = "new" /\ suspect' = suspect \cup Spoils(Shared(c, xs))
  BY BeginMoves DEF CatalogInv, PanelTyped
<1>2. RefBody
  BY <1>1 DEF RefInv
<1>3. \A x \in {"models", "groups", "names"} : x \in Caches \ suspect
  BY <1>2 DEF RefBody, Caches
<1>4. \A x \in {"models", "groups", "names"} : x \notin Shared(c, xs)
  BY <1>1 DEF Spoils
<1>5. busy[c] = {}
  BY <1>1, BusyNow DEF BusyTyped
<1>6. \A x \in xs \cap {"groups", "names"} : \A d \in Calls : x \notin busy[d]
  BY <1>4, <1>5 DEF Shared
<1>7. \A x \in xs \cap {"groups", "names"} : Cache(x) = Table(x)
  BY <1>3, <1>6 DEF CatalogInv, CachesReady
<1>8. groupCache = groups /\ ("names" \in xs => nameIndex = NamesOf(groups))
  BY <1>7 DEF Cache, Table
<1>9. DOMAIN modelCache \subseteq DOMAIN models
  <2>1. CASE \A d \in Calls : "models" \notin busy[d]
    BY <1>3, <2>1 DEF CatalogInv, CachesReady, Cache, Table
  <2>2. ASSUME NEW d \in Calls, "models" \in busy[d]
        PROVE  DOMAIN modelCache \subseteq DOMAIN models
    <3>1. "groups" \notin busy[d]
      BY <1>6
    <3>2. Ready(d, "models")
      BY <1>3, <2>2 DEF CatalogInv, CachesReady
    <3>3. pc[d] \notin {"publishChannel", "forgetChannel", "readGroups", "import"} \cup Refreshing
      BY <2>2, <3>1, BusyNow DEF BusyTyped, RouteCaches, Caches
    <3>4. ~Unfetched(d, "models")
      BY <3>3 DEF Unfetched, Refreshing
    <3>5. Publishes(d, "models") = models
      BY <3>2, <3>4 DEF Ready, Table
    <3>6. CASE pc[d] = "publishNew"
      <4>1. Publishes(d, "models") = Over(read[d].models, modelCache)
        BY <3>6 DEF Publishes
      <4> QED BY <3>5, <4>1, Overs DEF IsOver
    <3>7. CASE pc[d] # "publishNew"
      <4>1. pc[d] # "publishActive" /\ pc[d] # "publishEnabled" /\ pc[d] # "publishSetting"
        BY <2>2, BusyNow DEF BusyTyped
      <4>2. Publishes(d, "models") = modelCache
        BY <3>3, <3>7, <4>1 DEF Publishes, Refreshing, Cache
      <4> QED BY <3>5, <4>2
    <3> QED BY <3>6, <3>7
  <2> QED BY <2>1, <2>2
<1> QED BY <1>2, <1>8, <1>9

\* It begins, and what it has checked fits.
LEMMA BeginHolds ==
  ASSUME CatalogInv, RefInv, NEW c \in Calls, NEW next, NEW request, NEW xs,
         Begin(c, next, request, xs),
         pc'[c] = next /\ arg'[c] = request /\ "references" \notin suspect' => Fits(c)'
  PROVE  RefInv'
<1>1. /\ OnlyCall(c) /\ pc'[c] = next /\ arg'[c] = request /\ UNCHANGED tables
      /\ suspect' = suspect \cup Spoils(Shared(c, xs))
  BY BeginMoves DEF CatalogInv, PanelTyped
<1>2. MarksStay
  BY <1>1 DEF MarksStay, Spoils
<1>3. groups' = groups /\ MoreModels /\ Grows
  BY <1>1, IdsTyped DEF tables, MoreModels, Positive, Grows
<1> QED BY <1>1, <1>2, <1>3, MoveHolds

LEMMA ResolvedIs ==
  ASSUME CatalogInv, groupCache = groups, nameIndex = NamesOf(groups), NEW n
  PROVE  Resolved(n) = IdOf(groups, n)
<1>1. Unique(groups) /\ Finds(nameIndex, groups)
  BY IdsTyped, IndexFinds
<1>2. CASE n \in DOMAIN nameIndex
  <2>1. nameIndex[n] \in DOMAIN groups /\ groups[nameIndex[n]].name = n
    BY <1>1, <1>2 DEF Finds
  <2>2. Resolved(n) = {nameIndex[n]}
    BY <1>2, <2>1 DEF Resolved
  <2> QED BY <1>1, <2>1, <2>2 DEF IdOf, Unique
<1>3. CASE n \notin DOMAIN nameIndex
  BY <1>1, <1>3 DEF Resolved, IdOf, Finds
<1> QED BY <1>2, <1>3

LEMMA ReferencedAre ==
  ASSUME CatalogInv, groupCache = groups, nameIndex = NamesOf(groups), NEW g
  PROVE  Referenced(g) = RefEdges(groups, g)
  BY ResolvedIs DEF Referenced, RefEdges, IdOf

\* The ends of the paths from a group, none of them too long, are a set that references do not
\* leave.
LEMMA PathsClosed ==
  ASSUME CatalogInv, groupCache = groups, nameIndex = NamesOf(groups), NEW h \in DOMAIN groups,
         \A p \in RefPaths(h) : Len(p) <= MaxGroupRefDepth,
         NEW r, r = {Last(p) : p \in RefPaths(h)}
  PROVE  h \in r /\ r \subseteq DOMAIN groups /\ \A x \in r : RefEdges(groups, x) \subseteq r
<1> DEFINE D == DOMAIN groups
           N == MaxGroupRefDepth
<1>0. N \in Nat
  BY CatalogAssumption
<1> HIDE DEF N
<1>1. \A p : p \in RefPaths(h) <=>
               /\ \E m \in 1 .. N + 1 : p \in [1 .. m -> D] /\ Len(p) = m
               /\ p[1] = h /\ \A i \in 1 .. Len(p) - 1 : p[i + 1] \in RefEdges(groups, p[i])
  <2>1. \A m \in Nat : \A p \in [1 .. m -> D] : p \in Seq(D) /\ Len(p) = m
    BY SMT
  <2>2. \A p : p \in SeqOf(D, N + 1) /\ p # <<>> <=>
                 \E m \in 1 .. N + 1 : p \in [1 .. m -> D] /\ Len(p) = m
    <3> SUFFICES ASSUME NEW p
                 PROVE  p \in SeqOf(D, N + 1) /\ p # <<>> <=>
                          \E m \in 1 .. N + 1 : p \in [1 .. m -> D] /\ Len(p) = m
      OBVIOUS
    <3>1. ASSUME p \in SeqOf(D, N + 1), p # <<>>
          PROVE  \E m \in 1 .. N + 1 : p \in [1 .. m -> D] /\ Len(p) = m
      <4>1. PICK m \in 0 .. N + 1 : p \in [1 .. m -> D]
        BY <3>1 DEF SeqOf
      <4>2. p \in Seq(D) /\ Len(p) = m
        BY <1>0, <2>1, <4>1
      <4>3. m # 0
        BY <3>1, <4>2, EmptySeq
      <4> QED BY <1>0, <4>1, <4>2, <4>3
    <3>2. ASSUME NEW m \in 1 .. N + 1, p \in [1 .. m -> D], Len(p) = m
          PROVE  p \in SeqOf(D, N + 1) /\ p # <<>>
      <4>1. m \in 0 .. N + 1 /\ m # 0
        BY <1>0
      <4>2. p # <<>>
        BY <3>2, <4>1, EmptySeq
      <4> QED BY <3>2, <4>1, <4>2 DEF SeqOf
    <3> QED BY <3>1, <3>2
  <2>3. \A x : Referenced(x) = RefEdges(groups, x)
    BY ReferencedAre
  <2> QED BY <2>2, <2>3 DEF RefPaths, N
<1>2. h \in r
  <2>1. PICK p : p = [i \in 1 .. 1 |-> h]
    OBVIOUS
  <2>2. p \in [1 .. 1 -> D] /\ Len(p) = 1 /\ p[1] = h
    BY <2>1
  <2>3. 1 \in 1 .. N + 1
    BY <1>0
  <2>4. \A i \in 1 .. Len(p) - 1 : p[i + 1] \in RefEdges(groups, p[i])
    BY <2>2
  <2>5. p \in RefPaths(h)
    BY <1>1, <2>2, <2>3, <2>4
  <2> QED BY <2>2, <2>5 DEF Last
<1>3. ASSUME NEW x \in r
      PROVE  x \in D /\ RefEdges(groups, x) \subseteq r
  <2>1. PICK p \in RefPaths(h) : x = Last(p)
    OBVIOUS
  <2>2. PICK m \in 1 .. N + 1 : p \in [1 .. m -> D] /\ Len(p) = m
    BY <1>1
  <2>3. m <= N /\ m \in Nat
    BY <1>0, <2>2 DEF N
  <2>4. x = p[m] /\ x \in D
    BY <2>1, <2>2 DEF Last
  <2>5. ASSUME NEW y \in RefEdges(groups, x)
        PROVE  y \in r
    <3>1. PICK q : q = [i \in 1 .. m + 1 |-> IF i = m + 1 THEN y ELSE p[i]]
      OBVIOUS
    <3>2. y \in D
      BY DEF RefEdges
    <3>3. q \in [1 .. m + 1 -> D] /\ Len(q) = m + 1
      BY <2>2, <2>3, <3>1, <3>2
    <3>4. q[m + 1] = y /\ \A i \in 1 .. m : q[i] = p[i]
      BY <2>3, <3>1
    <3>5. q[1] = h
      BY <1>1, <2>2, <3>4
    <3>6. \A i \in 1 .. m : q[i + 1] \in RefEdges(groups, q[i])
      BY <1>1, <2>2, <2>3, <2>4, <3>4
    <3>7. q \in RefPaths(h)
      <4>1. m + 1 \in 1 .. N + 1
        BY <1>0, <2>3
      <4>2. \A i \in 1 .. Len(q) - 1 : q[i + 1] \in RefEdges(groups, q[i])
        BY <2>3, <3>3, <3>6
      <4> QED BY <1>1, <3>3, <3>5, <4>1, <4>2
    <3>8. Last(q) = y
      BY <3>3, <3>4 DEF Last
    <3> QED BY <3>7, <3>8
  <2> QED BY <2>4, <2>5
<1> QED BY <1>2, <1>3

\* Members have what the targets of the request say, and ids of their own.
Alike(t, u) == t.model = u.model /\ t.ref = u.ref

LEMMA NewItemsAre ==
  ASSUME NEW add, add \in Seq(Range(add)), NEW first \in Int,
         NEW items, items = NewItems(add, first)
  PROVE  /\ Len(add) \in Nat
         /\ \A i \in DOMAIN items : /\ i \in Int /\ first <= i /\ i < first + Len(add)
                                    /\ IsItem(items[i])
                                    /\ \E u \in Range(add) : Alike(items[i], u)
         /\ \A u \in Range(add) : \E i \in DOMAIN items : Alike(items[i], u)
<1>1. Len(add) \in Nat /\ DOMAIN add = 1 .. Len(add)
  BY LenProperties
<1>2. /\ DOMAIN items = first .. first + Len(add) - 1
      /\ \A i \in DOMAIN items :
            items[i] = [model |-> add[i - first + 1].model, ref |-> add[i - first + 1].ref,
                        priority |-> 1]
  BY DEF NewItems
<1>3. ASSUME NEW i \in DOMAIN items
      PROVE  /\ i \in Int /\ first <= i /\ i < first + Len(add)
             /\ IsItem(items[i])
             /\ \E u \in Range(add) : Alike(items[i], u)
  <2>1. i \in Int /\ first <= i /\ i < first + Len(add) /\ i - first + 1 \in DOMAIN add
    BY <1>1, <1>2
  <2>2. PICK u \in Range(add) : u = add[i - first + 1]
    BY <2>1 DEF Range
  <2>3. items[i] = [model |-> u.model, ref |-> u.ref, priority |-> 1]
    BY <1>2, <2>2
  <2>4. IsItem(items[i]) /\ Alike(items[i], u)
    BY <2>3 DEF IsItem, Alike
  <2> QED BY <2>1, <2>4
<1>4. ASSUME NEW u \in Range(add)
      PROVE  \E i \in DOMAIN items : Alike(items[i], u)
  <2>1. PICK j \in 1 .. Len(add) : u = add[j]
    BY <1>1 DEF Range
  <2>2. PICK i \in Int : i = first + j - 1
    BY <1>1
  <2>3. i \in DOMAIN items /\ i - first + 1 = j
    BY <1>1, <1>2, <2>2
  <2>4. items[i] = [model |-> u.model, ref |-> u.ref, priority |-> 1]
    BY <1>2, <2>1, <2>3
  <2> QED BY <2>3, <2>4 DEF Alike
<1> QED BY <1>1, <1>3, <1>4

LEMMA AlikeLead ==
  ASSUME NEW t, NEW u, Alike(t, u)
  PROVE  /\ IsGroupRef(t) <=> IsGroupRef(u)
         /\ \A r, gs, ms : LeadsInto(t, r, gs, ms) <=> LeadsInto(u, r, gs, ms)
  BY DEF Alike, IsGroupRef, LeadsInto

LEMMA GroupCreateHolds ==
  ASSUME CatalogInv, RefInv, NEW c \in Calls, GroupCreate(c)
  PROVE  RefInv'
<1>1. PICK g, items :
         /\ g \in NewGroups /\ items = NewItems(g.add, 1) /\ ItemsExist(g.add)
         /\ \A n \in RefNames(items) : Resolved(n) # {}
         /\ Begin(c, "insertGroup", g, {"groups", "names"})
  BY DEF GroupCreate, RefAllowed
<1>2. g.add \in Seq(Range(g.add))
  BY <1>1, AddsTyped
<1>3. \A u \in Range(g.add) : \E i \in DOMAIN items : Alike(items[i], u)
  BY <1>1, <1>2, NewItemsAre
<1>4. ASSUME pc'[c] = "insertGroup" /\ arg'[c] = g /\ "references" \notin suspect'
      PROVE  Fits(c)'
  <2>1. {"groups", "names"} \in SUBSET Caches
    BY DEF Caches
  <2>2. /\ groupCache = groups /\ nameIndex = NamesOf(groups)
        /\ DOMAIN modelCache \subseteq DOMAIN models
    BY <1>1, <1>4, <2>1, BeginsAlone
  <2>3. ASSUME NEW u \in Range(g.add)
        PROVE  PointsTo(u, groups, models)
    <3>1. CASE IsGroupRef(u)
      <4>1. PICK i \in DOMAIN items : Alike(items[i], u)
        BY <1>3
      <4>2. u.ref \in RefNames(items)
        BY <3>1, <4>1, AlikeLead DEF RefNames, Alike
      <4>3. IdOf(groups, u.ref) # {}
        BY <1>1, <2>2, <4>2, ResolvedIs
      <4> QED BY <3>1, <4>3 DEF PointsTo
    <3>2. CASE ~IsGroupRef(u)
      BY <1>1, <2>2, <3>2 DEF ItemsExist, PointsTo
    <3> QED BY <3>1, <3>2
  <2>4. groups' = groups /\ models' = models
    BY <1>1, BeginMoves DEF CatalogInv, PanelTyped, tables
  <2>5. \A u \in Range(g.add) : PointsTo(u, groups', models')
    BY <2>3, <2>4
  <2> QED BY <1>2, <1>4, <2>5 DEF Fits
<1> QED BY <1>1, <1>4, BeginHolds

LEMMA GroupReplaceHolds ==
  ASSUME CatalogInv, RefInv, NEW c \in Calls, GroupReplaceItemsByName(c)
  PROVE  RefInv'
<1>1. PICK g \in Rankings :
         /\ \A u \in Range(g.add) : u.model \in DOMAIN modelCache
         /\ Begin(c, "replaceItems", g, {"groups", "names"})
  BY DEF GroupReplaceItemsByName
<1>2. g.add \in Seq(Range(g.add))
  BY AddsTyped
<1>3. ASSUME pc'[c] = "replaceItems" /\ arg'[c] = g /\ "references" \notin suspect'
      PROVE  Fits(c)'
  <2>1. {"groups", "names"} \in SUBSET Caches
    BY DEF Caches
  <2>2. DOMAIN modelCache \subseteq DOMAIN models
    BY <1>1, <1>3, <2>1, BeginsAlone
  <2>3. models' = models
    BY <1>1, BeginMoves DEF CatalogInv, PanelTyped, tables
  <2> QED BY <1>1, <1>2, <1>3, <2>2, <2>3 DEF Fits
<1> QED BY <1>1, <1>3, BeginHolds

LEMMA GroupActiveHolds ==
  ASSUME CatalogInv, RefInv, NEW c \in Calls, GroupActiveItemUpdate(c)
  PROVE  RefInv'
<1>1. PICK g \in DOMAIN groupCache : \E i \in DOMAIN groupCache[g].items \cup {0} :
         Begin(c, "setActive", [on |-> g, row |-> [groupCache[g] EXCEPT !.active = i]], {"groups"})
  BY DEF GroupActiveItemUpdate
<1>2. PICK i, r :
         /\ i \in DOMAIN groupCache[g].items \cup {0} /\ r.on = g /\ r.row = [groupCache[g] EXCEPT !.active = i]
         /\ Begin(c, "setActive", r, {"groups"})
  BY <1>1
<1>3. ASSUME pc'[c] = "setActive" /\ arg'[c] = r /\ "references" \notin suspect'
      PROVE  Fits(c)'
  <2>1. {"groups"} \in SUBSET Caches
    BY DEF Caches
  <2>2. groupCache = groups
    BY <1>2, <1>3, <2>1, BeginsAlone
  <2>3. groups[g] = [name |-> groups[g].name, active |-> groups[g].active, items |-> groups[g].items]
    BY <1>1, <2>2 DEF CatalogInv, PanelTyped, GroupsTyped, IsGroupRow
  <2>4. r.row.active = i
    BY <1>2, <2>2, <2>3
  <2>5. groups' = groups
    BY <1>2, BeginMoves DEF CatalogInv, PanelTyped, tables
  <2> QED BY <1>2, <1>3, <2>2, <2>4, <2>5 DEF Fits
<1> QED BY <1>2, <1>3, BeginHolds

LEMMA GroupDelHolds ==
  ASSUME CatalogInv, RefInv, NEW c \in Calls, GroupDel(c)
  PROVE  RefInv'
<1>1. PICK g, r :
         /\ r.on = g /\ r.name = groupCache[g].name /\ ~Referred(r.name, g)
         /\ Begin(c, "deleteGroup", r, {"groups", "names"})
  <2>1. PICK g \in DOMAIN groupCache :
           /\ ~Referred(groupCache[g].name, g)
           /\ Begin(c, "deleteGroup", [on |-> g, name |-> groupCache[g].name], {"groups", "names"})
    BY DEF GroupDel
  <2>2. PICK r : r = [on |-> g, name |-> groupCache[g].name]
    OBVIOUS
  <2> QED BY <2>1, <2>2
<1>2. ASSUME pc'[c] = "deleteGroup" /\ arg'[c] = r /\ "references" \notin suspect'
      PROVE  Fits(c)'
  <2>1. {"groups", "names"} \in SUBSET Caches
    BY DEF Caches
  <2>2. groupCache = groups
    BY <1>1, <1>2, <2>1, BeginsAlone
  <2>3. groups' = groups
    BY <1>1, BeginMoves DEF CatalogInv, PanelTyped, tables
  <2> QED BY <1>1, <1>2, <2>2, <2>3 DEF Fits, Referred
<1> QED BY <1>1, <1>2, BeginHolds

\* The references that an update checks lead into the groups that paths from them reach.
LEMMA ReachFits ==
  ASSUME CatalogInv, groupCache = groups, nameIndex = NamesOf(groups), NEW g, NEW names,
         \A n \in names : RefAllowed(n, {g})
  PROVE  \E r \in SUBSET (DOMAIN groups \ {g}) :
            /\ \A h \in r : RefEdges(groups, h) \subseteq r
            /\ \A n \in names : \E h \in r : groups[h].name = n
<1> DEFINE Starting == UNION {Resolved(n) : n \in names}
           Reach(h) == {Last(p) : p \in RefPaths(h)}
           r == UNION {Reach(h) : h \in Starting}
<1>1. \A n : Resolved(n) = {h \in DOMAIN groups : groups[h].name = n}
  BY ResolvedIs DEF IdOf
<1>2. \A h \in Starting : h \in DOMAIN groups
  BY <1>1
<1>3. \A h \in Starting : \A p \in RefPaths(h) : Last(p) # g /\ Len(p) <= MaxGroupRefDepth
  BY DEF RefAllowed
<1>4. ASSUME NEW h \in Starting
      PROVE  /\ h \in Reach(h) /\ Reach(h) \subseteq DOMAIN groups
             /\ \A x \in Reach(h) : RefEdges(groups, x) \subseteq Reach(h)
  BY <1>2, <1>3, PathsClosed
<1>5. \A h \in Starting : g \notin Reach(h)
  BY <1>3
<1>6. ASSUME NEW n \in names
      PROVE  \E h \in Starting : groups[h].name = n
  <2>1. Resolved(n) # {}
    BY DEF RefAllowed
  <2> QED BY <1>1, <2>1
<1> HIDE DEF Starting, Reach
<1>7. r \in SUBSET (DOMAIN groups \ {g})
  BY <1>4, <1>5
<1>8. \A h \in r : RefEdges(groups, h) \subseteq r
  BY <1>4
<1>9. \A n \in names : \E h \in r : groups[h].name = n
  BY <1>4, <1>6
<1> QED BY <1>7, <1>8, <1>9

\* The members as the check of an update has them.
LEMMA CheckedMembers ==
  ASSUME NEW old, NEW drop, NEW add, add \in Seq(Range(add)), NEW first \in Int,
         IdsBelow(old, first), NEW items,
         items = Over(Without(old, drop), NewItems(add, first))
  PROVE  /\ \A t \in Range(Without(old, drop)) : IsGroupRef(t) => t.ref \in RefNames(items)
         /\ \A u \in Range(add) : IsGroupRef(u) => u.ref \in RefNames(items)
<1>1. PICK kept, new : /\ kept = Without(old, drop) /\ new = NewItems(add, first)
                       /\ IsOver(items, kept, new) /\ IsWithout(kept, old, drop)
  BY Overs, Withouts
<1>2. ASSUME NEW t \in Range(kept), IsGroupRef(t)
      PROVE  t.ref \in RefNames(items)
  BY <1>1, <1>2 DEF Range, RefNames, IsOver
<1>3. ASSUME NEW u \in Range(add), IsGroupRef(u)
      PROVE  u.ref \in RefNames(items)
  <2>1. PICK i \in DOMAIN new : Alike(new[i], u)
    BY <1>1, NewItemsAre
  <2>2. i \in Int /\ first <= i
    BY <1>1, NewItemsAre
  <2>3. i \notin DOMAIN kept
    BY <1>1, <2>2 DEF IsWithout, IdsBelow
  <2>4. i \in DOMAIN items /\ items[i] = new[i]
    BY <1>1, <2>3 DEF IsOver
  <2>5. IsGroupRef(items[i]) /\ items[i].ref = u.ref
    BY <1>3, <2>1, <2>4, AlikeLead DEF Alike
  <2> QED BY <2>4, <2>5 DEF RefNames
<1> QED BY <1>1, <1>2, <1>3

LEMMA UpdateFitsStays ==
  ASSUME NEW g, NEW e, UpdateFits(g, e), groups' = groups, models' = models
  PROVE  UpdateFits(g, e)'
<1>1. \A t, r : LeadsInto(t, r, groups, models) => LeadsInto(t, r, groups', models')
  OBVIOUS
<1> QED BY <1>1 DEF UpdateFits

LEMMA GroupUpdateHolds ==
  ASSUME CatalogInv, RefInv, NEW c \in Calls, GroupUpdate(c)
  PROVE  RefInv'
<1>1. PICK g, e, items, r :
         /\ g \in DOMAIN groupCache /\ e \in GroupEdits
         /\ items = Over(Without(groupCache[g].items, e.drop), NewItems(e.add, nextId))
         /\ e.name \notin {"", groupCache[g].name} => ~Referred(groupCache[g].name, g)
         /\ ItemsExist(e.add)
         /\ \A n \in RefNames(items) : RefAllowed(n, {g})
         /\ r.on = g /\ r.edit = e
         /\ Begin(c, "updateGroup", r, {"groups", "names"})
  <2>1. PICK g \in DOMAIN groupCache, e \in GroupEdits :
           /\ e.name \notin {"", groupCache[g].name} => ~Referred(groupCache[g].name, g)
           /\ ItemsExist(e.add)
           /\ \A n \in RefNames(Over(Without(groupCache[g].items, e.drop), NewItems(e.add, nextId))) :
                 RefAllowed(n, {g})
           /\ Begin(c, "updateGroup", [on |-> g, edit |-> e, name |-> groupCache[g].name],
                    {"groups", "names"})
    BY DEF GroupUpdate
  <2>2. PICK r : r = [on |-> g, edit |-> e, name |-> groupCache[g].name]
    OBVIOUS
  <2>3. r.on = g /\ r.edit = e
    BY <2>2
  <2> QED BY <2>1, <2>2, <2>3
<1>2. e.add \in Seq(Range(e.add))
  BY <1>1, AddsTyped
<1>3. ASSUME pc'[c] = "updateGroup" /\ arg'[c] = r /\ "references" \notin suspect'
      PROVE  Fits(c)'
  <2>1. {"groups", "names"} \in SUBSET Caches
    BY DEF Caches
  <2>2. /\ groupCache = groups /\ nameIndex = NamesOf(groups) /\ RefBody
        /\ DOMAIN modelCache \subseteq DOMAIN models
    BY <1>1, <1>3, <2>1, BeginsAlone
  <2>3. PICK old : old = groups[g].items
    OBVIOUS
  <2>4. IdsBelow(old, nextId) /\ nextId \in Int
    BY <1>1, <2>2, <2>3, IdsTyped DEF RefBody, ItemsBelow
  <2>5. /\ \A t \in Range(Without(old, e.drop)) : IsGroupRef(t) => t.ref \in RefNames(items)
        /\ \A u \in Range(e.add) : IsGroupRef(u) => u.ref \in RefNames(items)
    BY <1>1, <1>2, <2>2, <2>3, <2>4, CheckedMembers
  <2>6. PICK into \in SUBSET (DOMAIN groups \ {g}) :
           /\ \A h \in into : RefEdges(groups, h) \subseteq into
           /\ \A n \in RefNames(items) : \E h \in into : groups[h].name = n
    <3>1. PICK names : names = RefNames(items)
      OBVIOUS
    <3>2. \A n \in names : RefAllowed(n, {g})
      BY <1>1, <3>1
    <3>3. \E into \in SUBSET (DOMAIN groups \ {g}) :
             /\ \A h \in into : RefEdges(groups, h) \subseteq into
             /\ \A n \in names : \E h \in into : groups[h].name = n
      BY ONLY CatalogInv, <2>2, <3>2, ReachFits
    <3> QED BY <3>1, <3>3
  <2>7. ASSUME NEW t \in Range(e.add) \cup Range(Without(old, e.drop))
        PROVE  LeadsInto(t, into, groups, models)
    <3>1. CASE IsGroupRef(t)
      BY <2>5, <2>6, <3>1 DEF LeadsInto
    <3>2. CASE ~IsGroupRef(t) /\ t \in Range(e.add)
      BY <1>1, <2>2, <3>2 DEF ItemsExist, LeadsInto
    <3>3. CASE ~IsGroupRef(t) /\ t \in Range(Without(old, e.drop))
      <4>1. IsWithout(Without(old, e.drop), old, e.drop)
        BY Withouts
      <4>2. t \in Range(old)
        BY <3>3, <4>1 DEF Range, IsWithout
      <4>3. PointsTo(t, groups, models)
        BY <1>1, <2>2, <2>3, <4>2 DEF RefBody, References, MembersPoint
      <4> QED BY <3>3, <4>3 DEF PointsTo, LeadsInto
    <3> QED BY <3>1, <3>2, <3>3
  <2>8. UpdateFits(g, e)
    BY <1>1, <2>2, <2>3, <2>6, <2>7 DEF UpdateFits, Referred
  <2>9. groups' = groups /\ models' = models
    BY <1>1, BeginMoves DEF CatalogInv, PanelTyped, tables
  <2>10. UpdateFits(g, e)'
    BY <2>8, <2>9, UpdateFitsStays
  <2>11. arg'[c].on = g /\ arg'[c].edit = e
    BY <1>1, <1>3
  <2>12. UpdateFits(arg[c].on, arg[c].edit)'
    BY <2>10, <2>11 DEF UpdateFits
  <2> QED BY <1>2, <1>3, <2>11, <2>12 DEF Fits
<1> QED BY <1>1, <1>3, BeginHolds

-----------------------------------------------------------------------------
(* Groups are written. *)

\* What the row of a group may be.
RowFits(g, row) ==
    /\ IdsBelow(row.items, nextId') /\ \A t \in Range(row.items) : IsItem(t)
    /\ row.active \in DOMAIN row.items \cup {0}
    /\ \E r \in SUBSET (DOMAIN groups \ {g}) :
          /\ \A h \in r : RefEdges(groups, h) \subseteq r
          /\ \A t \in Range(row.items) : LeadsInto(t, r, groups, models)
    /\ g \in DOMAIN groups /\ row.name # groups[g].name =>
          \A h \in DOMAIN groups \ {g} : groups[g].name \notin RefNames(groups[h].items)

LEMMA RowHolds ==
  ASSUME CatalogInv, RefInv, NEW c \in Calls, NEW g, NEW row, NEW w,
         pc[c] \in {"insertGroup", "updateGroup", "replaceItems"},
         Goto(c, "publishGroup", w), GroupTableUnchanged,
         Grows, groups' = Put(groups, g, row), NameFree(g, row),
         RefBody => RowFits(g, row)
  PROVE  RefInv'
<1>1. OnlyCall(c) /\ pc'[c] = "publishGroup" /\ "groups" \in busy[c]
  BY BusyNow, GotoMoves DEF BusyTyped
<1>2. ASSUME RefBody
      PROVE  /\ Positive(nextId)' /\ ItemsBelow(groups', nextId')
             /\ References(groups', models')
  <2>1. PICK r \in SUBSET (DOMAIN groups \ {g}) :
           /\ \A h \in r : RefEdges(groups, h) \subseteq r
           /\ \A t \in Range(row.items) : LeadsInto(t, r, groups, models)
    BY <1>2 DEF RowFits
  <2>2. Unique(groups) /\ References(groups, models)
    BY <1>2, IdsTyped DEF RefBody
  <2>3. References(groups', models)
    BY <1>2, <2>1, <2>2, PutHolds DEF NameFree, RowFits
  <2>4. models' = models
    BY DEF GroupTableUnchanged
  <2>5. IsPut(groups', groups, g, row)
    BY Puts
  <2>6. ItemsBelow(groups', nextId')
    <3>1. ASSUME NEW h \in DOMAIN groups'
          PROVE  IdsBelow(groups'[h].items, nextId') /\ \A t \in Range(groups'[h].items) : IsItem(t)
      <4>1. CASE h = g
        BY <1>2, <2>5, <4>1 DEF IsPut, RowFits
      <4>2. CASE h # g
        <5>1. h \in DOMAIN groups /\ groups'[h] = groups[h]
          BY <2>5, <4>2 DEF IsPut
        <5>2. IdsBelow(groups[h].items, nextId) /\ \A t \in Range(groups[h].items) : IsItem(t)
          BY <1>2, <5>1 DEF RefBody, ItemsBelow
        <5>3. IdsBelow(groups[h].items, nextId')
          BY <5>2, IdsTyped DEF IdsBelow, Grows
        <5> QED BY <5>1, <5>2, <5>3
      <4> QED BY <4>1, <4>2
    <3> QED BY <3>1 DEF ItemsBelow
  <2>7. Positive(nextId)'
    BY <1>2, <2>4, IdsTyped DEF RefBody, Positive, Grows
  <2> QED BY <2>3, <2>4, <2>6, <2>7
<1>3. suspect' = suspect /\ pc'[c] \notin GroupStatements
  BY <1>1 DEF GroupTableUnchanged, GroupStatements
<1> QED BY <1>1, <1>2, <1>3, WriteHolds

\* A new group, to which nobody refers yet.
LEMMA InsertHolds ==
  ASSUME CatalogInv, RefInv, NEW c \in Calls, pc[c] \in {"insertGroup", "replaceItems"},
         NEW name, NEW add, Insert(c, name, add), GroupTableUnchanged, Len(add) \in Nat,
         RefBody => /\ add \in Seq(Range(add))
                    /\ \A u \in Range(add) : PointsTo(u, groups, models)
  PROVE  RefInv'
<1>1. PICK id, row : /\ id = nextId
                     /\ row = [name |-> name, active |-> 0, items |-> NewItems(add, nextId + 1)]
  OBVIOUS
<1>2. /\ IdOf(groups, name) = {} /\ groups' = Put(groups, id, row)
      /\ nextId' = nextId + 1 + Len(add)
      /\ Goto(c, "publishGroup", Written(id, row, name))
  BY <1>1 DEF Insert
<1>3. NameFree(id, row)
  BY <1>1, <1>2 DEF IdOf, NameFree
<1>4. Grows /\ nextId \in Int /\ id \notin DOMAIN groups
  BY <1>1, <1>2, IdsTyped DEF Grows
<1>5. row.active = 0 /\ row.items = NewItems(add, nextId + 1)
  BY <1>1
<1>6. ASSUME RefBody
      PROVE  /\ IdsBelow(row.items, nextId') /\ \A t \in Range(row.items) : IsItem(t)
             /\ \A t \in Range(row.items) : LeadsInto(t, DOMAIN groups, groups, models)
  <2>1. /\ \A i \in DOMAIN row.items : /\ i \in Int /\ i < nextId + 1 + Len(add)
                                       /\ IsItem(row.items[i])
                                       /\ \E u \in Range(add) : Alike(row.items[i], u)
    <3>1. PICK first, items : first = nextId + 1 /\ items = row.items /\ first \in Int
      BY <1>4
    <3> QED BY <1>5, <1>6, <3>1, NewItemsAre
  <2>2. ASSUME NEW t \in Range(row.items)
        PROVE  IsItem(t) /\ LeadsInto(t, DOMAIN groups, groups, models)
    <3>1. PICK u \in Range(add) : Alike(t, u) /\ IsItem(t)
      BY <2>1 DEF Range
    <3>2. PointsTo(u, groups, models)
      BY <1>6
    <3>3. LeadsInto(u, DOMAIN groups, groups, models)
      BY <3>2 DEF PointsTo, LeadsInto, IdOf
    <3> QED BY <3>1, <3>3, AlikeLead
  <2> QED BY <1>2, <2>1, <2>2 DEF IdsBelow
<1>7. \A h \in DOMAIN groups : RefEdges(groups, h) \subseteq DOMAIN groups
  BY DEF RefEdges
<1>8. DOMAIN groups \in SUBSET (DOMAIN groups \ {id})
  BY <1>4
<1>9. RefBody => RowFits(id, row)
  BY <1>4, <1>5, <1>6, <1>7, <1>8 DEF RowFits
<1> QED BY <1>2, <1>3, <1>4, <1>9, RowHolds

LEMMA InsertGroupHolds ==
  ASSUME CatalogInv, RefInv, NEW c \in Calls, InsertGroup(c)
  PROVE  RefInv'
<1>1. /\ pc[c] = "insertGroup" /\ Insert(c, arg[c].name, arg[c].add) /\ GroupTableUnchanged
  BY DEF InsertGroup
<1>2. Len(arg[c].add) \in Nat
  BY <1>1, BusyNow DEF Knows
<1>3. RefBody => /\ arg[c].add \in Seq(Range(arg[c].add))
                 /\ \A u \in Range(arg[c].add) : PointsTo(u, groups, models)
  BY <1>1 DEF RefBody, Fits
<1> QED BY <1>1, <1>2, <1>3, InsertHolds

LEMMA ReplaceItemsHolds ==
  ASSUME CatalogInv, RefInv, NEW c \in Calls, ReplaceItems(c)
  PROVE  RefInv'
<1>1. pc[c] = "replaceItems" /\ GroupTableUnchanged
  BY DEF ReplaceItems
<1>2. PICK add : add = arg[c].add
  OBVIOUS
<1>3. Len(add) \in Nat
  BY <1>1, <1>2, BusyNow DEF Knows
<1>4. RefBody => /\ add \in Seq(Range(add))
                 /\ \A u \in Range(add) : u.model \in DOMAIN models /\ ~IsGroupRef(u)
  BY <1>1, <1>2 DEF RefBody, Fits, Positive, IsGroupRef
<1>5. CASE arg[c].name \notin DOMAIN nameIndex
  <2>1. Insert(c, arg[c].name, add)
    BY <1>2, <1>5 DEF ReplaceItems
  <2>2. RefBody => \A u \in Range(add) : PointsTo(u, groups, models)
    BY <1>4 DEF PointsTo
  <2> QED BY <1>1, <1>3, <1>4, <2>1, <2>2, InsertHolds
<1>6. CASE arg[c].name \in DOMAIN nameIndex
  <2>1. PICK g, row, items :
           /\ g \in DOMAIN groups /\ items = NewItems(add, nextId)
           /\ row = [groups[g] EXCEPT !.active = 0, !.items = items]
           /\ groups' = [groups EXCEPT ![g] = row]
           /\ nextId' = nextId + Len(add)
           /\ Goto(c, "publishGroup", Written(g, row, row.name))
    BY <1>2, <1>6 DEF ReplaceItems
  <2>2. groups[g] = [name |-> groups[g].name, active |-> groups[g].active, items |-> groups[g].items]
    BY <2>1 DEF CatalogInv, PanelTyped, GroupsTyped, IsGroupRow
  <2>3. row.name = groups[g].name /\ row.active = 0 /\ row.items = items
    BY <2>1, <2>2
  <2>4. groups' = Put(groups, g, row)
    <3>1. g \in DOMAIN groups /\ groups' = [groups EXCEPT ![g] = row]
      BY <2>1
    <3> QED BY <3>1, ExceptPuts
  <2>5. NameFree(g, row)
    BY <2>1, <2>3, IdsTyped DEF NameFree, Unique
  <2>6. Grows /\ nextId \in Int
    BY <1>3, <2>1, IdsTyped DEF Grows
  <2>7. ASSUME RefBody
        PROVE  /\ IdsBelow(items, nextId') /\ \A t \in Range(items) : IsItem(t)
               /\ \A t \in Range(items) : LeadsInto(t, {}, groups, models)
    <3>1. /\ \A i \in DOMAIN items : /\ i \in Int /\ i < nextId + Len(add)
                                     /\ IsItem(items[i])
                                     /\ \E u \in Range(add) : Alike(items[i], u)
      BY <1>4, <2>1, <2>6, <2>7, NewItemsAre
    <3>2. ASSUME NEW t \in Range(items)
          PROVE  IsItem(t) /\ LeadsInto(t, {}, groups, models)
      <4>1. PICK u \in Range(add) : Alike(t, u) /\ IsItem(t)
        BY <3>1 DEF Range
      <4>2. LeadsInto(u, {}, groups, models)
        BY <1>4, <2>7 DEF LeadsInto
      <4> QED BY <4>1, <4>2, AlikeLead
    <3> QED BY <2>1, <3>1, <3>2 DEF IdsBelow
  <2>8. {} \in SUBSET (DOMAIN groups \ {g}) /\ \A h \in {} : RefEdges(groups, h) \subseteq {}
    OBVIOUS
  <2>9. RefBody => RowFits(g, row)
    BY <2>3, <2>7, <2>8 DEF RowFits
  <2>10. PICK w : Goto(c, "publishGroup", w)
    BY <2>1
  <2> QED BY <1>1, <2>4, <2>5, <2>6, <2>9, <2>10, RowHolds
<1> QED BY <1>5, <1>6

LEMMA UpdateGroupHolds ==
  ASSUME CatalogInv, RefInv, NEW c \in Calls, UpdateGroup(c)
  PROVE  RefInv'
<1>1. PICK g, e, old, gone, new :
         /\ g = arg[c].on /\ e = arg[c].edit /\ old = groups[g]
         /\ gone = e.drop \cap DOMAIN old.items /\ new = NewItems(e.add, nextId)
  OBVIOUS
<1>2. PICK kept :
         kept = [i \in DOMAIN old.items \ gone |->
                   IF i \in e.raise THEN [old.items[i] EXCEPT !.priority = 2] ELSE old.items[i]]
  OBVIOUS
<1>3. PICK row :
         row = [name |-> IF e.name = "" THEN old.name ELSE e.name,
                active |-> IF old.active \in gone THEN 0 ELSE old.active,
                items |-> Over(new, kept)]
  OBVIOUS
<1>4. /\ g \in DOMAIN groups /\ IdOf(groups, row.name) \subseteq {g}
      /\ groups' = [groups EXCEPT ![g] = row]
      /\ Goto(c, "publishGroup", Written(g, row, arg[c].name))
  BY <1>1, <1>2, <1>3 DEF UpdateGroup
<1>5. pc[c] = "updateGroup" /\ nextId' = nextId + Len(e.add) /\ GroupTableUnchanged
  BY <1>1 DEF UpdateGroup
<1>6. Grows /\ nextId \in Int /\ Len(e.add) \in Nat
  BY <1>1, <1>5, BusyNow, IdsGrow, IdsTyped DEF Knows
<1>7. groups' = Put(groups, g, row)
  <2>1. g \in DOMAIN groups /\ groups' = [groups EXCEPT ![g] = row]
    BY <1>4
  <2> QED BY <2>1, ExceptPuts
<1>8. NameFree(g, row)
  BY <1>4 DEF IdOf, NameFree
<1>9. /\ row.name = (IF e.name = "" THEN old.name ELSE e.name)
      /\ row.active = (IF old.active \in gone THEN 0 ELSE old.active)
      /\ row.items = Over(new, kept)
  BY <1>3
<1>10. IsOver(row.items, new, kept)
  BY <1>9, Overs
<1>11. ASSUME RefBody
      PROVE  RowFits(g, row)
  <2>1. e.add \in Seq(Range(e.add)) /\ UpdateFits(g, e)
    BY <1>1, <1>5, <1>11 DEF RefBody, Fits
  <2>2. \A i \in DOMAIN new : /\ i \in Int /\ nextId <= i /\ i < nextId + Len(e.add)
                              /\ IsItem(new[i]) /\ \E u \in Range(e.add) : Alike(new[i], u)
    BY <1>1, <1>6, <2>1, NewItemsAre
  <2>3. PICK stay : stay = Without(old.items, e.drop) /\ IsWithout(stay, old.items, e.drop)
    BY Withouts
  <2>4. /\ IdsBelow(old.items, nextId)
        /\ \A i \in DOMAIN old.items : IsItem(old.items[i])
        /\ old.active \in DOMAIN old.items \cup {0}
    BY <1>1, <1>4, <1>11 DEF RefBody, ItemsBelow, References, ActiveOwn, Range
  <2>5. DOMAIN kept = DOMAIN old.items \ gone /\ DOMAIN stay = DOMAIN old.items \ gone
    BY <1>1, <1>2, <2>3 DEF IsWithout
  <2>6. ASSUME NEW i \in DOMAIN kept
        PROVE  IsItem(kept[i]) /\ Alike(kept[i], stay[i]) /\ stay[i] \in Range(stay)
    <3>1. PICK t : t = old.items[i] /\ t = [model |-> t.model, ref |-> t.ref, priority |-> t.priority]
      BY <2>4, <2>5 DEF IsItem
    <3>2. kept[i] = IF i \in e.raise THEN [t EXCEPT !.priority = 2] ELSE t
      BY <1>2, <2>5, <3>1
    <3>3. stay[i] = t /\ stay[i] \in Range(stay)
      BY <2>3, <2>5, <3>1 DEF IsWithout, Range
    <3>4. [t EXCEPT !.priority = 2] = [model |-> t.model, ref |-> t.ref, priority |-> 2]
      BY <3>1
    <3> QED BY <3>1, <3>2, <3>3, <3>4 DEF IsItem, Alike
  <2>7. \A i \in DOMAIN row.items : \/ i \in DOMAIN new /\ row.items[i] = new[i]
                                    \/ i \in DOMAIN kept /\ row.items[i] = kept[i]
    BY <1>10 DEF IsOver
  <2>8. PICK r \in SUBSET (DOMAIN groups \ {g}) :
           /\ \A h \in r : RefEdges(groups, h) \subseteq r
           /\ \A t \in Range(e.add) \cup Range(stay) : LeadsInto(t, r, groups, models)
    BY <1>1, <2>1, <2>3 DEF UpdateFits
  <2>9. ASSUME NEW t \in Range(row.items)
        PROVE  IsItem(t) /\ LeadsInto(t, r, groups, models)
    <3>1. PICK u \in Range(e.add) \cup Range(stay) : IsItem(t) /\ Alike(t, u)
      BY <2>2, <2>6, <2>7 DEF Range
    <3> QED BY <2>8, <3>1, AlikeLead
  <2>10. IdsBelow(row.items, nextId')
    <3>1. ASSUME NEW i \in DOMAIN row.items
          PROVE  i \in Int /\ i < nextId'
      <4>1. CASE i \in DOMAIN new
        BY <1>5, <2>2, <4>1
      <4>2. CASE i \in DOMAIN kept
        BY <1>5, <1>6, <2>4, <2>5, <4>2 DEF IdsBelow
      <4> QED BY <2>7, <4>1, <4>2
    <3> QED BY <3>1 DEF IdsBelow
  <2>11. row.active \in DOMAIN row.items \cup {0}
    BY <1>9, <1>10, <2>4, <2>5 DEF IsOver
  <2>12. row.name # groups[g].name =>
            \A h \in DOMAIN groups \ {g} : groups[g].name \notin RefNames(groups[h].items)
    BY <1>1, <1>9, <2>1 DEF UpdateFits
  <2> QED BY <2>8, <2>9, <2>10, <2>11, <2>12 DEF RowFits
<1>12. PICK w : w = Written(g, row, arg[c].name) /\ Goto(c, "publishGroup", w)
  BY <1>4
<1> QED BY <1>5, <1>6, <1>7, <1>8, <1>11, <1>12, RowHolds

\* Groups, members or models go, and no more.
LEMMA FewerHold ==
  ASSUME CatalogInv, RefInv, NEW c \in Calls, OnlyCall(c), "groups" \in busy[c],
         pc'[c] \notin GroupStatements, suspect' = suspect, Grows,
         RefBody => 0 \notin DOMAIN models',
         DOMAIN groups' \subseteq DOMAIN groups,
         RefBody => \A g \in DOMAIN groups' :
            /\ groups'[g].name = groups[g].name
            /\ DOMAIN groups'[g].items \subseteq DOMAIN groups[g].items
            /\ \A i \in DOMAIN groups'[g].items :
                  /\ groups'[g].items[i] = groups[g].items[i]
                  /\ PointsTo(groups[g].items[i], groups, models) =>
                        PointsTo(groups[g].items[i], groups', models')
            /\ groups'[g].active \in DOMAIN groups'[g].items \cup {0}
  PROVE  RefInv'
<1>1. ASSUME RefBody
      PROVE  /\ Positive(nextId)' /\ ItemsBelow(groups', nextId')
             /\ References(groups', models')
  <2>1. Positive(nextId)'
    BY <1>1, IdsTyped DEF RefBody, Positive, Grows
  <2>2. \A g \in DOMAIN groups' : Range(groups'[g].items) \subseteq Range(groups[g].items)
    BY <1>1 DEF Range
  <2>3. ItemsBelow(groups', nextId')
    <3>1. ASSUME NEW g \in DOMAIN groups'
          PROVE  IdsBelow(groups'[g].items, nextId') /\ \A t \in Range(groups'[g].items) : IsItem(t)
      <4>1. IdsBelow(groups[g].items, nextId) /\ \A t \in Range(groups[g].items) : IsItem(t)
        BY <1>1 DEF RefBody, ItemsBelow
      <4>2. IdsBelow(groups'[g].items, nextId')
        BY <1>1, <4>1, IdsTyped DEF IdsBelow, Grows
      <4> QED BY <2>2, <4>1, <4>2
    <3> QED BY <3>1 DEF ItemsBelow
  <2>4. \A g \in DOMAIN groups' : \A t \in Range(groups'[g].items) :
           PointsTo(t, groups, models) => PointsTo(t, groups', models')
    BY <1>1 DEF Range
  <2>5. References(groups, models) /\ ActiveOwn(groups')
    BY <1>1 DEF RefBody, ActiveOwn
  <2>6. References(groups', models')
    BY <1>1, <2>2, <2>4, <2>5, FewerMembers
  <2> QED BY <2>1, <2>3, <2>6
<1> QED BY <1>1, WriteHolds

LEMMA SetActiveHolds ==
  ASSUME CatalogInv, RefInv, NEW c \in Calls, SetActive(c)
  PROVE  RefInv'
<1>1. PICK g, active :
         /\ g = arg[c].on /\ active = arg[c].row.active
         /\ groups' = [x \in DOMAIN groups |->
                         IF x = g THEN [groups[x] EXCEPT !.active = active] ELSE groups[x]]
  BY DEF SetActive
<1>2. /\ pc[c] = "setActive" /\ Goto(c, "publishActive", Nothing) /\ nextId' = nextId
      /\ models' = models /\ suspect' = suspect
  BY DEF SetActive, GroupTableUnchanged
<1>3. OnlyCall(c) /\ pc'[c] = "publishActive" /\ "groups" \in busy[c]
  BY <1>2, BusyNow, GotoMoves DEF BusyTyped
<1>4. DOMAIN groups' = DOMAIN groups
  BY <1>1
<1>5. ASSUME NEW x \in DOMAIN groups
      PROVE  /\ groups'[x].name = groups[x].name /\ groups'[x].items = groups[x].items
             /\ groups'[x].active = IF x = g THEN active ELSE groups[x].active
  <2>1. groups[x] = [name |-> groups[x].name, active |-> groups[x].active, items |-> groups[x].items]
    BY DEF CatalogInv, PanelTyped, GroupsTyped, IsGroupRow
  <2>2. groups'[x] = IF x = g THEN [groups[x] EXCEPT !.active = active] ELSE groups[x]
    BY <1>1
  <2>3. [groups[x] EXCEPT !.active = active] =
           [name |-> groups[x].name, active |-> active, items |-> groups[x].items]
    BY <2>1
  <2> QED BY <2>1, <2>2, <2>3
<1>6. \A t : PointsTo(t, groups, models) => PointsTo(t, groups', models')
  BY <1>2, <1>4, <1>5 DEF PointsTo, IdOf
<1>7. ASSUME RefBody, NEW x \in DOMAIN groups'
      PROVE  groups'[x].active \in DOMAIN groups'[x].items \cup {0}
  BY <1>1, <1>2, <1>4, <1>5, <1>7 DEF RefBody, Fits, References, ActiveOwn
<1>8. Grows /\ (RefBody => 0 \notin DOMAIN models')
  BY <1>2, IdsTyped DEF Grows, RefBody, Positive
<1>9. pc'[c] \notin GroupStatements
  BY <1>3 DEF GroupStatements
<1> QED BY <1>2, <1>3, <1>4, <1>5, <1>6, <1>7, <1>8, <1>9, FewerHold

LEMMA DeleteGroupHolds ==
  ASSUME CatalogInv, RefInv, NEW c \in Calls, DeleteGroup(c)
  PROVE  RefInv'
<1>1. PICK g : g = arg[c].on /\ groups' = Without(groups, {g})
  BY DEF DeleteGroup
<1>2. /\ pc[c] = "deleteGroup" /\ Goto(c, "forgetGroup", Nothing) /\ nextId' = nextId
      /\ models' = models /\ suspect' = suspect
  BY DEF DeleteGroup, GroupTableUnchanged
<1>3. OnlyCall(c) /\ pc'[c] = "forgetGroup" /\ busy[c] = {"groups", "names"}
  BY <1>2, BusyNow, GotoMoves DEF BusyTyped
<1>4. IsWithout(groups', groups, {g})
  BY <1>1, Withouts
<1>5. ASSUME RefBody, NEW x \in DOMAIN groups', NEW i \in DOMAIN groups[x].items,
             PointsTo(groups[x].items[i], groups, models)
      PROVE  PointsTo(groups[x].items[i], groups', models')
  <2>1. PICK t : t = groups[x].items[i]
    OBVIOUS
  <2>2. ASSUME IsGroupRef(t)
        PROVE  IdOf(groups', t.ref) # {}
    <3>1. PICK h \in DOMAIN groups : groups[h].name = t.ref
      BY <1>5, <2>1, <2>2 DEF PointsTo, IdOf
    <3>2. x \in DOMAIN groups \ {g} /\ t.ref \in RefNames(groups[x].items)
      BY <1>4, <2>1, <2>2 DEF IsWithout, RefNames
    <3>3. t.ref # arg[c].name
      BY <1>1, <1>2, <1>5, <3>2 DEF RefBody, Fits
    <3>4. Ready(c, "names")
      <4>1. "names" \in Caches \ suspect
        BY <1>5 DEF RefBody, Caches
      <4> QED BY <1>3, <4>1 DEF CatalogInv, CachesReady
    <3>5. g \in DOMAIN groups /\ groups[g].name = arg[c].name
      BY <1>1, <1>2, <3>4, NameChecked DEF Ready
    <3> QED BY <1>4, <3>1, <3>3, <3>5 DEF IsWithout, IdOf
  <2> QED BY <1>2, <1>5, <2>1, <2>2 DEF PointsTo
<1>6. /\ DOMAIN groups' \subseteq DOMAIN groups
      /\ \A x \in DOMAIN groups' : groups'[x] = groups[x]
  BY <1>4 DEF IsWithout
<1>7. RefBody => \A x \in DOMAIN groups : groups[x].active \in DOMAIN groups[x].items \cup {0}
  BY DEF RefBody, References, ActiveOwn
<1>8. Grows /\ (RefBody => 0 \notin DOMAIN models')
  BY <1>2, IdsTyped DEF Grows, RefBody, Positive
<1>9. pc'[c] \notin GroupStatements
  BY <1>3 DEF GroupStatements
<1> QED BY <1>2, <1>3, <1>5, <1>6, <1>7, <1>8, <1>9, FewerHold

-----------------------------------------------------------------------------
(* Models go, and the members that pointed to them. *)

LEMMA ClearedHolds ==
  ASSUME CatalogInv, RefInv, NEW c \in Calls, OnlyCall(c), "groups" \in busy[c],
         pc'[c] \notin GroupStatements, suspect' = suspect, Grows,
         RefBody => 0 \notin DOMAIN models',
         NEW gone, groups' = Cleared(gone), \A m \in DOMAIN models \ gone : m \in DOMAIN models'
  PROVE  RefInv'
<1>1. PICK lost : lost = UNION {{i \in DOMAIN groups[g].items : groups[g].items[i].model \in gone} :
                                  g \in DOMAIN groups}
  OBVIOUS
<1>2. groups' = [g \in DOMAIN groups |->
         [groups[g] EXCEPT !.items = Without(@, lost), !.active = IF @ \in lost THEN 0 ELSE @]]
  BY <1>1 DEF Cleared
<1>3. ASSUME NEW g \in DOMAIN groups, NEW i \in DOMAIN groups[g].items,
             groups[g].items[i].model \in gone
      PROVE  i \in lost
  BY ONLY <1>1, <1>3
<1>4. DOMAIN groups' = DOMAIN groups
  BY <1>2
<1>5. ASSUME NEW g \in DOMAIN groups
      PROVE  /\ groups'[g].name = groups[g].name
             /\ groups'[g].active = IF groups[g].active \in lost THEN 0 ELSE groups[g].active
             /\ IsWithout(groups'[g].items, groups[g].items, lost)
  <2>1. PICK items, active : /\ items = Without(groups[g].items, lost)
                             /\ active = IF groups[g].active \in lost THEN 0 ELSE groups[g].active
    OBVIOUS
  <2>2. groups'[g] = [groups[g] EXCEPT !.items = items, !.active = active]
    BY <1>2, <2>1
  <2>3. groups[g] = [name |-> groups[g].name, active |-> groups[g].active, items |-> groups[g].items]
    BY DEF CatalogInv, PanelTyped, GroupsTyped, IsGroupRow
  <2>4. groups'[g] = [name |-> groups[g].name, active |-> active, items |-> items]
    BY <2>2, <2>3
  <2>5. /\ groups'[g].name = groups[g].name /\ groups'[g].active = active
        /\ groups'[g].items = items
    BY <2>4
  <2> QED BY <2>1, <2>5, Withouts
<1>6. ASSUME NEW g \in DOMAIN groups, NEW i \in DOMAIN groups'[g].items,
             PointsTo(groups[g].items[i], groups, models)
      PROVE  PointsTo(groups[g].items[i], groups', models')
  <2>1. groups[g].items[i].model \notin gone
    BY <1>5, <1>3 DEF IsWithout
  <2>2. \A n : IdOf(groups', n) = IdOf(groups, n)
    BY <1>4, <1>5 DEF IdOf
  <2> QED BY <1>6, <2>1, <2>2 DEF PointsTo
<1>7. ASSUME RefBody, NEW g \in DOMAIN groups
      PROVE  groups'[g].active \in DOMAIN groups'[g].items \cup {0}
  <2>1. groups[g].active \in DOMAIN groups[g].items \cup {0}
    BY <1>7 DEF RefBody, References, ActiveOwn
  <2> QED BY <1>5, <2>1 DEF IsWithout
<1>8. \A g \in DOMAIN groups : /\ DOMAIN groups'[g].items \subseteq DOMAIN groups[g].items
                              /\ \A i \in DOMAIN groups'[g].items :
                                    groups'[g].items[i] = groups[g].items[i]
  BY <1>5 DEF IsWithout
<1> QED BY <1>4, <1>5, <1>6, <1>7, <1>8, FewerHold

LEMMA DeleteChannelHolds ==
  ASSUME CatalogInv, RefInv, NEW c \in Calls, DeleteChannel(c)
  PROVE  RefInv'
<1>1. PICK gone : /\ models' = Without(models, gone) /\ groups' = Cleared(gone)
                  /\ Goto(c, "forgetChannel", gone)
  BY DEF DeleteChannel
<1>2. pc[c] = "deleteChannel" /\ nextId' = nextId /\ suspect' = suspect
  BY DEF DeleteChannel, ChannelTablesOnly
<1>3. OnlyCall(c) /\ pc'[c] = "forgetChannel" /\ "groups" \in busy[c]
  BY <1>1, <1>2, BusyNow, GotoMoves DEF BusyTyped, RouteCaches
<1>4. IsWithout(models', models, gone)
  BY <1>1, Withouts
<1>5. \A m \in DOMAIN models \ gone : m \in DOMAIN models'
  BY <1>4 DEF IsWithout
<1>6. Grows /\ (RefBody => 0 \notin DOMAIN models')
  BY <1>2, <1>4, IdsTyped DEF Grows, RefBody, Positive, IsWithout
<1>7. pc'[c] \notin GroupStatements
  BY <1>3 DEF GroupStatements
<1> QED BY <1>1, <1>2, <1>3, <1>5, <1>6, <1>7, ClearedHolds

-----------------------------------------------------------------------------
(* All other steps, and the theorem. *)

Quiet(c) ==
    /\ OnlyCall(c) /\ pc'[c] \notin GroupStatements
    /\ groups' = groups /\ MoreModels /\ Grows /\ MarksStay

LEMMA QuietHolds ==
  ASSUME CatalogInv, RefInv, NEW c \in Calls, Quiet(c)
  PROVE  RefInv'
<1>1. Fits(c)'
  BY DEF Quiet, Fits, GroupStatements
<1> QED BY <1>1, MoveHolds DEF Quiet

LEMMA PlainBeginHolds ==
  ASSUME CatalogInv, RefInv, NEW c \in Calls, NEW next, next \notin GroupStatements,
         NEW r, NEW xs, Begin(c, next, r, xs)
  PROVE  RefInv'
<1>1. pc'[c] = next => Fits(c)'
  BY DEF Fits, GroupStatements
<1> QED BY <1>1, BeginHolds

LEMMA UpdateChannelHolds ==
  ASSUME CatalogInv, RefInv, NEW c \in Calls, UpdateChannel(c)
  PROVE  RefInv'
<1>1. pc[c] = "updateChannel" /\ suspect' = suspect
  BY DEF UpdateChannel, ChannelTablesOnly
<1>2. MarksStay
  BY <1>1, Marks
<1>3. CASE Return(c) /\ UNCHANGED <<channels, models, groups, nextId>>
  <2>1. OnlyCall(c) /\ pc'[c] \notin GroupStatements
    BY <1>3, BusyNow, ReturnGoes DEF GroupStatements
  <2> QED BY <1>2, <1>3, <2>1, IdsTyped, QuietHolds DEF Quiet, MoreModels, Positive, Grows
<1>4. CASE ~(Return(c) /\ UNCHANGED <<channels, models, groups, nextId>>)
  <2>1. \E w : Goto(c, "publishChannel", w)
    BY <1>4 DEF UpdateChannel
  <2>2. OnlyCall(c) /\ pc'[c] = "publishChannel"
    BY <2>1, BusyNow, GotoMoves
  <2>3. pc'[c] \notin GroupStatements
    BY <2>2 DEF GroupStatements
  <2>4. CASE "models" \notin arg[c].edit.changes
    <3>1. UNCHANGED <<models, groups, nextId>>
      BY <1>4, <2>4 DEF UpdateChannel
    <3> QED BY <1>2, <2>2, <2>3, <3>1, IdsTyped, QuietHolds DEF Quiet, MoreModels, Positive, Grows
  <2>5. CASE "models" \in arg[c].edit.changes
    <3>1. PICK ch, wanted, names, w, gone :
             /\ names = SetToSeq(DOMAIN wanted \ {models[m].name : m \in ModelsOf(models, ch)})
             /\ wanted = arg[c].edit.models
             /\ w = Wanted(ch, wanted, names)
             /\ models' = Over(w, Without(models, ModelsOf(models, ch)))
             /\ gone = ModelsOf(models, ch) \ DOMAIN models' /\ groups' = Cleared(gone)
             /\ nextId' = nextId + Len(names)
      BY <1>4, <2>5 DEF UpdateChannel
    <3>2. Len(names) \in Nat
      <4>1. DOMAIN wanted \ {models[m].name : m \in ModelsOf(models, ch)} \in SUBSET ModelNames
        BY <1>1, <3>1, BusyNow DEF Knows
      <4> QED BY <3>1, <4>1, AddedNames
    <3>3. Grows /\ nextId \in Int
      BY <3>1, <3>2, IdsGrow, IdsTyped
    <3>4. PICK kept : /\ kept = Without(models, ModelsOf(models, ch))
                      /\ IsWithout(kept, models, ModelsOf(models, ch)) /\ IsOver(models', w, kept)
      BY <3>1, Overs, Withouts
    <3>5. \A m \in DOMAIN models \ gone : m \in DOMAIN models'
      BY <3>1, <3>4 DEF IsOver, IsWithout
    <3>6. ASSUME RefBody
          PROVE  0 \notin DOMAIN models'
      <4>1. nextId > 0 /\ 0 \notin DOMAIN models
        BY <3>6 DEF RefBody, Positive
      <4>2. DOMAIN w \subseteq DOMAIN models \cup (nextId .. nextId + Len(names) - 1)
        BY <3>1 DEF Wanted, ModelsOf
      <4>3. 0 \notin nextId .. nextId + Len(names) - 1
        BY <3>2, <3>3, <4>1
      <4> QED BY <3>4, <4>1, <4>2, <4>3 DEF IsOver, IsWithout
    <3>7. "groups" \in busy[c]
      BY <1>1, <2>5, BusyNow DEF BusyTyped, RouteCaches
    <3> QED BY <1>1, <2>2, <2>3, <3>1, <3>3, <3>5, <3>6, <3>7, ClearedHolds
  <2> QED BY <2>4, <2>5
<1> QED BY <1>3, <1>4

\* A step that writes neither groups nor models.
LEMMA AsideHolds ==
  ASSUME CatalogInv, RefInv, NEW c \in Calls, OnlyCall(c), pc'[c] \notin GroupStatements,
         UNCHANGED <<groups, models>>, Grows, MarksStay
  PROVE  RefInv'
  BY IdsTyped, QuietHolds DEF Quiet, MoreModels, Positive, Grows

LEMMA GrowsNot ==
  ASSUME CatalogInv, nextId' = nextId
  PROVE  Grows
  BY IdsTyped DEF Grows

LEMMA GroupsHold ==
  ASSUME CatalogInv, RefInv, NEW c \in Calls, GroupStep(c)
  PROVE  RefInv'
<1>1. CASE PublishGroup(c) \/ PublishActive(c) \/ ForgetGroup(c)
  <2>1. End(c) /\ UNCHANGED <<groups, models, nextId, suspect>>
    BY <1>1 DEF PublishGroup, PublishActive, ForgetGroup, tables
  <2>2. OnlyCall(c) /\ pc'[c] \notin GroupStatements
    BY <2>1, BusyNow, EndMoves DEF GroupStatements
  <2> QED BY <2>1, <2>2, GrowsNot, Marks, AsideHolds
<1> QED BY <1>1, GroupCreateHolds, GroupUpdateHolds, GroupActiveHolds, GroupDelHolds,
           GroupReplaceHolds, InsertGroupHolds, UpdateGroupHolds, SetActiveHolds, DeleteGroupHolds,
           ReplaceItemsHolds DEF GroupStep

LEMMA ChannelCreateHolds ==
  ASSUME CatalogInv, RefInv, NEW c \in Calls, ChannelCreate(c)
  PROVE  RefInv'
<1>1. pc[c] = "insertChannel" /\ groups' = groups /\ suspect' = suspect
  BY DEF ChannelCreate, ChannelTablesOnly
<1>2. MarksStay
  BY <1>1, Marks
<1>3. CASE NextBlock(c) /\ UNCHANGED <<channels, models, nextId>>
  <2>1. OnlyCall(c) /\ pc'[c] \notin GroupStatements
    BY <1>3, BusyNow, ReturnGoes DEF GroupStatements
  <2> QED BY <1>1, <1>2, <1>3, <2>1, GrowsNot, AsideHolds
<1>4. CASE ~(NextBlock(c) /\ UNCHANGED <<channels, models, nextId>>)
  <2>1. PICK names, w, added :
           /\ names = Head(arg[c].text).models
           /\ added = [m \in nextId + 1 .. nextId + Len(names) |->
                         [channel |-> nextId, name |-> names[m - nextId], source |-> "manual"]]
           /\ models' = Over(added, models) /\ nextId' = nextId + 1 + Len(names)
           /\ Goto(c, "publishNew", w)
    BY <1>4 DEF ChannelCreate
  <2>2. names \in Seq(ModelNames) /\ Len(names) \in Nat /\ nextId \in Int
    <3>1. PICK r : r = arg[c] /\ IsText(r)
      BY <1>1, BusyNow DEF Knows
    <3>2. names \in Seq(ModelNames)
      BY <2>1, <3>1, TextBlocks
    <3> QED BY <3>2, IdsTyped, LenProperties
  <2>3. IsOver(models', added, models)
    BY <2>1, Overs
  <2>4. DOMAIN added = nextId + 1 .. nextId + Len(names)
    BY <2>1
  <2>5. Grows /\ (nextId > 0 => nextId' > 0 /\ 0 \notin DOMAIN added)
    <3>1. PICK n \in Nat : n = Len(names)
      BY <2>2
    <3>2. nextId' = nextId + 1 + n /\ DOMAIN added = nextId + 1 .. nextId + n
      BY <2>1, <2>4, <3>1
    <3>3. nextId \in Int
      BY IdsTyped
    <3> QED BY <3>2, <3>3 DEF Grows
  <2>6. MoreModels
    BY <2>3, <2>5 DEF MoreModels, Positive, IsOver
  <2>7. OnlyCall(c) /\ pc'[c] \notin GroupStatements
    BY <2>1, BusyNow, GotoMoves DEF GroupStatements
  <2> QED BY <1>1, <1>2, <2>5, <2>6, <2>7, QuietHolds DEF Quiet
<1> QED BY <1>3, <1>4

LEMMA ChannelsHold ==
  ASSUME CatalogInv, RefInv, NEW c \in Calls, ChannelStep(c)
  PROVE  RefInv'
<1>1. CASE \/ ChannelImportFromText(c) \/ ChannelUpdate(c) \/ ChannelEnabled(c) \/ ChannelDel(c)
           \/ SyncModelsTask(c)
  <2>1. PICK next : next \notin GroupStatements /\ \E r, xs : Begin(c, next, r, xs)
    BY <1>1 DEF ChannelImportFromText, ChannelUpdate, ChannelEnabled, ChannelDel, SyncModelsTask,
                GroupStatements
  <2> QED BY <2>1, PlainBeginHolds
<1>2. CASE FetchModels(c)
  <2>1. UNCHANGED <<groups, models, nextId>> /\ pc[c] = "fetch"
    BY <1>2 DEF FetchModels, tables
  <2>2. OnlyCall(c) /\ pc'[c] \notin GroupStatements
    <3>1. CASE End(c)
      BY <3>1, BusyNow, EndMoves DEF GroupStatements
    <3>2. CASE ~End(c)
      BY <1>2, <3>2, BusyNow DEF FetchModels, Touch, Functions, OnlyCall, GroupStatements
    <3> QED BY <3>1, <3>2
  <2>3. MarksStay
    <3>1. suspect' = suspect \/ \E xs : Tangle(xs)
      BY <1>2 DEF FetchModels, Touch
    <3> QED BY <3>1, Marks
  <2> QED BY <2>1, <2>2, <2>3, GrowsNot, AsideHolds
<1>3. CASE \/ SetEnabled(c) \/ PublishNew(c) \/ PublishChannel(c) \/ PublishEnabled(c)
           \/ ForgetChannel(c) \/ GroupsRead(c) \/ GroupsRefreshed(c) \/ GroupsNotRefreshed(c)
  <2>1. UNCHANGED <<groups, models, nextId>>
    BY <1>3 DEF SetEnabled, PublishNew, PublishChannel, PublishEnabled, ForgetChannel, GroupsRead,
                GroupsRefreshed, GroupsNotRefreshed, ReadGroups, StoreGroups, tables
  <2>2. \/ \E next \in {"publishEnabled", "readGroups", "storeGroups"} : \E w : Goto(c, next, w)
        \/ Return(c) \/ NextBlock(c) \/ End(c)
    BY <1>3 DEF SetEnabled, PublishNew, PublishChannel, PublishEnabled, ForgetChannel, GroupsRead,
                GroupsRefreshed, GroupsNotRefreshed, ReadGroups, StoreGroups
  <2>3. OnlyCall(c) /\ pc'[c] \notin GroupStatements
    BY <2>2, BusyNow, GotoMoves, ReturnGoes DEF GroupStatements
  <2>4. \/ suspect' = suspect \/ \E xs : Tangle(xs)
        \/ \E xs \in SUBSET Caches : Reread(c, xs)
    <3>1. {"groups", "names"} \in SUBSET Caches
      BY DEF Caches
    <3> QED BY <1>3, <3>1 DEF SetEnabled, ChannelTablesOnly, PublishNew, PublishChannel,
               PublishEnabled, ForgetChannel, GroupsRead, GroupsRefreshed, GroupsNotRefreshed,
               ReadGroups, StoreGroups
  <2> QED BY <2>1, <2>3, <2>4, GrowsNot, Marks, AsideHolds
<1> QED BY <1>1, <1>2, <1>3, ChannelCreateHolds, UpdateChannelHolds, DeleteChannelHolds
        DEF ChannelStep

LEMMA KeysHold ==
  ASSUME CatalogInv, RefInv, NEW c \in Calls, KeyStep(c)
  PROVE  RefInv'
<1>1. UNCHANGED <<groups, models>> /\ nextId' \in {nextId, nextId + 1}
  BY DEF KeyStep, APIKeyCreate, APIKeyUpdate, APIKeyDelete, LockFor, WriteKeys, KeyWriteFails,
         ReadKeys, PublishKeys, tables
<1>2. Grows
  BY <1>1, IdsTyped DEF Grows
<1>3. CASE APIKeyCreate(c) \/ APIKeyUpdate(c) \/ APIKeyDelete(c)
  <2>1. PICK r : LockFor(c, r)
    BY <1>3 DEF APIKeyCreate, APIKeyUpdate, APIKeyDelete
  <2>2. OnlyCall(c) /\ pc'[c] \notin GroupStatements /\ \E xs : Tangle(xs)
    BY <2>1, BusyNow DEF LockFor, Touch, Functions, OnlyCall, GroupStatements
  <2> QED BY <1>1, <1>2, <2>2, Marks, AsideHolds
<1>4. CASE WriteKeys(c) \/ KeyWriteFails(c) \/ ReadKeys(c) \/ PublishKeys(c)
  <2>1. (\E w : Goto(c, "publishKeys", w)) \/ End(c)
    BY <1>4 DEF WriteKeys, KeyWriteFails, ReadKeys, PublishKeys
  <2>2. OnlyCall(c) /\ pc'[c] \notin GroupStatements
    BY <2>1, BusyNow, GotoMoves, EndMoves DEF GroupStatements
  <2>3. suspect' = suspect \/ \E xs \in SUBSET Caches : Reread(c, xs)
    <3>1. {"keys"} \in SUBSET Caches
      BY DEF Caches
    <3> QED BY <1>4, <3>1 DEF WriteKeys, KeyWriteFails, ReadKeys, PublishKeys
  <2> QED BY <1>1, <1>2, <2>2, <2>3, Marks, AsideHolds
<1> QED BY <1>3, <1>4 DEF KeyStep

LEMMA RestoreHolds ==
  ASSUME CatalogInv, RefInv, NEW c \in Calls, RestoreStep(c)
  PROVE  RefInv'
<1>1. CASE SettingSetString(c) \/ SettingGetString(c) \/ DBImportIncremental(c)
  <2>1. PICK next : next \notin GroupStatements /\ \E r, xs : Begin(c, next, r, xs)
    BY <1>1 DEF SettingSetString, SettingGetString, DBImportIncremental, GroupStatements
  <2> QED BY <2>1, PlainBeginHolds
<1>2. CASE \/ UpdateSetting(c) \/ LoadSetting(c) \/ PublishSetting(c) \/ DBExportAll(c)
           \/ ReadSettings(c) \/ StoreSettings(c) \/ ReadChannels(c) \/ StoreChannels(c)
           \/ ReadAllGroups(c) \/ StoreAllGroups(c) \/ InitCacheFails(c) \/ StatementFails(c)
  <2>1. UNCHANGED <<groups, models, nextId>>
    BY <1>2 DEF UpdateSetting, LoadSetting, PublishSetting, DBExportAll, ReadSettings, StoreSettings,
                ReadChannels, StoreChannels, ReadAllGroups, StoreAllGroups, ReadGroups, StoreGroups,
                InitCacheFails, StatementFails, tables
  <2>2. \/ \E next \in {"publishSetting"} \cup Refreshing : \E w : Goto(c, next, w)
        \/ End(c)
    BY <1>2 DEF UpdateSetting, LoadSetting, PublishSetting, DBExportAll, ReadSettings, StoreSettings,
                ReadChannels, StoreChannels, ReadAllGroups, StoreAllGroups, ReadGroups, StoreGroups,
                InitCacheFails, StatementFails, Refreshing
  <2>3. OnlyCall(c) /\ pc'[c] \notin GroupStatements
    BY <2>2, BusyNow, GotoMoves, EndMoves DEF GroupStatements, Refreshing
  <2>4. \/ suspect' = suspect \/ \E xs : Tangle(xs)
        \/ \E xs \in SUBSET Caches : Reread(c, xs)
    <3>1. \A xs \in {{"groups", "names"}, {"settings"}, {"channels", "models"}} : xs \in SUBSET Caches
      BY DEF Caches
    <3> QED BY <1>2, <3>1 DEF UpdateSetting, LoadSetting, PublishSetting, DBExportAll, ReadSettings,
               StoreSettings, ReadChannels, StoreChannels, ReadAllGroups, StoreAllGroups, ReadGroups,
               StoreGroups, InitCacheFails, StatementFails
  <2> QED BY <2>1, <2>3, <2>4, GrowsNot, Marks, AsideHolds
<1> QED BY <1>1, <1>2 DEF RestoreStep

LEMMA RefsStep ==
  ASSUME CatalogInv, RefInv, Next
  PROVE  RefInv'
<1>1. PICK c \in Calls : GroupStep(c) \/ ChannelStep(c) \/ KeyStep(c) \/ RestoreStep(c) \/ Import(c)
  BY Steps
<1>2. CASE Import(c)
  BY <1>2 DEF Import, RefInv
<1> QED BY <1>1, <1>2, GroupsHold, ChannelsHold, KeysHold, RestoreHolds

LEMMA RefsStutter ==
  ASSUME RefInv, UNCHANGED panelVars
  PROVE  RefInv'
<1>1. UNCHANGED <<groups, models, nextId, suspect, pc, arg>>
  BY DEF panelVars, tables, calls
<1>2. CASE "references" \in suspect
  BY <1>1, <1>2 DEF RefInv
<1>3. CASE "references" \notin suspect
  <2>1. RefBody
    BY <1>3 DEF RefInv
  <2>2. \A c \in Calls : Fits(c)'
    BY <1>1, <2>1, FitsStays DEF RefBody
  <2>3. ItemsBelow(groups, nextId)' /\ References(groups, models)'
    BY <1>1, <2>1, Primed DEF RefBody
  <2> QED BY <1>1, <2>1, <2>2, <2>3 DEF RefInv, RefBody, Positive
<1> QED BY <1>2, <1>3

LEMMA RefsInit ==
  ASSUME PdInit
  PROVE  RefInv
<1>1. \A c \in Calls : pc[c] = "new"
  BY DEF PdInit
<1>2. \A c \in Calls : Fits(c)
  BY <1>1 DEF Fits
<1>3. groups = Rows.groups /\ models = Rows.models /\ nextId = FirstId /\ suspect = {}
  BY DEF PdInit
<1>4. /\ FirstId \in Nat \ {0} /\ 0 \notin DOMAIN Rows.models
      /\ ItemsBelow(Rows.groups, FirstId) /\ References(Rows.groups, Rows.models)
  BY CatalogAssumption
<1>5. Positive(nextId)
  BY <1>3, <1>4 DEF Positive
<1> QED BY <1>2, <1>3, <1>4, <1>5 DEF RefInv, RefBody

\* Through deletions, renames and synchronisations every member points to a model or a group that
\* is there, the active member of a group is one of its own, and references have no cycle
\* (op/group.go:407, op/channel.go:623).
THEOREM ReferencesAlwaysHold ==
  Spec => []ReferencesHold
<1>1. PdInit => CatalogInv /\ RefInv
  BY CatalogInit, RefsInit
<1>2. CatalogInv /\ RefInv /\ [Next]_panelVars => CatalogInv' /\ RefInv'
  BY CatalogStep, CatalogStutters, RefsStep, RefsStutter
<1>3. RefInv => ReferencesHold
  BY DEF RefInv, RefBody, ReferencesHold
<1> QED BY <1>1, <1>2, <1>3, PTL DEF Spec
=============================================================================
