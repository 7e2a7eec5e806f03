------------------------------ MODULE PanelData -------------------------------
(***************************************************************************)
(* The tables that the panel edits, and the caches beside them that the    *)
(* relay reads (internal/op).  A call of the panel checks its request      *)
(* against the caches, writes the tables in one transaction, and then      *)
(* publishes what it wrote, without a lock over the three: two calls may   *)
(* interleave between them.  A transaction is one step; so are several     *)
(* reads, or several writes, of caches that follow each other.             *)
(*                                                                         *)
(* A group's row holds its members, since deleting it deletes them.        *)
(* Columns that no check and no other row depends on are left out.         *)
(***************************************************************************)
EXTENDS Integers, Sequences, FiniteSets, SequencesExt, TLC

CONSTANTS
    MaxCalls,       \* calls of the panel and runs of the synchronisation
    MaxOverlap,     \* how many of them may be under way at once
    FirstId,        \* the first id that the tables have not given out
    Rows,           \* what the tables hold at the start
    Foreign         \* a backup of another installation

VARIABLES
    \* tables: id -> row
    channels,       \* [name, enabled, secrets]
    models,         \* [channel, name, source]
    groups,         \* [name, active, items]; items: id -> [model, ref, priority]
    settings,       \* key -> value
    keys,           \* id -> the key's secret
    nextId,
    \* caches
    channelCache, modelCache, groupCache, nameIndex, settingCache,
    keySnap,        \* apiKeySnap: one immutable snapshot
    keyLock,        \* apiKeyCacheMu: the call that holds it, or Nobody
    \* calls
    pc,
    arg,            \* the request, with what was read of the caches to check it
    read,           \* what the last statement read or wrote, to be published
    busy,           \* the caches the call is going to write
    backup,         \* the backup file at hand
    suspect         \* caches that two calls wrote at once or that a refresh left stale,
                    \* and "references" once that or an import touched the groups

tables == <<channels, models, groups, settings, keys, nextId>>
routeCaches == <<channelCache, modelCache, groupCache, nameIndex>>
caches == <<routeCaches, settingCache, keySnap, keyLock>>
calls == <<pc, arg, read, busy>>
panelVars == <<tables, caches, calls, backup, suspect>>

Calls == 1 .. MaxCalls
Nobody == 0
Nothing == <<>>
Caches == {"channels", "models", "groups", "names", "settings", "keys"}
RouteCaches == {"channels", "models", "groups", "names"}

-----------------------------------------------------------------------------
(* Tables and caches are functions from ids to rows. *)

Over(f, g) == [x \in DOMAIN f \cup DOMAIN g |-> IF x \in DOMAIN f THEN f[x] ELSE g[x]]
Put(f, id, row) == Over([x \in {id} |-> row], f)
Without(f, ids) == Restrict(f, DOMAIN f \ ids)
IdOf(table, name) == {id \in DOMAIN table : table[id].name = name}
NamesOf(table) == [n \in {table[g].name : g \in DOMAIN table} |-> CHOOSE g \in IdOf(table, n) : TRUE]
ModelsOf(table, c) == {m \in DOMAIN table : table[m].channel = c}

\* A reference names a group; any other member points to a model of a channel.
IsGroupRef(item) == item.model = 0 /\ item.ref # ""
RefNames(items) == {items[i].ref : i \in {j \in DOMAIN items : IsGroupRef(items[j])}}

-----------------------------------------------------------------------------
(* Calls.  A call that is refused changes nothing and is left out. *)

InFlight == {c \in Calls : pc[c] \notin {"new", "done"}}

\* A stale group, cached, is looked up by its name, and spoils the index.
Spoils(xs) ==
    xs \cup (IF "groups" \in xs THEN {"names"} ELSE {})
       \cup (IF xs \cap {"models", "groups", "names"} # {} THEN {"references"} ELSE {})

Tangle(xs) == suspect' = suspect \cup Spoils(xs)

\* What another call in flight writes as well.
Shared(c, xs) == {x \in xs : \E d \in Calls \ {c} : x \in busy[d]}

\* From here on c writes xs; what is shared is suspect.
Touch(c, xs) ==
    /\ busy' = [busy EXCEPT ![c] = xs]
    /\ Tangle(Shared(c, xs))

\* Calls are alike; they are numbered in the order in which they begin.
MayBegin(c) ==
    /\ pc[c] = "new"
    /\ \A d \in 1 .. c - 1 : pc[d] # "new"
    /\ Cardinality(InFlight) < MaxOverlap

Begin(c, next, request, xs) ==
    /\ MayBegin(c)
    /\ pc' = [pc EXCEPT ![c] = next]
    /\ arg' = [arg EXCEPT ![c] = request]
    /\ Touch(c, xs)
    /\ UNCHANGED <<tables, caches, read, backup>>

Goto(c, next, rows) ==
    /\ pc' = [pc EXCEPT ![c] = next]
    /\ read' = [read EXCEPT ![c] = rows]
    /\ UNCHANGED <<arg, busy>>

End(c) ==
    /\ pc' = [pc EXCEPT ![c] = "done"]
    /\ arg' = [arg EXCEPT ![c] = Nothing]
    /\ read' = [read EXCEPT ![c] = Nothing]
    /\ busy' = [busy EXCEPT ![c] = {}]

\* A statement fails, finds no row that it needs, or its context has ended: the transaction
\* is rolled back.
Statements == {"insertGroup", "updateGroup", "setActive", "deleteGroup", "replaceItems",
               "setEnabled", "deleteChannel", "setSetting", "import"}
StatementFails(c) ==
    /\ pc[c] \in Statements
    /\ End(c)
    /\ UNCHANGED <<tables, caches, backup, suspect>>

\* A refresh that nobody else writes beside makes the caches good again.
Reread(c, xs) == suspect' = suspect \ (xs \ Spoils(Shared(c, xs)))

PdInit ==
    /\ channels = Rows.channels /\ channelCache = Rows.channels
    /\ models = Rows.models /\ modelCache = Rows.models
    /\ groups = Rows.groups /\ groupCache = Rows.groups
    /\ nameIndex = NamesOf(Rows.groups)
    /\ settings = Rows.settings /\ settingCache = Rows.settings
    /\ keys = Rows.keys /\ keySnap = Rows.keys /\ keyLock = Nobody
    /\ nextId = FirstId
    /\ pc = [c \in Calls |-> "new"]
    /\ arg = [c \in Calls |-> Nothing]
    /\ read = [c \in Calls |-> Nothing]
    /\ busy = [c \in Calls |-> {}]
    /\ backup = Foreign
    /\ suspect = {}
=============================================================================
