------------------------------- MODULE Channels -------------------------------
(***************************************************************************)
(* The calls on channels (op/channel.go) and the run that synchronises     *)
(* their models with what the upstreams offer (task/sync.go).  Both end    *)
(* with a refresh of the groups, whose members may have gone with a model. *)
(***************************************************************************)
EXTENDS Groups

CONSTANTS
    NewChannels,    \* texts to import: sequences of [name, models, secrets]
    ChannelEdits,   \* requests to update: [changes, kept, fresh, models]; models: name -> source
    Offers          \* lists of models an upstream may offer

ChannelTablesOnly == UNCHANGED <<settings, keys, caches, backup, suspect>>

-----------------------------------------------------------------------------
(* Creation.  ChannelCreate is the import of one block. *)

ChannelImportFromText(c) ==
    \E text \in NewChannels : Begin(c, "insertChannel", [text |-> text], {"channels", "models"})

\* The text without its first block.
NextBlock(c) ==
    IF Len(arg[c].text) = 1
      THEN End(c)
      ELSE /\ pc' = [pc EXCEPT ![c] = "insertChannel"]
           /\ arg' = [arg EXCEPT ![c].text = Tail(@)]
           /\ read' = [read EXCEPT ![c] = Nothing]
           /\ UNCHANGED busy

\* A name that is taken, or any other error, fails this block only.
ChannelCreate(c) ==
    LET new == Head(arg[c].text)
        added == [m \in nextId + 1 .. nextId + Len(new.models) |->
                    [channel |-> nextId, name |-> new.models[m - nextId], source |-> "manual"]]
        row == [name |-> new.name, enabled |-> TRUE, secrets |-> new.secrets]
    IN  /\ pc[c] = "insertChannel"
        /\ \/ /\ IdOf(channels, new.name) = {}
              /\ channels' = Put(channels, nextId, row)
              /\ models' = Over(added, models)
              /\ nextId' = nextId + 1 + Len(new.models)
              /\ Goto(c, "publishNew", [on |-> nextId, row |-> row, models |-> added])
           \/ NextBlock(c) /\ UNCHANGED <<channels, models, nextId>>
        /\ UNCHANGED groups
        /\ ChannelTablesOnly

PublishNew(c) ==
    /\ pc[c] = "publishNew"
    /\ channelCache' = Put(channelCache, read[c].on, read[c].row)
    /\ modelCache' = Over(read[c].models, modelCache)
    /\ NextBlock(c)
    /\ UNCHANGED <<tables, groupCache, nameIndex, settingCache, keySnap, keyLock, backup, suspect>>

-----------------------------------------------------------------------------
(* Update. *)

\* What a change of a channel goes by; a run of the synchronisation also has the channels
\* that are still to do and the models it has seen.
Change(ch, edit) == [on |-> ch, edit |-> edit, todo |-> {}, seen |-> Nothing]

\* A submitted key without its secret stands for the secret that the cached channel has.
ChannelUpdate(c) ==
    \E ch \in DOMAIN channelCache, e \in ChannelEdits :
        /\ e.kept \subseteq channelCache[ch].secrets
        /\ e.kept \cap e.fresh = {}
        /\ Begin(c, "updateChannel", Change(ch, e),
                 IF "models" \in e.changes THEN RouteCaches ELSE {"channels"})

\* A run of the synchronisation goes on with its next channel; a call of the panel returns.
Return(c) ==
    IF arg[c].todo = {}
      THEN End(c)
      ELSE /\ pc' = [pc EXCEPT ![c] = "fetch"]
           /\ read' = [read EXCEPT ![c] = Nothing]
           /\ busy' = [busy EXCEPT ![c] = {}]
           /\ arg' = [arg EXCEPT ![c].on = 0, ![c].edit = Nothing]

\* Mutated: a group keeps the active member that it lost.
ClearedKeepsActive(gone) ==
    [g \in DOMAIN groups |-> [groups[g] EXCEPT !.items =
        [i \in {x \in DOMAIN @ : @[x].model \notin gone} |-> @[i]]]]

\* Groups without the members that pointed to models that are gone.
Cleared(gone) ==
    LET lost == UNION {{i \in DOMAIN groups[g].items : groups[g].items[i].model \in gone} :
                          g \in DOMAIN groups}
    IN  [g \in DOMAIN groups |->
            [groups[g] EXCEPT !.items = Without(@, lost), !.active = IF @ \in lost THEN 0 ELSE @]]

\* Models of ch by the names wanted, with their ids; new ones get new ids.
Wanted(ch, wanted, names) ==
    LET old == {m \in ModelsOf(models, ch) : models[m].name \in DOMAIN wanted}
        Row(n) == [channel |-> ch, name |-> n, source |-> wanted[n]]
    IN  [m \in old \cup (nextId .. nextId + Len(names) - 1) |->
            IF m \in old THEN Row(models[m].name) ELSE Row(names[m - nextId + 1])]

\* The second case is a statement that fails or a channel that is gone.
UpdateChannel(c) ==
    LET ch == arg[c].on
        e == arg[c].edit
        row == IF "secrets" \in e.changes
                 THEN [channels[ch] EXCEPT !.secrets = e.kept \cup e.fresh] ELSE channels[ch]
        added == SetToSeq(DOMAIN e.models \ {models[m].name : m \in ModelsOf(models, ch)})
    IN  /\ pc[c] = "updateChannel"
        /\ \/ /\ ch \in DOMAIN channels
              /\ channels' = [channels EXCEPT ![ch] = row]
              /\ IF "models" \in e.changes
                   THEN /\ models' = Over(Wanted(ch, e.models, added),
                                           Without(models, ModelsOf(models, ch)))
                        /\ groups' = Cleared(ModelsOf(models, ch) \ DOMAIN models')
                        /\ nextId' = nextId + Len(added)
                   ELSE UNCHANGED <<models, groups, nextId>>
              /\ Goto(c, "publishChannel",
                      [row |-> row, models |-> Restrict(models', ModelsOf(models', ch))])
           \/ Return(c) /\ UNCHANGED <<channels, models, groups, nextId>>
        /\ ChannelTablesOnly

\* Cached models that are still there take over the source; the others are removed or added.
PublishChannel(c) ==
    LET ch == arg[c].on
        now == read[c].models
        stays == {m \in ModelsOf(modelCache, ch) : m \in DOMAIN now}
    IN  /\ pc[c] = "publishChannel"
        /\ channelCache' = Put(channelCache, ch, read[c].row)
        /\ IF "models" \in arg[c].edit.changes
             THEN /\ modelCache' =
                        Over([m \in stays |-> [modelCache[m] EXCEPT !.source = now[m].source]],
                             Over(now, Without(modelCache, ModelsOf(modelCache, ch))))
                  /\ Goto(c, "readGroups", Nothing)
             ELSE UNCHANGED modelCache /\ Return(c)
        /\ UNCHANGED <<tables, groupCache, nameIndex, settingCache, keySnap, keyLock, backup,
                       suspect>>

-----------------------------------------------------------------------------
(* Enabling and deletion. *)

ChannelEnabled(c) ==
    \E ch \in DOMAIN channelCache, on \in BOOLEAN :
        Begin(c, "setEnabled", [on |-> ch, enabled |-> on], {"channels"})

SetEnabled(c) ==
    /\ pc[c] = "setEnabled"
    /\ channels' = [x \in DOMAIN channels |->
                      IF x = arg[c].on THEN [channels[x] EXCEPT !.enabled = arg[c].enabled]
                      ELSE channels[x]]
    /\ Goto(c, "publishEnabled", Nothing)
    /\ UNCHANGED <<models, groups, nextId>>
    /\ ChannelTablesOnly

\* The cached channel is read again, so that only its flag changes.
PublishEnabled(c) ==
    /\ pc[c] = "publishEnabled"
    /\ channelCache' = [x \in DOMAIN channelCache |->
                          IF x = arg[c].on THEN [channelCache[x] EXCEPT !.enabled = arg[c].enabled]
                          ELSE channelCache[x]]
    /\ End(c)
    /\ UNCHANGED <<tables, modelCache, groupCache, nameIndex, settingCache, keySnap, keyLock,
                   backup,
                   suspect>>

ChannelDel(c) ==
    \E ch \in DOMAIN channelCache :
        Begin(c, "deleteChannel", Change(ch, Nothing), RouteCaches)

DeleteChannel(c) ==
    LET ch == arg[c].on
        gone == ModelsOf(models, ch)
    IN  /\ pc[c] = "deleteChannel"
        /\ channels' = Without(channels, {ch})
        /\ models' = Without(models, gone)
        /\ groups' = Cleared(gone)
        /\ Goto(c, "forgetChannel", gone)
        /\ UNCHANGED nextId
        /\ ChannelTablesOnly

ForgetChannel(c) ==
    /\ pc[c] = "forgetChannel"
    /\ channelCache' = Without(channelCache, {arg[c].on})
    /\ modelCache' = Without(modelCache, read[c])
    /\ Goto(c, "readGroups", Nothing)
    /\ UNCHANGED <<tables, groupCache, nameIndex, settingCache, keySnap, keyLock, backup, suspect>>

\* The change of the channel is done when the groups have been refreshed, or could not be:
\* that is logged, and the groups stay as they are.
GroupsRead(c) == ReadGroups(c, "readGroups", "storeGroups")
GroupsRefreshed(c) == StoreGroups(c, "storeGroups") /\ Return(c)

GroupsNotRefreshed(c) ==
    /\ pc[c] = "readGroups"
    /\ Tangle({"groups", "names"})
    /\ Return(c)
    /\ UNCHANGED <<tables, caches, backup>>

-----------------------------------------------------------------------------
(* SyncModelsTask.  One run at a time; it works on the list it began with. *)

Changing == {"fetch", "updateChannel", "publishChannel", "readGroups", "storeGroups"}

SyncModelsTask(c) ==
    /\ ~\E d \in Calls : pc[d] \in Changing /\ arg[d].seen # Nothing
    /\ Begin(c, "fetch",
             [on |-> 0, edit |-> Nothing, todo |-> DOMAIN channelCache, seen |-> modelCache], {})

\* Models added by hand stay, and keep their names from the upstream's.  Only a change
\* is written; an upstream that does not answer is passed over.
FetchModels(c) ==
    /\ pc[c] = "fetch"
    /\ \E ch \in arg[c].todo :
          LET seen == arg[c].seen
              NamesBy(source) == {seen[m].name : m \in {x \in ModelsOf(seen, ch) : seen[x].source = source}}
              rest == [arg[c] EXCEPT !.todo = @ \ {ch}]
          IN  \/ \E offer \in Offers :
                    LET auto == offer \ NamesBy("manual")
                        wanted == [n \in auto \cup NamesBy("manual") |->
                                      IF n \in auto THEN "auto" ELSE "manual"]
                    IN  /\ auto # NamesBy("auto")
                        /\ ch \in DOMAIN channelCache
                        /\ arg' = [arg EXCEPT ![c] = [rest EXCEPT !.on = ch, !.edit =
                                      [changes |-> {"models"}, kept |-> {}, fresh |-> {},
                                       models |-> wanted]]]
                        /\ pc' = [pc EXCEPT ![c] = "updateChannel"]
                        /\ Touch(c, RouteCaches)
                        /\ UNCHANGED read
              \/ /\ IF rest.todo = {} THEN End(c)
                    ELSE arg' = [arg EXCEPT ![c] = rest] /\ UNCHANGED <<pc, read, busy>>
                 /\ UNCHANGED suspect
    /\ UNCHANGED <<tables, caches, backup>>
=============================================================================
