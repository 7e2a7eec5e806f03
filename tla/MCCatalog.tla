------------------------------ MODULE MCCatalog -------------------------------
EXTENDS Catalog

Model(ch, name, source) == [channel |-> ch, name |-> name, source |-> source]
ToModel(m) == [model |-> m, ref |-> ""]
ToGroup(name) == [model |-> 0, ref |-> name]
Item(target) == [model |-> target.model, ref |-> target.ref, priority |-> 1]

\* Channel 1 offers the models 2 and 3.  Group 4 has the second one as a member, which
\* is active; group 7 refers to group 4.
TheRows ==
    [channels |-> 1 :> [name |-> "alpha", enabled |-> TRUE, secrets |-> {"s1"}],
     models |-> 2 :> Model(1, "m", "manual") @@ 3 :> Model(1, "n", "auto"),
     groups |-> 4 :> [name |-> "G", active |-> 6,
                      items |-> 6 :> Item(ToModel(3))]
             @@ 7 :> [name |-> "H", active |-> 0, items |-> 8 :> Item(ToGroup("G"))],
     settings |-> "interval" :> "one" @@ "jwt" :> "ours",
     keys |-> 9 :> "k1"]

\* A backup of another installation: its channel 1 has another model, one of its keys is ours.
Another ==
    [channels |-> 1 :> [name |-> "beta", enabled |-> FALSE, secrets |-> {}]
               @@ 20 :> [name |-> "gamma", enabled |-> TRUE, secrets |-> {}],
     models |-> 2 :> Model(1, "other", "manual") @@ 21 :> Model(20, "m", "manual"),
     groups |-> 4 :> "X" @@ 22 :> "J",
     items |-> 23 :> [group |-> 22, item |-> Item(ToGroup("H"))]
            @@ 24 :> [group |-> 4, item |-> Item(ToModel(21))],
     keys |-> 9 :> "k2" @@ 25 :> "k3",
     settings |-> "interval" :> "two" @@ "proxy" :> "one"]

TheNewGroups == {[name |-> "J", add |-> <<ToGroup("H"), ToModel(2)>>]}

Edit(name, add, drop, raise) == [name |-> name, add |-> add, drop |-> drop, raise |-> raise]
TheGroupEdits ==
    {Edit("K", <<ToModel(2)>>, {6, 8}, {}), Edit("", <<ToGroup("H")>>, {}, {6})}

TheRankings == {[name |-> "auto", add |-> <<ToModel(3)>>]}

TheNewChannels ==
    {<<[name |-> "alpha", models |-> <<>>, secrets |-> {}],
       [name |-> "delta", models |-> <<"m">>, secrets |-> {"s1"}]>>}

TheChannelEdits ==
    {[changes |-> {"secrets"}, kept |-> {"s1"}, fresh |-> {"s2"}, models |-> <<>>],
     [changes |-> {"models"}, kept |-> {}, fresh |-> {}, models |-> "m" :> "auto" @@ "p" :> "manual"]}

TheOffers == {{"m", "p"}}
TheDefaults == "locale" :> "en"
=============================================================================
