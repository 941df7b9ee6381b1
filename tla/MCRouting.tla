------------------------------ MODULE MCRouting ------------------------------
(***************************************************************************)
(* Three rules in up to two categories, and subscriptions that have or     *)
(* lack what the rules need.                                               *)
(***************************************************************************)
EXTENDS Routing

Alike == Permutations(Ids)

A == <<"a">>
B == <<"b">>
G == <<"G">>
Direct == <<"DIRECT">>
NoFilter == [broken |-> FALSE, out |-> {}]

Leaf(type, value, target) == [type |-> <<type>>, value |-> value, target |-> target, params |-> <<>>, off |-> FALSE]
MCLeaves ==
    {Leaf("MATCH", NoValue, G), Leaf("RULE-SET", <<<<"set">>>>, A)}

Plainly(name, proxies) ==
    [name |-> name, type |-> "select", ok |-> TRUE, hidden |-> FALSE, proxies |-> proxies,
     filter |-> NoFilter, all |-> FALSE, allProxies |-> FALSE, allProviders |-> FALSE, use |-> <<>>]
Provider(name, type, ok, proxies) ==
    [name |-> name, type |-> type, ok |-> ok, filter |-> NoFilter, proxies |-> proxies]
Doc == [proxies |-> <<>>, providers |-> <<>>, groups |-> <<>>, sets |-> <<>>,
        subs |-> [n \in {} |-> <<>>], rules |-> <<>>]
Match(n) == <<<<"MATCH">>, n>>

Full ==
    [Doc EXCEPT !.proxies = <<A, B>>, !.groups = <<Plainly(G, <<A, Direct>>)>>,
                !.sets = <<[name |-> <<"set">>, type |-> "inline", ok |-> TRUE]>>,
                !.rules = <<<<<<"RULE-SET">>, <<"set">>, A, <<"no-resolve">>, <<"x">>>>, Match(G)>>]

\* The names of top-level proxies come again from the providers.
Provided == <<Provider("p", "inline", TRUE, <<A, B>>), Provider("q", "http", TRUE, <<B, A>>),
              Provider("r", "file", TRUE, <<A>>)>>
Gathering == <<[Plainly(G, <<>>) EXCEPT !.all = TRUE, !.filter.out = {"b"}],
               [Plainly(<<"H">>, <<>>) EXCEPT !.use = <<"q", "r">>, !.hidden = TRUE]>>
\* Groups with the name of a proxy, a reserved one and one that is taken, and
\* members that are not there.
Crooked == <<Plainly(A, <<Direct>>), Plainly(Global, <<A>>),
             [Plainly(<<"H">>, <<G>>) EXCEPT !.type = "url-test"], Plainly(<<"H">>, <<A>>),
             [Plainly(G, <<G, <<"H">>, B, A, A>>) EXCEPT !.allProxies = TRUE]>>
Lines == <<<<<<"DOMAIN">>, <<"x">>, B>>, <<<<"RULE-SET">>, <<"set">>, G>>, <<<<"DOMAIN">>, <<"x">>>>,
           <<<<"AND">>, <<"x">>, <<"y">>, <<"PASS">>>>, <<<<"AND">>, <<>>, B>>, <<<<"SUB-RULE">>, <<"x">>, <<"s">>>>, Match(Global)>>

\* All that the rules need; groups without the rule set and without the group
\* the rules name; a sub-rule without lines, which the core does not find.
MCDocs == {
    Full,
    [Doc EXCEPT !.proxies = <<A, <<"a", 2>>>>, !.providers = Provided,
                !.groups = <<[Gathering[1] EXCEPT !.name = <<"I">>], Gathering[2]>>,
                !.rules = <<Match(<<"a", 3>>)>>],
    [Doc EXCEPT !.proxies = <<B>>, !.groups = <<Plainly(G, <<B>>)>>, !.subs = (<<"s">> :> <<>>),
                !.rules = <<<<<<"SUB-RULE">>, <<"x">>, <<"s">>>>>>]}

\* These, bare proxies, and what comes of all parts with one another.
MCDocuments == MCDocs \cup {[Doc EXCEPT !.proxies = <<B, B, <<>>>>]} \cup
    {[Full EXCEPT !.proxies = ps, !.providers = pr, !.groups = gs, !.rules = rs, !.sets = ss] :
       ps \in {<<>>, <<A, A, Direct>>, <<A, <<"a", 2>>>>, <<WrapperGroup, B>>},
       pr \in {<<>>, Provided, <<Provider("p", "http", FALSE, <<>>)>>,
               <<Provider("p", "inline", TRUE, <<A, B, A, B, A>>)>>},
       gs \in {<<>>, Gathering, Crooked},
       rs \in {<<>>, Lines},
       ss \in {<<>>, Full.sets, <<[Full.sets[1] EXCEPT !.type = "http", !.ok = FALSE]>>}}

Choice(dns, primary, tailscale, proxied, omihomo, subscription) ==
    [dns |-> dns, primary |-> primary, tailscale |-> tailscale, tailnetProxy |-> proxied,
     omihomoOff |-> omihomo, subscriptionOff |-> subscription]
MCSettings == {Choice(<<>>, <<>>, TRUE, TRUE, FALSE, FALSE),
               Choice(B, <<"H">>, TRUE, FALSE, TRUE, TRUE)}
MCTargets == {G}
==============================================================================
