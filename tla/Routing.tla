------------------------------ MODULE Routing ------------------------------
(***************************************************************************)
(* The owner's rules and what they route: the `omihomo rule` commands      *)
(* (internal/cli/rules.go) edit an ordered list of rules and categories,   *)
(* the daemon checks and stores it (apply), compiles it with the active    *)
(* subscription's rules into what the core runs (runConfig, rawConfig) and *)
(* lists it (rules).  The subscription changes under it: Profile says what *)
(* a document becomes, and content is accepted or refused with the         *)
(* settings and rules of that moment.                                      *)
(*                                                                         *)
(* The transaction of a command on the owner's files is the subject of     *)
(* Files; here it is one step, and the files hold what the daemon runs.    *)
(***************************************************************************)
EXTENDS Profile

CONSTANTS
    Documents,    \* the documents Build is checked on
    Docs,         \* those a subscription may hold
    Leaves,       \* the rules a command may write
    Targets,      \* the targets a category may be given
    Names,        \* the names a category may be given
    Settings,     \* the settings the owner may choose
    MaxRules,     \* maxUserRules
    Ids,          \* the ids of categories
    NoCat         \* the id of a rule in none

\* A rule; its value, like a line, is the sequence of its fields.
IsRule(r) ==
    /\ r = [type |-> r.type, value |-> r.value, target |-> r.target, params |-> r.params, off |-> r.off]
    /\ IsSeq(r.value) /\ r.value # <<>> /\ IsSeq(r.params) /\ r.off \in BOOLEAN

ASSUME RoutingAssumption ==
    /\ MaxRules \in Nat /\ NoCat \notin Ids
    /\ \A r \in Leaves : IsRule(r)
    /\ \A s \in Settings : s.omihomoOff \in BOOLEAN /\ s.subscriptionOff \in BOOLEAN
    /\ \A d \in Documents \cup Docs : IsDocument(d)

VARIABLES
    entries,      \* the saved rules: entries that are a rule or a category
    set,          \* the settings that matter to routing
    profile,      \* the active subscription's content
    on            \* the proxy runs

routing == <<entries, set, profile, on>>

IsEntry(e) ==
    /\ e = [id |-> e.id, name |-> e.name, off |-> e.off, rules |-> e.rules]
    /\ e.id \in {NoCat} \cup Ids /\ e.off \in BOOLEAN
    /\ IsSeq(e.rules) /\ \A j \in DOMAIN e.rules : IsRule(e.rules[j])

Standalone(r) == [id |-> NoCat, name |-> "", off |-> FALSE, rules |-> <<r>>]

(***************************************************************************)
(* The saved rules as the commands count them.                             *)
(***************************************************************************)
Cats == {i \in DOMAIN entries : entries[i].id # NoCat}
Leafs(es) == FlattenSeq([i \in DOMAIN es |-> es[i].rules])

\* Where each rule is: its entry, and its place in the entry's rules.
Places(es) == FlattenSeq([i \in DOMAIN es |-> [j \in DOMAIN es[i].rules |-> <<i, j>>]])

\* ruleAt that counts the rules that are on before the others.
RuleAtEnabled(es, k) ==
    LET live(p) == ~es[p[1]].rules[p[2]].off
    IN  (SelectSeq(Places(es), live) \o SelectSeq(Places(es), LAMBDA p: ~live(p)))[k]

RuleAt(es, k) == Places(es)[k]

CategoryAt(es, id) == CHOOSE i \in DOMAIN es : es[i].id = id

Indices == 1..Len(Leafs(entries))

\* The entries without rule k, a standalone rule with its entry.
Deleted(es, k) ==
    LET p == RuleAt(es, k) IN
    IF es[p[1]].id = NoCat THEN RemoveAt(es, p[1])
    ELSE [es EXCEPT ![p[1]].rules = RemoveAt(@, p[2])]

Put(es, r, id) ==
    IF id = NoCat THEN Append(es, Standalone(r))
    ELSE [es EXCEPT ![CategoryAt(es, id)].rules = Append(@, r)]

\* k is 0 for a new rule.
AssignRule(es, r, k, id) ==
    LET p == RuleAt(es, k) IN
    IF k = 0 THEN Put(es, r, id)
    ELSE IF es[p[1]].id = id THEN [es EXCEPT ![p[1]].rules[p[2]] = r]
    ELSE Put(Deleted(es, k), r, id)

(***************************************************************************)
(* What the daemon accepts.                                                *)
(***************************************************************************)
\* PruneCategories that keeps what it is given.
PruneNothing(es) == es

PruneCategories(es) == Kept(es, {i \in DOMAIN es : es[i].id = NoCat \/ es[i].rules # <<>>})

checkRule(r) ==
    /\ r.type \in RuleTypes
    /\ IF r.type = <<"MATCH">> THEN r.value = NoValue
       ELSE r.value # NoValue /\ (r.type \notin CommaValues => Len(r.value) = 1)
    /\ r.params # <<>> => r.type \in {<<"RULE-SET">>, <<"IP-CIDR">>} /\ Range(r.params) \subseteq RuleParams
    /\ r.target # <<>>

checkRules(es) ==
    /\ \A i \in DOMAIN es : \A r \in Range(es[i].rules) : checkRule(r)
    /\ \A i, j \in DOMAIN es :
          i # j /\ es[i].id # NoCat /\ es[j].id # NoCat =>
              es[i].id # es[j].id /\ es[i].name # es[j].name
    /\ Len(Leafs(es)) <= MaxRules /\ Len(es) <= MaxRules

(***************************************************************************)
(* From the saved rules to the core's.                                     *)
(***************************************************************************)
\* hasTarget has fewer built-in targets than Build: PASS is not one of them.
hasTarget(p, n) ==
    \/ n \in {<<"DIRECT">>, <<"REJECT">>}
    \/ \E g \in Range(p.groups) : g.name = n
    \/ n \in Range(p.proxies)

\* ruleActive that does not look for the rule set.
ruleActiveSetless(p, r) == IF r.type = <<"SUB-RULE">> THEN r.target \in DOMAIN p.subs
                           ELSE hasTarget(p, r.target)

ruleActive(p, r) ==
    IF r.type = <<"SUB-RULE">> THEN r.target \in DOMAIN p.subs
    ELSE /\ r.type = <<"RULE-SET">> => r.value[1] \in p.sets
         /\ hasTarget(p, r.target)

\* A rule as it is listed: whose it is, and whether it takes part.
Listed(r, source, inactive) ==
    [rule |-> [type |-> r.type, value |-> r.value, target |-> r.target, params |-> r.params],
     source |-> source, inactive |-> inactive]

compileRules(es, p) ==
    FlattenSeq([i \in DOMAIN es |-> [j \in DOMAIN es[i].rules |->
        LET r == es[i].rules[j] IN
        Listed(r, "user", es[i].off \/ r.off \/ ~ruleActive(p, r))]])

Effective(listed) == Kept(listed, {i \in DOMAIN listed : ~listed[i].inactive})
Sourced(rs, source, off) == [i \in DOMAIN rs |-> Listed(rs[i], source, off)]

Own(type, value, target, params) ==
    [type |-> <<type>>, value |-> <<<<value>>>>, target |-> target, params |-> params]

IntegrationRules(s, p) ==
    LET direct == <<"DIRECT">>
        flag == <<<<"no-resolve">>>>
        proxied == <<Own("IP-CIDR", "100.64/10", Global, flag), Own("DOMAIN", "ts.net", Global, <<>>)>>
        integration == <<Own("IP-CIDR", "100.64/10", direct, flag),
                         Own("DOMAIN", "tailscale.com", Global, <<>>)>>
    IN  IF p.groups = <<>> THEN <<>>
        ELSE (IF s.tailnetProxy THEN proxied ELSE <<>>) \o (IF s.tailscale THEN integration ELSE <<>>)

runConfig(s, es, p) ==
    Effective(compileRules(es, p))
    \o (IF s.subscriptionOff THEN <<>> ELSE Sourced(p.rules, "subscription", FALSE))

\* withOmihomoRules that counts the leading rules from the end.
withOmihomoLast(rules, s, p) ==
    IF s.omihomoOff THEN rules ELSE rules \o Sourced(IntegrationRules(s, p), "omihomo", FALSE)

withOmihomoRules(rules, s, p) ==
    LET rest == {i \in DOMAIN rules : rules[i].source # "user"}
        lead == IF rest = {} THEN Len(rules) ELSE (CHOOSE i \in rest : \A j \in rest : i <= j) - 1
    IN  IF s.omihomoOff THEN rules
        ELSE SubSeq(rules, 1, lead) \o Sourced(IntegrationRules(s, p), "omihomo", FALSE)
             \o SubSeq(rules, lead + 1, Len(rules))

primaryGroup(groups, want) ==
    LET shown == Kept(groups, {i \in DOMAIN groups : ~groups[i].hidden})
        among == IF shown = <<>> THEN groups ELSE shown
        selects == Kept(among, {i \in DOMAIN among : among[i].type = "select"})
    IN  IF \E g \in Range(groups) : g.name = want THEN want
        ELSE IF selects # <<>> THEN selects[1].name
        ELSE IF groups # <<>> THEN among[1].name
        ELSE <<>>

\* The line ruleLine writes, or << >> for a rule it refuses.
ruleLine(r) ==
    CASE r.type = <<"MATCH">> ->
           IF r.value = NoValue /\ r.params = <<>> THEN <<r.type, r.target>> ELSE <<>>
      [] r.type \in CommaValues ->
           IF r.value # NoValue /\ r.params = <<>> THEN <<r.type>> \o r.value \o <<r.target>> ELSE <<>>
      [] OTHER ->
           IF r.value # NoValue /\ Len(r.value) = 1 THEN <<r.type>> \o r.value \o <<r.target>> \o r.params
           ELSE <<>>

\* rawConfig: the GLOBAL group in front of the profile's, and the rules.
\* names are those of its proxies and groups.
rawConfig(s, es, p) ==
    LET primary == primaryGroup(p.groups, s.primary)
        groups == (IF primary = <<>> THEN <<>> ELSE <<[name |-> Global, members |-> <<primary>>]>>)
                  \o [i \in DOMAIN p.groups |->
                        [name |-> p.groups[i].name, members |-> p.groups[i].members]]
    IN  [proxies |-> p.proxies, groups |-> groups,
         names |-> Range(p.proxies) \cup {g.name : g \in Range(groups)},
         sets |-> p.sets, subs |-> p.subs, dns |-> s.dns,
         rules |-> withOmihomoRules(runConfig(s, es, p), s, p)]

(***************************************************************************)
(* mihomo, which refuses a config whose names do not resolve.  It reads    *)
(* the lines of ruleLine the way ParseRule does; what it makes of a rule's *)
(* value is not modelled.                                                  *)
(***************************************************************************)
RuleResolves(c, r) ==
    /\ IF r.type = <<"SUB-RULE">> THEN r.target \in DOMAIN c.subs
       ELSE r.target \in c.names \cup Builtins \cup {Global}
    /\ r.type = <<"RULE-SET">> => r.value[1] \in c.sets

GroupsResolve(c) ==
    /\ Cardinality(c.names) = Len(c.proxies) + Len(c.groups)
    /\ c.names \cap Builtins = {}
    /\ \A g \in Range(c.groups) :
          g.members # <<>> /\ Range(g.members) \subseteq (c.names \cup Builtins) \ {g.name}

Resolves(c) ==
    /\ GroupsResolve(c)
    /\ c.dns # <<>> => c.dns \in c.names \ {Global}
    /\ \A l \in Range(c.rules) : ruleLine(l.rule) # <<>> /\ RuleResolves(c, ParseRule(ruleLine(l.rule)))
    /\ \A n \in DOMAIN c.subs : \A r \in Range(c.subs[n]) : RuleResolves(c, r)

CoreAccepts(s, es, p) == \E c \in {rawConfig(s, es, p)} : Resolves(c)

(***************************************************************************)
(* The daemon's operations.                                                *)
(***************************************************************************)
RoutingInit ==
    /\ entries = <<>> /\ set \in Settings /\ set.dns = <<>>
    /\ profile = Empty /\ on = FALSE

\* apply, on a running core or checked by a stopped one.
Apply(s, es) ==
    /\ set' = s /\ entries' = PruneCategories(es)
    /\ checkRules(es)
    /\ s.dns # <<>> => s.dns \in Range(profile.proxies) \cup {g.name : g \in Range(profile.groups)}
    /\ CoreAccepts(s, PruneCategories(es), profile)
    /\ UNCHANGED <<profile, on>>

SetSettings(s) == Apply(s, entries)

\* What a download may bring, as Build makes it.
Contents == {Build(d) : d \in Docs}

\* Content that is added, activated or refreshed runs with the settings and
\* the rules of the moment it is accepted, or is refused and changes nothing.
AcceptContent(p) ==
    /\ p.ok /\ CoreAccepts(set, entries, p)
    /\ profile' = p
    /\ UNCHANGED <<entries, set, on>>

RemoveSub ==
    /\ ~on
    /\ profile' = Empty
    /\ UNCHANGED <<entries, set, on>>

TurnOn ==
    /\ ~on /\ checkRules(entries) /\ CoreAccepts(set, entries, profile)
    /\ on' = TRUE
    /\ UNCHANGED <<entries, set, profile>>

TurnOff ==
    /\ on /\ on' = FALSE
    /\ UNCHANGED <<entries, set, profile>>

(***************************************************************************)
(* The commands.                                                           *)
(***************************************************************************)
\* checkName of the command line: a stopped proxy has nothing to check with.
TargetKnown(n) ==
    on /\ n \notin {<<"DIRECT">>, <<"REJECT">>} =>
        \E g \in Range(profile.groups) :
            /\ g.hidden => g.name = primaryGroup(profile.groups, set.primary)
            /\ n = g.name \/ n \in Range(g.members)

CatIds == {entries[c].id : c \in Cats}

RuleAdd(r, id) ==
    /\ r.type # <<"SUB-RULE">> => TargetKnown(r.target)
    /\ Apply(set, AssignRule(entries, r, 0, id))

\* The target of an edited rule may be one the subscription lacks, if the
\* rule had it before.
Editable(k, r) ==
    LET p == RuleAt(entries, k) IN
    r.type # <<"SUB-RULE">> /\ entries[p[1]].rules[p[2]].target # r.target => TargetKnown(r.target)

RuleUpdate(k, r, id) == Editable(k, r) /\ Apply(set, AssignRule(entries, r, k, id))

\* The rule is the first of a category that the same transaction adds.
RuleGroup(k, r, id, name) ==
    /\ IF k = 0 THEN r.type # <<"SUB-RULE">> => TargetKnown(r.target) ELSE Editable(k, r)
    /\ LET c == [id |-> id, name |-> name, off |-> FALSE, rules |-> <<>>]
       IN  Apply(set, AssignRule(Append(entries, c), r, k, id))

Toggled(es, k, off) ==
    LET p == RuleAt(es, k) IN [es EXCEPT ![p[1]].rules[p[2]].off = off]

RuleToggle(k, off) == Apply(set, Toggled(entries, k, off))

SameList(es, f, t) == es[RuleAt(es, f)[1]].id = es[RuleAt(es, t)[1]].id

Moved(es, f, t) ==
    LET p == RuleAt(es, f)
        q == RuleAt(es, t)
    IN  IF es[p[1]].id = NoCat THEN InsertAt(RemoveAt(es, p[1]), q[1], es[p[1]])
        ELSE [es EXCEPT ![p[1]].rules = InsertAt(RemoveAt(@, p[2]), q[2], es[p[1]].rules[p[2]])]

RuleMove(f, t) == SameList(entries, f, t) /\ Apply(set, Moved(entries, f, t))

EntryMove(f, t) == Apply(set, InsertAt(RemoveAt(entries, f), t, entries[f]))

RuleRemove(k) == Apply(set, Deleted(entries, k))

CategoryRename(c, name) == Apply(set, [entries EXCEPT ![c].name = name])

CategoryToggle(c, off) == Apply(set, [entries EXCEPT ![c].off = off])

CategoryTarget(c, target) ==
    /\ TargetKnown(target)
    /\ Apply(set, [entries EXCEPT ![c].rules = [j \in DOMAIN @ |->
           IF @[j].type = <<"SUB-RULE">> THEN @[j] ELSE [@[j] EXCEPT !.target = target]]])

Ungrouped(es, c) ==
    LET rules == [j \in DOMAIN es[c].rules |-> [es[c].rules[j] EXCEPT !.off = @ \/ es[c].off]]
    IN  SubSeq(es, 1, c - 1) \o [j \in DOMAIN rules |-> Standalone(rules[j])]
        \o SubSeq(es, c + 1, Len(es))

CategoryRemove(c) == Apply(set, Ungrouped(entries, c))

RoutingNext ==
    \/ \E s \in Settings : SetSettings(s)
    \/ \E p \in Contents : AcceptContent(p)
    \/ RemoveSub \/ TurnOn \/ TurnOff
    \/ \E r \in Leaves, id \in {NoCat} \cup CatIds : RuleAdd(r, id)
    \/ \E k \in Indices, r \in Leaves, id \in {NoCat} \cup CatIds : RuleUpdate(k, r, id)
    \/ \E k \in {0} \cup Indices, r \in Leaves, id \in Ids \ CatIds, n \in Names : RuleGroup(k, r, id, n)
    \/ \E k \in Indices, off \in BOOLEAN : RuleToggle(k, off)
    \/ \E f, t \in Indices : RuleMove(f, t)
    \/ \E f, t \in DOMAIN entries : EntryMove(f, t)
    \/ \E k \in Indices : RuleRemove(k)
    \/ \E c \in Cats, n \in Names : CategoryRename(c, n)
    \/ \E c \in Cats, off \in BOOLEAN : CategoryToggle(c, off)
    \/ \E c \in Cats, n \in Targets : CategoryTarget(c, n)
    \/ \E c \in Cats : CategoryRemove(c)

RoutingSpec == RoutingInit /\ [][RoutingNext]_routing

(***************************************************************************)
(* What `omihomo rule list` and the widget show.                           *)
(***************************************************************************)
Shown ==
    compileRules(entries, profile)
    \o Sourced(IntegrationRules(set, profile), "omihomo", set.omihomoOff)
    \o Sourced(profile.rules, "subscription", set.subscriptionOff)

Unreachable(shown, i) ==
    ~shown[i].inactive
    /\ \E j \in 1..(i - 1) : ~shown[j].inactive /\ shown[j].rule.type = <<"MATCH">>

(***************************************************************************)
(* Properties.                                                             *)
(***************************************************************************)
\* What is stored passed the daemon's checks, and no category is empty.
RulesStored ==
    /\ IsSeq(entries) /\ \A i \in DOMAIN entries : IsEntry(entries[i]) /\ entries[i].rules # <<>>
    /\ \A i \in DOMAIN entries : entries[i].id = NoCat => entries[i] = Standalone(entries[i].rules[1])
    /\ checkRules(entries) /\ set \in Settings /\ on \in BOOLEAN
    /\ profile \in {Empty} \cup {p \in Contents : p.ok}

\* "The rule editor and routing use the same order" (docs/adr/0008): the
\* rules listed as taking part, which rules of the daemon computes, are the
\* rules that rawConfig hands to the core, in that order.
ListedRuns == Effective(Shown) = rawConfig(set, entries, profile).rules

\* "Rules following an enabled MATCH are marked unreachable" (docs/adr/0008):
\* a rule that takes part is marked exactly when the core runs a MATCH before
\* it, so that no traffic gets to it.
UnreachableIsSo ==
    LET shown == Shown
        run == rawConfig(set, entries, profile).rules
        rank(i) == Len(Effective(SubSeq(shown, 1, i)))
    IN  \A i \in DOMAIN shown : ~shown[i].inactive =>
            (Unreachable(shown, i) <=> \E j \in 1..(rank(i) - 1) : run[j].rule.type = <<"MATCH">>)

\* What the rules call answers is true of what the core runs.
ListingTrue == ListedRuns /\ UnreachableIsSo

\* The proxy never runs, or is left running, with a config whose names do
\* not resolve: a target, a rule set, a group's member or the DNS destination
\* that the subscription does not have, whatever came and went meanwhile.
RunsResolved == on => CoreAccepts(set, entries, profile)

Defaults == [dns |-> <<>>, primary |-> <<>>, tailscale |-> FALSE, tailnetProxy |-> FALSE,
             omihomoOff |-> FALSE, subscriptionOff |-> FALSE]
Usable == {p \in Contents : p.ok /\ CoreAccepts(Defaults, <<>>, p)}

\* Content the core would run by itself is never refused for the owner's
\* saved rules: those it has no target, rule set or sub-rule for are left out.
\* Only a DNS destination that the content lacks stands in its way.
RulesNeverBlock ==
    \A p \in Usable :
        \/ CoreAccepts(set, entries, p)
        \/ set.dns # <<>> /\ set.dns \notin Range(p.proxies) \cup {g.name : g \in Range(p.groups)}

\* The owner's saved rules and any subscription fit: neither runs into what the
\* other lacks, nor is refused for it.
RulesFit == RunsResolved /\ RulesNeverBlock

Built == {p \in {Build(d) : d \in Documents} : p.ok}

\* What Build makes of any document, run alone and with any primary group,
\* has no two proxies or groups of one name, no group with a member that does
\* not exist, and no rule without its target or rule set, and its rules reach
\* the core as they were read.  The core refuses it only for its sub-rules, or
\* for a rule with an empty value of a type that takes commas, which ParseRule
\* reads and ruleLine does not write.
BuildResolves ==
    entries = <<>> =>
        \A p \in Built : \E c \in {rawConfig(set, entries, p)} :
            /\ GroupsResolve(c)
            /\ \A r \in Range(p.rules) :
                  /\ r.type # <<"SUB-RULE">> => RuleResolves(c, r)
                  /\ (r.type \in CommaValues /\ r.value = NoValue) \/ ParseRule(ruleLine(r)) = r

\* The number a rule is listed under is the rule that a command with this
\* number changes, whatever categories are around it, and nothing else moves:
\* after a move the list is the old one with that rule at the other's place,
\* after a removal the old one without it, and an edit that takes the rule to
\* another category leaves the rest in its order.
EditsByIndex ==
    LET old == Leafs(entries) IN
    /\ \A f, t \in Indices : SameList(entries, f, t) =>
          Leafs(Moved(entries, f, t)) = InsertAt(RemoveAt(old, f), t, old[f])
    /\ \A k \in Indices :
          /\ Leafs(Deleted(entries, k)) = RemoveAt(old, k)
          /\ Leafs(Toggled(entries, k, TRUE)) = [old EXCEPT ![k].off = TRUE]
          /\ \A id \in {NoCat} \cup CatIds :
                LET new == Leafs(AssignRule(entries, old[k], k, id))
                IN  \E j \in Indices : new[j] = old[k] /\ RemoveAt(new, j) = RemoveAt(old, k)

\* Ungrouping a category changes no routing, on or off: the core runs the
\* same rules, under this subscription and under any other.
UngroupRoutesAlike ==
    \A c \in Cats, p \in {profile} \cup Usable :
        rawConfig(set, Ungrouped(entries, c), p).rules = rawConfig(set, entries, p).rules

\* The edits of a rule command do what they are named for, and no more.
EditsSound == EditsByIndex /\ UngroupRoutesAlike
==============================================================================
