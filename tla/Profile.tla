------------------------------ MODULE Profile ------------------------------
(***************************************************************************)
(* internal/profile: what Build makes of a subscription's document.        *)
(*                                                                         *)
(* A string is a sequence of words, the empty string << >>: unique puts a  *)
(* number after a name.  A name that checkName refuses for its characters, *)
(* and a proxy of a type that is not modelled, is << >> too.  A string in  *)
(* which commas separate fields is the sequence of its fields.  What a     *)
(* regex filter keeps is given by the first words it excludes.             *)
(***************************************************************************)
EXTENDS Naturals, Sequences, FiniteSets, SequencesExt

CONSTANT MaxProxies     \* maxProxies: the proxies one subscription may hold

ASSUME ProfileAssumption == MaxProxies \in Nat

Builtins == {<<"DIRECT">>, <<"REJECT">>, <<"PASS">>}
Global == <<"GLOBAL">>
WrapperGroup == <<"Proxy">>
NoValue == <<<<>>>>

IsSeq(s) == Len(s) \in Nat /\ s = [i \in 1..Len(s) |-> s[i]]

\* The elements of s at the places of I, in their order.
Kept(s, I) == FlattenSeq([i \in 1..Len(s) |-> IF i \in I THEN <<s[i]>> ELSE <<>>])

\* Each name once, where it comes first.
Once(s) == Kept(s, {i \in 1..Len(s) : \A j \in 1..(i - 1) : s[j] # s[i]})

RuleTypes == {<<"SUB-RULE">>, <<"RULE-SET">>, <<"DOMAIN">>, <<"DOMAIN-REGEX">>,
              <<"IP-CIDR">>, <<"AND">>, <<"MATCH">>}
CommaValues == {<<"SUB-RULE">>, <<"DOMAIN-REGEX">>, <<"AND">>}
RuleParams == {<<"no-resolve">>}

Empty == [ok |-> TRUE, proxies |-> <<>>, groups |-> <<>>, sets |-> {},
          subs |-> [n \in {} |-> <<>>], rules |-> <<>>]
Refused == [Empty EXCEPT !.ok = FALSE]

\* A document as Read leaves it: its lists are sequences, and a name and a
\* line of rules are sequences themselves; a line has a field.
IsDocument(d) ==
    /\ IsSeq(d.proxies) /\ IsSeq(d.providers) /\ IsSeq(d.groups) /\ IsSeq(d.rules)
    /\ \A i \in DOMAIN d.proxies : IsSeq(d.proxies[i])
    /\ \A i \in DOMAIN d.providers :
          /\ IsSeq(d.providers[i].proxies)
          /\ \A j \in DOMAIN d.providers[i].proxies : IsSeq(d.providers[i].proxies[j])
    /\ \A i \in DOMAIN d.groups : IsSeq(d.groups[i].proxies) /\ IsSeq(d.groups[i].use)
    /\ \A i \in DOMAIN d.rules : IsSeq(d.rules[i]) /\ d.rules[i] # <<>>

(***************************************************************************)
(* Rule lines.                                                             *)
(***************************************************************************)
Malformed == [type |-> <<>>, value |-> NoValue, target |-> <<>>, params |-> <<>>]

ParseRule(f) ==
    CASE f[1] = <<"MATCH">> /\ Len(f) = 2 /\ f[2] # <<>> ->
           [type |-> f[1], value |-> NoValue, target |-> f[2], params |-> <<>>]
      [] f[1] \in CommaValues /\ Len(f) >= 3 /\ Last(f) # <<>> ->
           [type |-> f[1], value |-> SubSeq(f, 2, Len(f) - 1), target |-> Last(f),
            params |-> <<>>]
      [] f[1] \notin CommaValues \cup {<<"MATCH">>}
         /\ Len(f) >= 3 /\ f[2] # <<>> /\ f[3] # <<>> ->
           [type |-> f[1], value |-> <<f[2]>>, target |-> f[3],
            params |-> SubSeq(f, 4, Len(f))]
      [] OTHER -> Malformed

(***************************************************************************)
(* Proxies: the document's own, then the providers'.                       *)
(***************************************************************************)
checkName(n) == n # <<>> /\ n # Global /\ n \notin Builtins

TopLevel(d) == Once(Kept(d.proxies, {i \in DOMAIN d.proxies : checkName(d.proxies[i])}))

\* unique that numbers a name once and does not look whether that is free.
UniqueOnce(taken, n) == IF n \in taken THEN Append(n, 2) ELSE n

Unique(taken, n) ==
    LET free == {i \in 2..(Cardinality(taken) + 2) : Append(n, i) \notin taken}
    IN  IF n \in taken THEN Append(n, CHOOSE i \in free : \A j \in free : i <= j) ELSE n

\* filter.keep, without the time its regexes may take.
Keeps(f, n) == n[1] \notin f.out

AddProxy(b, p, n) ==
    LET name == Unique(Builtins \cup Range(b.proxies), n) IN
    IF ~b.ok \/ ~checkName(n) \/ ~Keeps(p.filter, n) THEN b
    ELSE IF Len(b.proxies) >= MaxProxies THEN [b EXCEPT !.ok = FALSE]
    ELSE [ok |-> TRUE, proxies |-> Append(b.proxies, name),
          from |-> [b.from EXCEPT ![p.name] = Append(@, name)]]

\* A provider to download that did not come, or came unreadable, fails the
\* subscription; one that is not to be read is left out.
AddProvider(b, p) ==
    LET added[i \in 0..Len(p.proxies)] ==
            IF i = 0
            THEN [ok |-> b.ok, proxies |-> b.proxies,
                  from |-> [n \in DOMAIN b.from \cup {p.name} |-> IF n = p.name THEN <<>> ELSE b.from[n]]]
            ELSE AddProxy(added[i - 1], p, p.proxies[i])
    IN  IF ~b.ok \/ p.type \notin {"inline", "http"} \/ (p.type = "inline" /\ ~p.ok) THEN b
        ELSE IF ~p.ok THEN [b EXCEPT !.ok = FALSE]
        ELSE IF p.filter.broken THEN b
        ELSE added[Len(p.proxies)]

\* d.providers is in the order of the providers' names.
Providers(d) ==
    LET read[i \in 0..Len(d.providers)] ==
            IF i = 0
            THEN [ok |-> Len(d.proxies) <= MaxProxies, proxies |-> TopLevel(d), from |-> [n \in {} |-> <<>>]]
            ELSE AddProvider(read[i - 1], d.providers[i])
    IN  read[Len(d.providers)]

(***************************************************************************)
(* Groups.                                                                 *)
(***************************************************************************)
Pending(d, proxies) ==
    LET valid == Kept(d.groups, {i \in DOMAIN d.groups :
                    checkName(d.groups[i].name) /\ d.groups[i].ok /\ d.groups[i].name \notin Range(proxies)})
    IN  Kept(valid, {i \in DOMAIN valid : \A j \in 1..(i - 1) : valid[j].name # valid[i].name})

Members(d, b, names, g) ==
    LET listed == Kept(g.proxies, {i \in DOMAIN g.proxies : g.proxies[i] \in names \ {g.name}})
        own == IF g.all \/ g.allProxies THEN TopLevel(d) ELSE <<>>
        use == IF g.all \/ g.allProviders THEN [i \in DOMAIN d.providers |-> d.providers[i].name] ELSE g.use
        provided == FlattenSeq([i \in DOMAIN use |-> IF use[i] \in DOMAIN b.from THEN b.from[use[i]] ELSE <<>>])
        all == own \o provided
    IN  Once(listed \o Kept(all, {i \in DOMAIN all : Keeps(g.filter, all[i])}))

Groups(d, b) ==
    LET all == Pending(d, b.proxies)
        names == Builtins \cup Range(b.proxies) \cup {g.name : g \in Range(all)}
    IN  [i \in DOMAIN all |->
            [name |-> all[i].name, type |-> all[i].type, hidden |-> all[i].hidden,
             broken |-> all[i].filter.broken, members |-> Members(d, b, names, all[i])]]

(***************************************************************************)
(* Rule sets, sub-rules and rules.                                         *)
(***************************************************************************)
RuleSets(d) == {s.name : s \in {s \in Range(d.sets) : s.type \in {"inline", "http"} /\ s.ok}}

SubRules(d) ==
    [n \in {n \in DOMAIN d.subs : d.subs[n] # <<>>} |->
        [i \in DOMAIN d.subs[n] |-> ParseRule(d.subs[n][i])]]

Rules(d, names) ==
    LET known(r) ==
            /\ r.type \in RuleTypes
            /\ IF r.type = <<"SUB-RULE">> THEN r.target \in DOMAIN d.subs
               ELSE r.target \in names \cup {Global}
            /\ r.type = <<"RULE-SET">> => r.value[1] \in RuleSets(d)
        read == [i \in DOMAIN d.rules |-> ParseRule(d.rules[i])]
        kept == Kept(read, {i \in DOMAIN read : known(read[i])})
    IN  [i \in DOMAIN kept |->
            [kept[i] EXCEPT !.params = Kept(@, {j \in DOMAIN @ : @[j] \in RuleParams})]]

(***************************************************************************)
(* Build.  A subscription of bare proxies gets one group of them all.      *)
(***************************************************************************)
Wrapped(d) == d.groups = <<>> /\ d.rules = <<>>

BuildWrapped(b) ==
    IF b.proxies = <<>> \/ WrapperGroup \in Range(b.proxies) THEN Refused
    ELSE [Empty EXCEPT
            !.proxies = b.proxies,
            !.groups = <<[name |-> WrapperGroup, type |-> "select", hidden |-> FALSE,
                          broken |-> FALSE, members |-> b.proxies]>>,
            !.rules = <<ParseRule(<<<<"MATCH">>, WrapperGroup>>)>>]

BuildConfig(d, b) ==
    LET groups == Groups(d, b)
        names == Builtins \cup Range(b.proxies) \cup {g.name : g \in Range(groups)}
    IN  IF /\ \A g \in Range(groups) : ~g.broken /\ g.members # <<>>
           /\ \A s \in Range(d.sets) : s.type = "http" => s.ok
           /\ \A n \in DOMAIN SubRules(d) : \A r \in Range(SubRules(d)[n]) : r.type \in RuleTypes
           /\ groups # <<>> \/ b.proxies # <<>>
        THEN [ok |-> TRUE, proxies |-> b.proxies, groups |-> groups, sets |-> RuleSets(d),
              subs |-> SubRules(d), rules |-> Rules(d, names)]
        ELSE Refused

Build(d) ==
    LET b == Providers(d) IN
    CASE ~b.ok -> Refused
      [] b.ok /\ Wrapped(d) -> BuildWrapped(b)
      [] OTHER -> BuildConfig(d, b)
==============================================================================
