------------------------------ MODULE ProxyRules ------------------------------
(***************************************************************************)
(* Profiles, rules and routing of the automatic proxy                      *)
(* (features/proxy/service.ts, compiler.ts, parser.ts,                     *)
(* app/background/handlers/proxy.ts, normalizeState of                     *)
(* platform/storage/state.ts).                                             *)
(*                                                                         *)
(* The settings are edited, one update at a time, and compiled into a PAC  *)
(* script, which is what the browser evaluates; the interface shows what   *)
(* a second implementation, the preview, says of an address. A rule source *)
(* is a text that the parser turns into rules. How sources are downloaded, *)
(* stored and applied is in ProxySources.                                  *)
(*                                                                         *)
(* Rules are a set of records: place is the position in the stored array.  *)
(* A host is the sequence of its labels, the top level first. What the     *)
(* user writes as a domain may have empty labels beside others: a leading, *)
(* a doubled or a trailing dot. A condition on more than the labels (a     *)
(* keyword, a prefix, an expression) is the set of addresses that it hits. *)
(* A fixed profile and a PAC of the user are the value that the browser is *)
(* given for it. Left out are values of dots alone and hosts with empty    *)
(* labels.                                                                 *)
(* The mode of failure, the size limits, the names and the built-in system *)
(* and interception profiles are left out.                                 *)
(* Bounds: MaxPrOperations, MaxPrFaults, rules of ids RuleIds, one source. *)
(***************************************************************************)
EXTENDS Integers, SequencesExt

CONSTANTS
    RuleIds,            \* numbers, in the order of their comparison as ids
    Custom,             \* the profiles that the user may make
    ProfileValues,      \* what a profile may be: records of a kind and a server
    ManualConditions,   \* the conditions that the user writes
    SourceTexts,        \* the texts of the rule source: a format, "@with result", lines
    Addresses,          \* records of a host and a page
    NoValue, NoSource, Direct,
    MaxPrOperations, MaxPrFaults

\* There are two rules at the start; a rule goes by a fixed profile or by none.
ASSUME ProxyRulesConstants ==
    /\ {2, 3} \subseteq RuleIds /\ RuleIds \subseteq Nat
    /\ Custom # {} /\ Custom \subseteq STRING /\ {"direct", "none", "auto"} \cap Custom = {}
    /\ {NoValue, Direct} \cap ProfileValues = {}
    /\ \E value \in ProfileValues : value.kind = "fixed_servers"
    /\ MaxPrOperations \in Nat /\ MaxPrFaults \in Nat

\* Hosts and domains have labels.
Domains == Seq(STRING) \ {<<>>}

HostTypes == {"host_exact", "host_suffix", "host_wildcard"}
TextTypes == {"url_wildcard", "url_regex", "keyword"}

\* domain: the labels of the value that are not empty. dotted: it has empty ones, too. valid:
\* its expression compiles. A wildcard with an empty label inside is one on the text.
HostConditions ==
    [type : HostTypes, domain : Domains, dotted : BOOLEAN, hits : {{}}, valid : {TRUE}]
TextConditions ==
    [type : TextTypes, domain : {<<>>}, dotted : {FALSE}, hits : SUBSET Addresses, valid : BOOLEAN]

\* "dots": the domain ends with two dots, of which the parser takes one off (normalizeHost).
DomainLines ==
    [form : {"domain", "subdomain", "dots"}, exception : BOOLEAN, result : STRING, domain : Domains,
     hits : {{}}]
OtherLines ==
    [form : {"comment", "element", "star", "broken", "text"}, exception : BOOLEAN, result : STRING,
     domain : {<<>>}, hits : SUBSET Addresses]

ASSUME ProxyRulesInputs ==
    /\ \A url \in Addresses : url.host \in Domains
    /\ ManualConditions \subseteq HostConditions \cup TextConditions
    /\ SourceTexts \subseteq [format : {"autoproxy", "switchyomega", "hosts"}, results : BOOLEAN,
                             lines : Seq(DomainLines \cup OtherLines)]

VARIABLES
    prStored,       \* profiles, rules, default, active (activeProxyId), source
    prBrowser,      \* the browser's proxy setting
    prRouted,       \* history: the site that was routed last, while no rule has changed since
    prHistory,      \* history: "half" and "moved", see StoreFails and Updates
    prOperations, prFaults

prVars == <<prStored, prBrowser, prRouted, prHistory, prOperations, prFaults>>

PrDefined(settings) == {p \in Custom : settings.profiles[p] # NoValue}

\* isRoutable: direct, and fixed servers.
Routable(settings) ==
    {"direct"} \cup {p \in PrDefined(settings) : settings.profiles[p].kind = "fixed_servers"}

\* What the browser is given for a profile, and what a compiled script answers for it.
ValueOf(settings, p) == IF p = "direct" THEN Direct ELSE settings.profiles[p]

-----------------------------------------------------------------------------
(* Conditions and their matching: conditionMatches *)

HostCondition(type, domain) ==
    [type |-> type, domain |-> domain, dotted |-> FALSE, hits |-> {}, valid |-> TRUE]
DottedCondition(type, domain) == [HostCondition(type, domain) EXCEPT !.dotted = TRUE]
TextCondition(type, hits) ==
    [type |-> type, domain |-> <<>>, dotted |-> FALSE, hits |-> hits, valid |-> TRUE]

\* The preview compares an exact host and a suffix with the value as it is written: with an
\* empty label it is that of no host. Of a wildcard the trailing dot is taken off.
ConditionMatches(condition, url) ==
    \/ condition.type = "host_exact" /\ ~condition.dotted /\ url.host = condition.domain
    \/ condition.type = "host_suffix" /\ ~condition.dotted /\ IsPrefix(condition.domain, url.host)
    \/ condition.type = "host_wildcard" /\ IsStrictPrefix(condition.domain, url.host)
    \/ condition.valid /\ url \in condition.hits

\* sortedProxyRules: the order in which rules come.
Before(left, right) ==
    \/ left.order < right.order
    \/ left.order = right.order /\ left.id < right.id

\* What comes first of a set of rules or, in a script, of conditions with results.
First(items) == CHOOSE x \in items : \A y \in items : y = x \/ Before(x, y)

EnabledRules(settings) == {r \in settings.rules : r.enabled}

\* The source takes part in routing while it is enabled and has rules.
SourceRules(settings) ==
    IF settings.source # NoSource /\ settings.source.enabled THEN settings.source.rules ELSE <<>>

\* A result that the text names goes by a profile's name.
HasResults(rules) == \E i \in DOMAIN rules : rules[i].result # "none"
RuleProfile(source, rule) ==
    IF rule.exception THEN source.bypass
    ELSE IF rule.result # "none" THEN rule.result ELSE source.match

-----------------------------------------------------------------------------
(* The preview: previewProxyRules *)

\* Of the rules that match, an exception goes before the others, unless the text gives
\* results: then its order counts.
PreviewedSourceRule(rules, matching) ==
    LET exceptions == {i \in matching : rules[i].exception}
    IN  rules[Min(IF HasResults(rules) \/ exceptions = {} THEN matching ELSE exceptions)]

Preview(settings, url) ==
    LET manual == {r \in EnabledRules(settings) : ConditionMatches(r.condition, url)}
        rules == SourceRules(settings)
        fromSource == {i \in DOMAIN rules : ConditionMatches(rules[i].condition, url)}
    IN  IF manual # {} THEN First(manual).profile
        ELSE IF fromSource # {}
             THEN RuleProfile(settings.source, PreviewedSourceRule(rules, fromSource))
        ELSE settings.default

-----------------------------------------------------------------------------
(* The compiler: compileProxyRules, and what the browser makes of its script *)

\* addTrieCondition: one flag at the node of the domain; the nodes on the way have none. Of
\* every value the labels count that are not empty, those of a dotted one as well.
TrieOf(conditions) ==
    LET paths == UNION {{SubSeq(c.domain, 1, n) : n \in 1 .. Len(c.domain)} : c \in conditions}
    IN  [path \in paths |-> {c.type : c \in {d \in conditions : d.domain = path}}]

\* MUTANT of MatchesHost: a wildcard in front matches the domain itself, too.
MatchesHostOrDomain(host, trie) ==
    \E n \in 1 .. Len(host) :
        /\ \A m \in 1 .. n : SubSeq(host, 1, m) \in DOMAIN trie
        /\ LET flags == trie[SubSeq(host, 1, n)]
           IN  \/ {"host_suffix", "host_wildcard"} \cap flags # {}
               \/ "host_exact" \in flags /\ n = Len(host)

\* __matchHost walks as long as there is a node for the next label.
MatchesHost(host, trie) ==
    \E n \in 1 .. Len(host) :
        /\ \A m \in 1 .. n : SubSeq(host, 1, m) \in DOMAIN trie
        /\ LET flags == trie[SubSeq(host, 1, n)]
           IN  \/ "host_suffix" \in flags
               \/ "host_wildcard" \in flags /\ n < Len(host)
               \/ "host_exact" \in flags /\ n = Len(host)

Between(x, y, z) == (Before(x, y) /\ Before(y, z)) \/ (Before(z, y) /\ Before(y, x))

\* compileResolvedConditions: neighbours of one result become one block, its hosts one trie.
BlockOf(items, x) ==
    {y \in items : y.result = x.result /\ \A z \in items : Between(x, z, y) => z.result = x.result}

BlockMatches(block, url) ==
    \/ MatchesHost(url.host, TrieOf({x.condition : x \in {y \in block : y.condition.type \in HostTypes}}))
    \/ \E x \in block : url \in x.condition.hits

ManualItems(settings) ==
    {[id |-> r.id, order |-> r.order, condition |-> r.condition, result |-> ValueOf(settings, r.profile)] :
        r \in EnabledRules(settings)}

\* sourceBlock: the exceptions come first, unless the text gives results.
SourceItems(settings) ==
    LET rules == SourceRules(settings)
    IN  {[id |-> i, order |-> IF HasResults(rules) \/ rules[i].exception THEN 0 ELSE 1,
          condition |-> rules[i].condition,
          result |-> ValueOf(settings, RuleProfile(settings.source, rules[i]))] : i \in DOMAIN rules}

\* An expression that is none, or a result that names no profile, fails the compilation.
Compiles(settings) ==
    /\ \A r \in EnabledRules(settings) : r.condition.valid
    /\ \A i \in DOMAIN SourceRules(settings) :
         RuleProfile(settings.source, SourceRules(settings)[i]) \in Routable(settings)

\* The conditions whose block matches.
Answering(items, url) == {x \in items : BlockMatches(BlockOf(items, x), url)}

\* FindProxyForURL, of the compiled script
Pac(settings, url) ==
    LET manual == Answering(ManualItems(settings), url)
        fromSource == Answering(SourceItems(settings), url)
    IN  IF manual # {} THEN First(manual).result
        ELSE IF fromSource # {} THEN First(fromSource).result
        ELSE ValueOf(settings, settings.default)

-----------------------------------------------------------------------------
(* The parser: parseProxyRuleSource *)

\* What a line says in each format: a condition, or that it is skipped, ignored or invalid.
AutoProxyLine(line) ==
    CASE line.form = "comment" -> [is |-> "skipped"]
      [] line.form = "element" -> [is |-> "ignored"]
      [] line.form = "domain" -> [is |-> "rule", condition |-> HostCondition("host_suffix", line.domain)]
      [] line.form = "dots" -> [is |-> "rule", condition |-> DottedCondition("host_suffix", line.domain)]
      [] line.form = "broken" -> [is |-> "invalid"]
      [] OTHER -> [is |-> "rule", condition |-> TextCondition("url_wildcard", line.hits)]

SwitchyLine(line, results) ==
    CASE line.form \in {"comment", "element"} -> [is |-> "skipped"]
      [] line.form = "star" -> [is |-> IF results THEN "ignored" ELSE "invalid"]
      [] line.form = "domain" -> [is |-> "rule", condition |-> HostCondition("host_suffix", line.domain)]
      [] line.form = "dots" -> [is |-> "rule", condition |-> DottedCondition("host_suffix", line.domain)]
      [] line.form = "subdomain" -> [is |-> "rule", condition |-> HostCondition("host_wildcard", line.domain)]
      [] line.form = "broken" -> [is |-> "invalid"]
      [] OTHER -> [is |-> "rule", condition |-> TextCondition("keyword", line.hits)]

\* An exclamation mark begins a comment; a leading "*." is taken off. Here the pattern of a
\* host is tried before a dot is taken off.
HostsLine(line) ==
    CASE line.form \in {"comment", "element"} \/ line.exception -> [is |-> "skipped"]
      [] line.form \in {"domain", "subdomain"} ->
            [is |-> "rule", condition |-> HostCondition("host_suffix", line.domain)]
      [] OTHER -> [is |-> "invalid"]

Reading(text, line) ==
    CASE text.format = "autoproxy" -> AutoProxyLine(line)
      [] text.format = "switchyomega" -> SwitchyLine(line, text.results)
      [] text.format = "hosts" -> HostsLine(line)

\* addRule: a rule that is there already counts as ignored.
AddLine(text, parsed, line) ==
    LET reading == Reading(text, line)
        rule == [condition |-> reading.condition,
                 exception |-> line.exception,
                 result |-> IF text.results THEN line.result ELSE "none"]
    IN  CASE reading.is = "skipped" -> parsed
          [] reading.is = "ignored" -> [parsed EXCEPT !.total = @ + 1, !.ignored = @ + 1]
          [] reading.is = "invalid" -> [parsed EXCEPT !.total = @ + 1, !.invalid = @ + 1]
          [] reading.is = "rule" /\ rule \in Range(parsed.rules) ->
                [parsed EXCEPT !.total = @ + 1, !.ignored = @ + 1]
          [] OTHER -> [parsed EXCEPT !.total = @ + 1, !.rules = Append(@, rule)]

NothingParsed == [rules |-> <<>>, total |-> 0, ignored |-> 0, invalid |-> 0]

\* Every text is read twice. parseAutoProxy takes the exceptions first and then the others,
\* the other formats all lines at once.
Parsed(text) ==
    LET count == Len(text.lines)
        parsed[n \in 0 .. count + count] ==
            IF n = 0 THEN NothingParsed
            ELSE LET line == text.lines[IF n <= count THEN n ELSE n - count]
                     first == text.format = "autoproxy" => line.exception
                 IN  IF first = (n <= count) THEN AddLine(text, parsed[n - 1], line) ELSE parsed[n - 1]
    IN  parsed[count + count]

-----------------------------------------------------------------------------
(* The settings *)

\* Rules in their array: the position of each is the number of those before it.
Placed(rules) ==
    {[r EXCEPT !.place = Cardinality({s \in rules : s.place < r.place})] : r \in rules}

\* normalizeState, on every write: what refers to a profile that is not routable goes.
Normalized(settings) ==
    LET usable == Routable(settings)
    IN  [settings EXCEPT
            !.rules = Placed({r \in @ : r.profile \in usable}),
            !.default = IF @ \in usable THEN @ ELSE "direct",
            !.source = IF @ # NoSource /\ {@.match, @.bypass} \subseteq usable THEN @ ELSE NoSource,
            !.active = IF @ \in {"none", "auto", "direct"} \cup PrDefined(settings) THEN @ ELSE "none"]

\* The rules that both have, but for those of ids, come in the same order.
SameOrder(before, after, ids) ==
    \A r, s \in before, u, v \in after :
        r.id = u.id /\ s.id = v.id /\ {r.id, s.id} \cap ids = {} => (Before(r, s) <=> Before(u, v))

NoRoute == [host |-> <<>>, profile |-> "none"]

\* An update of the settings that one operation makes. moving: the rules whose place it may
\* change; routed: the site that is known to be routed afterwards.
Updates(settings, moving, routed) ==
    /\ prOperations < MaxPrOperations /\ prOperations' = prOperations + 1
    /\ prStored' = Normalized(settings)
    /\ prHistory' = prHistory \cup
         (IF SameOrder(prStored.rules, prStored'.rules, moving) THEN {} ELSE {"moved"})
    /\ prRouted' = routed
    /\ UNCHANGED prFaults

\* getProxyStatus: the active profile, when the browser has its value.
ActiveProfile ==
    IF prBrowser.mode = "profile" /\ prStored.active \in {"direct"} \cup PrDefined(prStored)
            /\ prBrowser.value = ValueOf(prStored, prStored.active)
    THEN prStored.active ELSE "none"

Shows(settings, p) == prBrowser' = [mode |-> "profile", profile |-> p, value |-> ValueOf(settings, p)]
ShowsAuto == prBrowser' = [mode |-> "auto", profile |-> "none", value |-> NoValue]
ShowsNothing == prBrowser' = [mode |-> "none", profile |-> "none", value |-> NoValue]

\* The browser has been set, and the settings are not stored.
StoreFails ==
    /\ prFaults < MaxPrFaults /\ prFaults' = prFaults + 1
    /\ prHistory' = prHistory \cup {"half"}
    /\ UNCHANGED <<prStored, prRouted, prOperations>>

\* applyState: the rules are compiled and given to the browser, then stored as applied.
UpdatesAndApplies(settings, moving, routed) ==
    /\ Compiles(settings) /\ ShowsAuto
    /\ Updates([settings EXCEPT !.active = "auto"], moving, routed) \/ StoreFails

-----------------------------------------------------------------------------
(* Profiles *)

\* MUTANT of SaveProxyProfile: the browser keeps the old value of the profile in use.
SaveProxyProfileLater(p, value) ==
    Updates([prStored EXCEPT !.profiles[p] = value], {}, NoRoute) /\ UNCHANGED prBrowser

SaveProxyProfile(p, value) ==
    LET settings == [prStored EXCEPT !.profiles[p] = value]
    IN  IF ActiveProfile = p
        THEN Shows(settings, p) /\ (Updates(settings, {}, NoRoute) \/ StoreFails)
        ELSE Updates(settings, {}, NoRoute) /\ UNCHANGED prBrowser

RemoveProxyProfile(p) ==
    /\ p \in PrDefined(prStored) /\ ActiveProfile # p
    /\ \A r \in prStored.rules : r.profile # p
    /\ prStored.source # NoSource => p \notin {prStored.source.match, prStored.source.bypass}
    /\ prStored.default # p
    /\ Updates([prStored EXCEPT !.profiles[p] = NoValue,
                                !.active = IF @ = p THEN "none" ELSE @], {}, prRouted)
    /\ UNCHANGED prBrowser

SwitchProxy(p) ==
    /\ p \in {"direct"} \cup PrDefined(prStored)
    /\ Shows(prStored, p)
    /\ Updates([prStored EXCEPT !.active = p], {}, prRouted) \/ StoreFails

ReleaseProxy ==
    /\ ShowsNothing
    /\ Updates([prStored EXCEPT !.active = "none"], {}, prRouted) \/ StoreFails

-----------------------------------------------------------------------------
(* Rules *)

WithoutRule(rules, id) == {r \in rules : r.id # id}
Numbered(rules) == {[r EXCEPT !.order = r.place] : r \in Placed(rules)}
RuleOf(id) == {r \in prStored.rules : r.id = id}
IdsOf(rules) == {r.id : r \in rules}

\* proxy.rule.save: the rule goes to the end of the array; an edited one keeps its order, a
\* new one gets the number of rules.
SaveRule(id, condition, profile, enabled) ==
    /\ profile \in Routable(prStored)
    /\ LET count == Cardinality(prStored.rules)
           order == IF RuleOf(id) = {} THEN count ELSE (CHOOSE r \in RuleOf(id) : TRUE).order
           rule == [id |-> id, place |-> count, order |-> order, enabled |-> enabled,
                    condition |-> condition, profile |-> profile]
       IN  Updates([prStored EXCEPT !.rules = WithoutRule(@, id) \cup {rule}], {id}, NoRoute)
    /\ UNCHANGED prBrowser

DeleteRule(id) ==
    /\ RuleOf(id) # {}
    /\ Updates([prStored EXCEPT !.rules = WithoutRule(@, id)], {}, NoRoute)
    /\ UNCHANGED prBrowser

\* proxy.rules.reorder: the position that each rule is to have
ReorderRules(positions) ==
    /\ Updates([prStored EXCEPT !.rules = Numbered({[r EXCEPT !.place = positions[r.id]] : r \in @})],
               RuleIds, NoRoute)
    /\ UNCHANGED prBrowser

\* proxy.rules.settings
SetDefault(p) ==
    /\ p \in Routable(prStored)
    /\ Updates([prStored EXCEPT !.default = p], {}, prRouted) /\ UNCHANGED prBrowser

ApplyProxyRules == UpdatesAndApplies(prStored, {}, prRouted)

\* The rules of a site: an exact host, as it is written.
RoutesSite(rule, host) ==
    rule.condition.type = "host_exact" /\ ~rule.condition.dotted /\ rule.condition.domain = host

\* Array.sort by order alone leaves rules of one order as they are stored.
Earlier(left, right) ==
    \/ left.order < right.order
    \/ left.order = right.order /\ left.place < right.place
ByOrder(rules) ==
    {[r EXCEPT !.place = Cardinality({s \in rules : Earlier(s, r)})] : r \in rules}

\* routeCurrentSite edits the first rule of the site. It numbers the other rules as they are
\* stored, which need not be the order in which they come: then it may move them.
RouteCurrentSite(host, p) ==
    LET rules == prStored.rules
        existing == {r \in rules : RoutesSite(r, host)}
        ids == IF existing = {} THEN RuleIds \ IdsOf(rules)
               ELSE {r.id : r \in {x \in existing : \A y \in existing : x.place <= y.place}}
        sorted == \A r, s \in rules : Before(r, s) <=> r.place < s.place
    IN  /\ p \in Routable(prStored)
        /\ \E id \in ids :
             LET rule == [id |-> id, place |-> -1, order |-> 0, enabled |-> TRUE,
                          condition |-> HostCondition("host_exact", host), profile |-> p]
             IN  UpdatesAndApplies(
                     [prStored EXCEPT !.rules = Numbered(WithoutRule(@, id) \cup {rule})],
                     IF sorted THEN {id} ELSE RuleIds, [host |-> host, profile |-> p])

\* clearCurrentSiteRoute sorts them before, though rules of one order not as they come.
ClearCurrentSiteRoute(host) ==
    LET rules == prStored.rules
        sorted == \A r, s \in rules : Before(r, s) <=> Earlier(r, s)
    IN  UpdatesAndApplies(
            [prStored EXCEPT !.rules = Numbered(ByOrder({r \in @ : ~RoutesSite(r, host)}))],
            IF sorted THEN {} ELSE RuleIds, NoRoute)

-----------------------------------------------------------------------------
(* The rule source *)

\* saveProxyRuleSource: another URL or format takes its rules away.
SaveRuleSource(match, bypass, enabled, same) ==
    /\ {match, bypass} \subseteq Routable(prStored)
    /\ same => prStored.source # NoSource
    /\ Updates([prStored EXCEPT
                   !.source = [match |-> match, bypass |-> bypass, enabled |-> enabled,
                               rules |-> IF same THEN @.rules ELSE <<>>]], {}, prRouted)
    /\ UNCHANGED prBrowser

\* refreshSourceOperation, as one step; applies: it was asked to apply, too.
UpdateRuleSource(text, applies) ==
    /\ prStored.source # NoSource /\ Parsed(text).rules # <<>>
    /\ LET settings == [prStored EXCEPT !.source.rules = Parsed(text).rules]
       IN  IF applies /\ prStored.active = "auto"
           THEN UpdatesAndApplies(settings, {}, prRouted)
           ELSE Updates(settings, {}, prRouted) /\ UNCHANGED prBrowser

RemoveRuleSource ==
    /\ prStored.source # NoSource
    /\ LET settings == [prStored EXCEPT !.source = NoSource]
       IN  IF prStored.active = "auto" THEN UpdatesAndApplies(settings, {}, prRouted)
           ELSE Updates(settings, {}, prRouted) /\ UNCHANGED prBrowser

-----------------------------------------------------------------------------
\* At the start there are two rules of one condition, and a source, or there were three rules.
PrInit ==
    /\ \E condition \in ManualConditions, deleted \in 0 .. 1,
          source \in {NoSource} \cup
            {[match |-> "direct", bypass |-> "direct", enabled |-> TRUE, rules |-> Parsed(text).rules] :
                text \in SourceTexts} :
         LET Rule(id, p) == [id |-> id, place |-> id - 2, order |-> id - 2 + deleted, enabled |-> TRUE,
                             condition |-> condition, profile |-> p]
         IN  /\ deleted = 1 => source = NoSource
             /\ prStored =
                  [profiles |-> [c \in Custom |-> CHOOSE v \in ProfileValues : v.kind = "fixed_servers"],
                   rules |-> {Rule(2, CHOOSE p \in Custom : TRUE), Rule(3, "direct")},
                   default |-> "direct", active |-> "none", source |-> source]
    /\ prBrowser = [mode |-> "none", profile |-> "none", value |-> NoValue]
    /\ prRouted = NoRoute /\ prHistory = {} /\ prOperations = 0 /\ prFaults = 0

PrSteps ==
    \/ \E p \in Custom, value \in ProfileValues : SaveProxyProfile(p, value)
    \/ \E p \in Custom : RemoveProxyProfile(p)
    \/ \E p \in {"direct"} \cup Custom : SwitchProxy(p) \/ SetDefault(p)
    \/ ReleaseProxy \/ ApplyProxyRules \/ RemoveRuleSource
    \/ \E id \in RuleIds : DeleteRule(id)
    \/ \E id \in RuleIds, condition \in ManualConditions, p \in {"direct"} \cup Custom,
         enabled \in BOOLEAN : SaveRule(id, condition, p, enabled)
    \/ \E positions \in Bijection(IdsOf(prStored.rules), 0 .. Cardinality(prStored.rules) - 1) :
         ReorderRules(positions)
    \/ \E url \in Addresses : ClearCurrentSiteRoute(url.host)
    \/ \E url \in Addresses, p \in {"direct"} \cup Custom : RouteCurrentSite(url.host, p)
    \/ \E match \in {"direct"} \cup Custom, bypass \in {"direct"} \cup Custom,
         enabled \in BOOLEAN, same \in BOOLEAN : SaveRuleSource(match, bypass, enabled, same)
    \/ \E text \in SourceTexts, applies \in BOOLEAN : UpdateRuleSource(text, applies)

PrSpec == PrInit /\ [][PrSteps]_prVars

-----------------------------------------------------------------------------
Names == {"direct"} \cup Custom
Rules ==
    [id : RuleIds, place : Int, order : Int, enabled : BOOLEAN,
     condition : HostConditions \cup TextConditions, profile : Names]
ParsedRules ==
    [condition : HostConditions \cup TextConditions, exception : BOOLEAN, result : STRING \cup {"none"}]
Sources == [match : Names, bypass : Names, enabled : BOOLEAN, rules : Seq(ParsedRules)]
PrSettings ==
    [profiles : [Custom -> ProfileValues \cup {NoValue}], rules : SUBSET Rules, default : Names,
     active : Names \cup {"none", "auto"}, source : Sources \cup {NoSource}]

\* The types, and that what is stored refers to profiles that are routable, by rules of
\* distinct ids, each at its own position of the array.
PrTypeOK ==
    /\ prStored \in PrSettings
    /\ \A r \in prStored.rules :
         /\ r.profile \in Routable(prStored) /\ r.place \in 0 .. Cardinality(prStored.rules) - 1
         /\ \A s \in prStored.rules : s.id = r.id \/ s.place = r.place => s = r
    /\ prStored.default \in Routable(prStored)
    /\ prStored.source # NoSource => {prStored.source.match, prStored.source.bypass} \subseteq Routable(prStored)
    /\ prStored.active \in Custom => prStored.active \in PrDefined(prStored)
    /\ prBrowser \in [mode : {"none", "profile", "auto"}, profile : Names \cup {"none"},
                      value : ProfileValues \cup {NoValue, Direct}]
    /\ prRouted \in [host : Seq(STRING), profile : Names \cup {"none"}]
    /\ prHistory \subseteq {"half", "moved"}
    /\ prOperations \in 0 .. MaxPrOperations /\ prFaults \in 0 .. MaxPrFaults

\* The preview names the profile that the compiled script gives an address: two
\* implementations of the precedence of rules, of the exceptions and results of a source
\* and of the matching of hosts. Excepted are settings with a rule, of the user or of the
\* source, whose value has an empty label (a leading, a doubled or a trailing dot): the
\* compiler drops it and the preview compares with it.
PreviewTellsPac ==
    (/\ Compiles(prStored) /\ \A r \in EnabledRules(prStored) : ~r.condition.dotted
     /\ \A i \in DOMAIN SourceRules(prStored) : ~SourceRules(prStored)[i].condition.dotted)
        => \A url \in Addresses : Pac(prStored, url) = ValueOf(prStored, Preview(prStored, url))

\* A site that was routed goes by its profile, whatever the other rules say, until the
\* rules are edited or the profile becomes another.
RouteTakesEffect ==
    prRouted # NoRoute /\ Compiles(prStored) =>
        \A url \in Addresses : url.host = prRouted.host =>
            Pac(prStored, url) = ValueOf(prStored, prRouted.profile)

\* No operation changes the order in which rules come that it is not about. Excepted is the
\* routing of a site while the rules are not stored in the order in which they come.
OthersKeepOrder == "moved" \notin prHistory

\* The profile that the browser was switched to is the active one, and the browser has its
\* latest value, unless settings could not be stored.
ProfileInUse ==
    prBrowser.mode = "profile" /\ "half" \notin prHistory =>
        /\ prStored.active = prBrowser.profile
        /\ prBrowser.value = ValueOf(prStored, prBrowser.profile)

\* The counts that the interface shows of a source are those of its lines, and no rule of
\* a source is there twice.
DiagnosticsAddUp ==
    \A text \in SourceTexts :
        /\ Parsed(text).total = Len(Parsed(text).rules) + Parsed(text).ignored + Parsed(text).invalid
        /\ IsInjective(Parsed(text).rules)

\* The settings, the browser and the interface agree on where an address goes, and the
\* parser on what it has read: the invariants above.
RoutingSound ==
    /\ PrTypeOK /\ PreviewTellsPac /\ RouteTakesEffect /\ OthersKeepOrder /\ ProfileInUse
    /\ DiagnosticsAddUp
=============================================================================
