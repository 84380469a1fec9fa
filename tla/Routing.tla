------------------------------ MODULE Routing ------------------------------
(***************************************************************************)
(* How both kernel packages turn a node's routing rules into the list a    *)
(* kernel evaluates, first match wins, and what that list then decides.    *)
(*                                                                         *)
(* A criterion is a pair <<kind, value>>, what a rule matches is a set of  *)
(* criteria, and a connection is the set of the criteria it meets.  An     *)
(* entry of the built list takes a connection that meets any of its own.   *)
(*                                                                         *)
(* A connection to a host meets <<"domains", v>> if v is the host's name,  *)
(* <<"domain_suffixes", v>> if the name ends in v, and <<"keywords", v>>   *)
(* if v is any part of it.  Values are plain: none of the prefixes (full:, *)
(* geosite: and so on) that xray reads in a domain.                        *)
(***************************************************************************)
EXTENDS Sequences, SequencesExt

Entry(criteria, out) == [any |-> criteria, out |-> out]

\* The fields of RouteMatch.
RuleKinds ==
  {"domains", "domain_suffixes", "ip_cidrs", "ports", "networks", "source_cidrs",
   "source_ports"}

Criteria    == STRING \X STRING
Entries     == [any : SUBSET Criteria, out : STRING]
Rules       == [disabled : BOOLEAN, match : SUBSET (RuleKinds \X STRING),
                action : [type : STRING, target : STRING]]
PanelRoutes == [match : SUBSET [form : STRING, value : STRING], action : STRING, value : STRING]

Mentions(match, kinds, out) ==
  LET criteria == {m \in match : m[1] \in kinds}
  IN IF criteria = {} THEN <<>> ELSE <<Entry(criteria, out)>>

\* The kinds that share an entry, in the order of the entries.
SingboxGroups ==
  <<{"domains"}, {"domain_suffixes"}, {"ip_cidrs"}, {"ports"}, {"networks"},
    {"source_cidrs"}, {"source_ports"}>>

\* A bug: xray's compiler forgets the sources.
XrayGroupsFewer ==
  <<{"keywords", "geosites", "domain_suffixes"}, {"ip_cidrs"}, {"ports"}, {"networks"}>>

XrayGroups ==
  <<{"keywords", "geosites", "domain_suffixes"}, {"ip_cidrs"}, {"ports"}, {"networks"},
    {"source_cidrs"}, {"source_ports"}>>

\* sing-box is given a rule's domains as whole names (`domain`); xray as plain strings,
\* without full:, which it looks for anywhere in a name.
ReadBy(kernel, match) ==
  {IF kernel = "xray" /\ m[1] = "domains" THEN <<"keywords", m[2]>> ELSE m : m \in match}

Groups(kernel) == IF kernel = "xray" THEN XrayGroups ELSE SingboxGroups

\* The action is compared as it is spelled: any other word blocks.
OutboundForAction(action) ==
  CASE action.type = "direct" -> "direct"
    [] action.type = "route" /\ action.target # "" -> action.target
    [] OTHER -> "block"

CompileCustomRouteRule(kernel, rule) ==
  IF rule.disabled THEN <<>>
  ELSE FlattenSeq([i \in DOMAIN Groups(kernel) |->
                     Mentions(ReadBy(kernel, rule.match), Groups(kernel)[i],
                              OutboundForAction(rule.action))])

----------------------------------------------------------------------------
(* The panel's own rules: items [form, value] and an action word.          *)

\* sing-box knows a CIDR by its slash; the rest, geo names included, is a domain suffix.
SingboxPanelMatch(items) ==
  {<<IF i.form = "cidr" THEN "ip_cidrs" ELSE "domain_suffixes", i.value>> : i \in items}

XrayPanelMatch(items) ==
  {<<CASE i.form \in {"cidr", "geoip"} -> "ip_cidrs"
       [] i.form = "geosite" -> "geosites"
       [] OTHER -> "domain_suffixes", i.value>> : i \in items}

SingboxPanelOutbound(route) ==
  CASE route.action = "direct" -> "direct"
    [] route.action = "dns" -> IF route.value # "" THEN route.value ELSE "dns-out"
    [] route.action = "proxy" /\ route.value # "" -> route.value
    [] OTHER -> "block"

XrayPanelAction(route) ==
  [type   |-> CASE route.action = "direct" -> "direct"
                [] route.action = "proxy" -> "route"
                [] OTHER -> "block",
   target |-> IF route.action = "proxy" THEN route.value ELSE ""]

CompilePanelRouteRule(kernel, route) ==
  IF kernel = "xray"
  THEN CompileCustomRouteRule(kernel,
         [disabled |-> FALSE, match |-> XrayPanelMatch(route.match),
          action |-> XrayPanelAction(route)])
  ELSE LET match == SingboxPanelMatch(route.match)
           out == SingboxPanelOutbound(route)
       IN Mentions(match, {"domain_suffixes"}, out) \o Mentions(match, {"ip_cidrs"}, out)

----------------------------------------------------------------------------
(* The whole list.                                                         *)

PrivateBlock(kernel) ==
  LET v4 == {<<"ip_cidrs", "private4">>}
      v6 == {<<"ip_cidrs", "private6">>}
  IN IF kernel = "xray" THEN <<Entry(v4 \cup v6, "block")>>
     ELSE <<Entry(v4, "block"), Entry(v6, "block")>>

\* sing-box sends a trojan's camouflage site on this host past the private block.
TrojanFallbackDirectRoutes(kernel, spec) ==
  IF kernel = "singbox" /\ spec.protocol = "trojan" /\ spec.fallback = "loopback"
  THEN <<Entry({<<"ip_cidrs", "loopback">>}, "direct")>>
  ELSE <<>>

CompileAll(Compile(_, _), kernel, rules) ==
  FlattenSeq([i \in DOMAIN rules |-> Compile(kernel, rules[i])])

\* Structured rules, the fallback's, the panel's raw rules, the file's raw rules, the
\* private addresses, the panel's rules.
BuildRoutes(kernel, spec, kcfg) ==
  CompileAll(CompileCustomRouteRule, kernel, spec.rules)
    \o TrojanFallbackDirectRoutes(kernel, spec) \o spec.raw \o kcfg.raw
    \o PrivateBlock(kernel) \o CompileAll(CompilePanelRouteRule, kernel, spec.routes)

\* The custom config file's rules go before all others.
MergeCustomRules(rules, kcfg) ==
  IF kcfg.file.readable THEN kcfg.file.rules \o rules ELSE rules

\* The outbound a connection is sent to: the first entry that takes it, else direct.
Decide(rules, connection) ==
  LET i == SelectInSeq(rules, LAMBDA e : e.any \cap connection # {})
  IN IF i = 0 THEN "direct" ELSE rules[i].out
=============================================================================
