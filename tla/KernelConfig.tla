---------------------------- MODULE KernelConfig ----------------------------
(***************************************************************************)
(* A node's specification on its way to a kernel: which kernel it is for,  *)
(* what is checked before it is accepted, and the configuration each       *)
(* kernel package builds from it: outbounds, the inbound's security and    *)
(* transport, and the routing rules.                                       *)
(***************************************************************************)
EXTENDS Routing, FiniteSets

CONSTANT Capitals   \* spellings that are not in lower case, with their lower-case word

Lower(word) == IF word \in DOMAIN Capitals THEN Capitals[word] ELSE word

\* A certificate and a key, each a half of a pair; 0 is an absent half.
NoMaterial     == [cert |-> 0, key |-> 0]
HasCert(m)     == m.cert # 0 /\ m.key # 0
Matches(m)     == HasCert(m) /\ m.cert = m.key

NoCertConfig   == [mode |-> "inherit"]

\* Settings and the next outbound of a chain go by a word; "" stands for none.
Outbounds == [tag : STRING, protocol : STRING, settings : STRING, proxy : STRING]

----------------------------------------------------------------------------
(* Choosing a kernel and checking a specification.                         *)

NeedsXray(network) == network \in {"xhttp", "splithttp"}

ResolveEffectiveKernelType(spec, kcfg) ==
  IF kcfg.type # "auto" THEN kcfg.type
  ELSE IF NeedsXray(spec.network) THEN "xray" ELSE "singbox"

TagsOf(outbounds) == {Lower(outbounds[i].tag) : i \in DOMAIN outbounds}

\* The outbounds of kernel.custom_outbound and of the custom config file.
AdditionalOutbounds(kcfg) == kcfg.outbounds \o kcfg.file.outbounds

\* No two additional outbounds share a tag, nor does a structured one share one of theirs.
TagsCollide(spec, kcfg) ==
  LET additional == AdditionalOutbounds(kcfg)
  IN \/ Cardinality(TagsOf(additional)) < Len(additional)
     \/ TagsOf(spec.outbounds) \cap TagsOf(additional) # {}

AvailableTags(spec, kcfg) ==
  {"direct", "block"} \cup TagsOf(spec.outbounds) \cup TagsOf(AdditionalOutbounds(kcfg))

OutboundProtocols(kernel) ==
  {"vmess", "vless", "trojan", "shadowsocks", "socks", "http", "wireguard"}
    \cup (IF kernel = "xray" THEN {}
          ELSE {"tuic", "hysteria2", "anytls", "naive", "mieru"})

ValidOutbounds(spec, kcfg, kernel) ==
  /\ Cardinality(TagsOf(spec.outbounds)) = Len(spec.outbounds)
  /\ \A i \in DOMAIN spec.outbounds :
       LET o == spec.outbounds[i]
       IN /\ o.tag # "" /\ o.protocol \in OutboundProtocols(kernel) /\ o.settings # ""
          /\ o.proxy # "" => /\ Lower(o.proxy) # Lower(o.tag)
                             /\ Lower(o.proxy) \in AvailableTags(spec, kcfg)

\* Words are compared in lower case, a target must name an outbound that exists.
ValidRouteRule(rule, available) ==
  \/ rule.disabled
  \/ /\ rule.match # {}
     /\ \/ /\ Lower(rule.action.type) \in {"direct", "block"}
           /\ rule.action.target = ""
        \/ /\ Lower(rule.action.type) = "route"
           /\ Lower(rule.action.target) \in available

ValidateNodeSpec(spec, kcfg, kernel) ==
  /\ kcfg.file.readable
  /\ ~TagsCollide(spec, kcfg)
  /\ ValidOutbounds(spec, kcfg, kernel)
  /\ \A i \in DOMAIN spec.rules : ValidRouteRule(spec.rules[i], AvailableTags(spec, kcfg))
  /\ kernel = "singbox" => ~NeedsXray(spec.network)

\* What each kernel's Protocols() lists.
Protocols(kernel) ==
  {"vmess", "vless", "trojan", "shadowsocks", "hysteria"}
    \cup (IF kernel = "xray" THEN {}
          ELSE {"hysteria2", "tuic", "naive", "socks", "http", "anytls", "mieru"})

\* A certificate, or a configuration that says where one will come from.
HasUsableTLSConfig(spec, material) ==
  \/ HasCert(material)
  \/ /\ spec.cert # NoCertConfig
     /\ CASE spec.cert.mode = "self" -> TRUE
          [] spec.cert.mode = "content" -> HasCert(spec.cert.content)
          [] spec.cert.mode = "file" -> spec.cert.paths
          [] spec.cert.mode = "http" -> spec.cert.domain # ""
          [] spec.cert.mode = "dns" -> spec.cert.domain # "" /\ spec.cert.provider # ""
          [] OTHER -> FALSE

ValidateTLSRequirements(spec, material) ==
  /\ (\/ spec.protocol \in {"hysteria", "hysteria2", "tuic", "anytls"}
      \/ spec.protocol = "trojan" /\ spec.tls # 2)
     => HasUsableTLSConfig(spec, material)
  /\ spec.tls = 2 => spec.reality

KnownProviders == {"known"}

\* With the manager's material of the moment the configuration arrives.
ValidateNodeRuntime(spec, kernel, material) ==
  /\ spec.protocol \in Protocols(kernel)
  /\ ValidateTLSRequirements(spec, material)
  /\ (spec.cert # NoCertConfig /\ spec.cert.mode = "dns") => spec.cert.provider \in KnownProviders

----------------------------------------------------------------------------
(* The configuration each kernel is given.                                 *)

\* Reality by tls = 2, TLS by tls = 1 or by the protocol; sing-box leaves TLS out when
\* there is no certificate.
SingboxSecurity(spec, material) ==
  LET tls == IF HasCert(material) THEN "tls" ELSE "none"
  IN CASE spec.protocol \in {"shadowsocks", "socks", "mieru"} -> "none"
       [] spec.protocol \in {"hysteria", "tuic", "anytls"} -> tls
       [] spec.protocol \in {"vless", "trojan"} /\ spec.tls = 2 -> "reality"
       [] spec.protocol = "trojan" /\ spec.tls # 2 -> tls
       [] OTHER -> IF spec.tls = 1 THEN tls ELSE "none"

\* A bug: a trojan has TLS only when the panel says so.
XraySecurityByNumber(spec, material) ==
  CASE spec.protocol = "hysteria" -> IF HasCert(material) THEN "tls" ELSE "none"
    [] spec.protocol \in {"shadowsocks", "socks"} -> "none"
    [] OTHER -> CASE spec.tls = 1 -> "tls" [] spec.tls = 2 -> "reality" [] OTHER -> "none"

XraySecurity(spec, material) ==
  CASE spec.protocol = "hysteria" -> IF HasCert(material) THEN "tls" ELSE "none"
    [] spec.protocol \in {"shadowsocks", "socks"} -> "none"
    [] spec.protocol = "http" -> IF spec.tls = 1 THEN "tls" ELSE "none"
    [] spec.protocol = "trojan" -> IF spec.tls = 2 THEN "reality" ELSE "tls"
    [] OTHER -> CASE spec.tls = 1 -> "tls" [] spec.tls = 2 -> "reality" [] OTHER -> "none"

\* sing-box calls HTTP/2 http, and renames h2 only when the panel sent network settings.
SingboxTransport(spec) ==
  CASE spec.network \in {"", "tcp"} -> "tcp"
    [] spec.network = "http" \/ (spec.network = "h2" /\ spec.netSettings) -> "http/2"
    [] OTHER -> spec.network

XrayTransport(spec) ==
  CASE spec.network = "" -> "tcp"
    [] spec.network \in {"h2", "http"} -> "http/2"
    [] spec.network = "splithttp" -> "xhttp"
    [] OTHER -> spec.network

Carried(spec) == spec.protocol \in {"vmess", "vless", "trojan"}

NoInbound == [protocol |-> ""]

SingboxInbound(spec, material) ==
  IF spec.protocol \notin Protocols("singbox") \ {"hysteria2"} THEN NoInbound
  ELSE [protocol  |-> spec.protocol,
        security  |-> SingboxSecurity(spec, material),
        transport |-> IF Carried(spec) THEN SingboxTransport(spec) ELSE "own"]

\* Hysteria is only built in its second version.
XrayInbound(spec, material) ==
  IF \/ spec.protocol \notin Protocols("xray") \cup {"socks", "http"}
     \/ (spec.protocol = "hysteria" /\ spec.version # 2)
  THEN NoInbound
  ELSE [protocol  |-> spec.protocol,
        security  |-> XraySecurity(spec, material),
        transport |-> IF Carried(spec) \/ (spec.protocol = "http" /\ spec.tls = 1)
                      THEN XrayTransport(spec) ELSE "own"]

BuildInbound(kernel, spec, material) ==
  IF kernel = "xray" THEN XrayInbound(spec, material) ELSE SingboxInbound(spec, material)

\* An outbound of the built list: what it was made of, how its settings are laid out, and
\* the key under which the next outbound of a chain is named.
Built(o, form, chain) == [tag |-> o.tag, from |-> o, form |-> form, chain |-> chain]

\* Local outbounds are in the kernel's own language already.
AsWritten(o) == Built(o, "as written", "as written")

\* Flat, with a wireguard's key and endpoints under other names; or within `settings`.
OutboundConfigToSingbox(o) ==
  Built(o, IF o.protocol = "wireguard" THEN "renamed" ELSE "flat",
        IF o.proxy = "" THEN "none" ELSE "proxy_tag")

OutboundConfigToXray(o) ==
  Built(o, "nested", IF o.proxy = "" THEN "none" ELSE "proxySettings")

OutboundConfigTo(kernel, o) ==
  IF kernel = "xray" THEN OutboundConfigToXray(o) ELSE OutboundConfigToSingbox(o)

\* Xray's words for them are freedom and blackhole.
Default(kernel, tag) ==
  OutboundConfigTo(kernel, [tag |-> tag, protocol |-> tag, settings |-> "", proxy |-> ""])

Each(Of(_), list) == [i \in DOMAIN list |-> Of(list[i])]

MergeCustomOutbounds(outbounds, kcfg) ==
  IF kcfg.file.readable THEN outbounds \o Each(AsWritten, kcfg.file.outbounds) ELSE outbounds

\* The defaults are added unless the panel or kernel.custom_outbound defines them; the
\* custom config file's outbounds are only appended afterwards.
BuildOutbounds(kernel, spec, kcfg) ==
  LET given == Each(LAMBDA o : OutboundConfigTo(kernel, o), spec.outbounds)
                 \o Each(AsWritten, kcfg.outbounds)
      direct == IF "direct" \in TagsOf(given) THEN <<>> ELSE <<Default(kernel, "direct")>>
      block  == IF "block" \in TagsOf(given) THEN <<>> ELSE <<Default(kernel, "block")>>
  IN MergeCustomOutbounds(direct \o given \o block, kcfg)

BuildConfig(kernel, spec, kcfg, material) ==
  [inbound   |-> BuildInbound(kernel, spec, material),
   outbounds |-> BuildOutbounds(kernel, spec, kcfg),
   rules     |-> MergeCustomRules(BuildRoutes(kernel, spec, kcfg), kcfg)]

\* The outbounds that go by the name a connection is sent to, and their places.
Reached(outbounds, rules, connection) ==
  {i \in DOMAIN outbounds : outbounds[i].tag = Decide(rules, connection)}

Reaches(outbounds, rules, connection) ==
  {outbounds[i] : i \in Reached(outbounds, rules, connection)}
=============================================================================
