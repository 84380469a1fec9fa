------------------------------ MODULE MCIntake ------------------------------
(***************************************************************************)
(* Values for the constants of ConfigIntake.                               *)
(***************************************************************************)
EXTENDS ConfigIntake, TLC

Spellings == "Direct" :> "direct" @@ "Proxy" :> "proxy"

Outbound(tag, proxy) ==
  [tag |-> tag, protocol |-> "socks", settings |-> "some", proxy |-> proxy]

OwnKernel ==
  [type |-> "auto", outbounds |-> <<Outbound("own", "")>>,
   raw  |-> <<Entry({<<"ports", "22">>}, "own")>>,
   file |-> [readable |-> TRUE, outbounds |-> <<>>,
             rules |-> <<Entry({<<"ports", "53">>}, "own")>>]]

NoOwnCert ==
  [mode |-> "none", auto |-> FALSE, domain |-> "", provider |-> "", paths |-> FALSE,
   content |-> NoMaterial]

Simple ==
  [protocol |-> "vless", tls |-> 1, version |-> 0, network |-> "tcp", netSettings |-> FALSE,
   reality |-> FALSE, fallback |-> "none", cert |-> NoCertConfig, outbounds |-> <<>>,
   rules |-> <<>>, raw |-> <<>>, routes |-> <<>>]

----------------------------------------------------------------------------
Rule(match, type, target) ==
  [disabled |-> FALSE, match |-> match, action |-> [type |-> type, target |-> target]]

Route(form, action, out) ==
  [match |-> {[form |-> form, value |-> "x"], [form |-> "name", value |-> "n"]},
   action |-> action, value |-> out]

\* The kernels differ about the route, so that they are compared by the other names only.
With(c) == [Simple EXCEPT !.cert = c, !.routes = <<Route("geoip", "block", "")>>]

\* By name <<"cert", name>>.
CertSpec(name) ==
  CASE name = "http"    -> With([NoOwnCert EXCEPT !.mode = "http", !.domain = "a"])
    [] name = "dns"     -> [With([NoOwnCert EXCEPT !.mode = "dns", !.domain = "b",
                                                   !.provider = "known"])
                              EXCEPT !.network = "xhttp"]
    [] name = "self"    -> [With([NoOwnCert EXCEPT !.mode = "self", !.domain = "a"])
                              EXCEPT !.network = "xhttp",
                                     !.rules = <<Rule({<<"ports", "22">>}, "block", "")>>]
    [] name = "file"    -> With([NoOwnCert EXCEPT !.mode = "file", !.paths = TRUE])
    [] name = "inline"  -> With([NoOwnCert EXCEPT !.domain = "a", !.content = Pair(1)])
    [] name = "mixed"   -> With([NoOwnCert EXCEPT !.mode = "content",
                                                  !.content = [cert |-> 1, key |-> 2]])
    [] name = "empty"   -> With([NoOwnCert EXCEPT !.mode = "content"])

CertSpecs == {"cert"} \X {"http", "dns", "self", "file", "inline", "mixed", "empty"}

Matches3 ==
  <<{<<"domains", "n">>, <<"ports", "22">>}, {<<"ip_cidrs", "private4">>},
    {<<"domain_suffixes", "n">>, <<"source_cidrs", "s">>, <<"networks", "udp">>}>>

Ways ==
  <<<<"direct", "">>, <<"block", "">>, <<"route", "proxy">>, <<"Direct", "">>>>

Routes ==
  <<Route("cidr", "direct", ""), Route("cidr", "proxy", "proxy"), Route("cidr", "dns", ""),
    Route("geoip", "block", ""), Route("name", "block", "")>>

Chain == <<Outbound("proxy", "own")>>

RuleOf(m, w) == Rule(Matches3[m], Ways[w][1], Ways[w][2])

\* Two rules; a rule, a raw rule and a panel route; an inbound with material.
PanelSpec(name) ==
  CASE name[1] = "cert" -> CertSpec(name[2])
    [] name[1] = "rules" ->
         [Simple EXCEPT !.outbounds = Chain, !.rules = <<RuleOf(name[2], name[3]),
                                                         RuleOf(name[4], name[5])>>]
    [] name[1] = "routes" ->
         [Simple EXCEPT !.outbounds = Chain, !.rules = <<RuleOf(name[2], name[3])>>,
                        !.raw = <<Entry({<<"networks", "udp">>}, "block")>>,
                        !.routes = <<Routes[name[4]]>>]
    [] name[1] = "inbound" ->
         [Simple EXCEPT !.protocol = name[2], !.tls = name[3], !.version = name[4],
                        !.network = name[5], !.reality = TRUE,
                        !.fallback = IF name[4] = 1 THEN "loopback" ELSE "none",
                        !.netSettings = name[4] = 2,
                        !.cert = [NoOwnCert EXCEPT !.mode = "content", !.content = Pair(1)]]
    [] name[1] = "server" ->
         [Simple EXCEPT !.outbounds = <<[Outbound("proxy", "") EXCEPT !.settings = name[2]]>>,
                        !.rules = <<RuleOf(1, 3)>>]

FirstNames ==
  ({"rules"} \X (1 .. 3) \X (1 .. 4) \X (1 .. 3) \X (1 .. 4))
  \cup ({"routes"} \X (1 .. 3) \X (1 .. 4) \X (1 .. 5))
  \cup ({"inbound"} \X (Protocols("singbox") \cup Protocols("xray")) \X (0 .. 2) \X (1 .. 2)
                   \X {"", "ws", "h2", "xhttp"})

\* For reload_outbounds: the panel changes the server an outbound connects to.
MovedServer == {"server"} \X {"some", "other"}
NoFirst == {}

\* Hosts with a rule's domain for their name, for its end and for a part of it.
Host(kinds) == {<<kind, "n">> : kind \in kinds}

Values ==
  {Host({"domains", "domain_suffixes", "keywords"}), Host({"domain_suffixes", "keywords"}),
   Host({"keywords"})}
    \cup {{v} : v \in {<<"ip_cidrs", "private4">>, <<"ip_cidrs", "x">>, <<"ports", "22">>,
                       <<"ports", "53">>, <<"networks", "udp">>, <<"source_cidrs", "s">>}}

Probes == {v \cup w : v, w \in Values}
=============================================================================
