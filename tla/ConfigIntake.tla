---------------------------- MODULE ConfigIntake ----------------------------
(***************************************************************************)
(* What a node service does with a configuration: check it, reconfigure    *)
(* the certificate manager, and start or reload the kernel with what the   *)
(* builders make of it and the manager's material.  Renewals come in from  *)
(* the manager's callback and reach the kernel with the next pull.         *)
(*                                                                         *)
(* Users are left out: there always are some.  A specification goes by a   *)
(* name.                                                                   *)
(***************************************************************************)
EXTENDS CertManager

CONSTANTS
  Kcfg,         \* the kernel section of the node's own configuration
  LocalCert,    \* its cert section
  SpecOf(_),    \* the specification of a name
  Specs,        \* names of the specifications the panel may send
  FirstSpecs,   \* bound: names of those it sends only to a new node and leaves there
  Connections   \* the connections whose way is looked at

ASSUME CertAssumption ==
  /\ IsCertConfig(LocalCert)
  /\ \A s \in Specs \cup FirstSpecs :
       SpecOf(s).cert # NoCertConfig => IsCertConfig(SpecOf(s).cert)

ASSUME RulesAssumption ==
  /\ {"direct", "block"} \cap DOMAIN Capitals = {}
  /\ Kcfg.outbounds \in Seq(Outbounds) /\ Kcfg.raw \in Seq(Entries)
  /\ Kcfg.file.outbounds \in Seq(Outbounds) /\ Kcfg.file.rules \in Seq(Entries)
  /\ \A s \in Specs \cup FirstSpecs :
       /\ SpecOf(s).outbounds \in Seq(Outbounds) /\ SpecOf(s).rules \in Seq(Rules)
       /\ SpecOf(s).raw \in Seq(Entries) /\ SpecOf(s).routes \in Seq(PanelRoutes)

\* A name is a part of itself.
ASSUME NamesAssumption ==
  \A c \in Connections : \A m \in c : m[1] = "domains" => <<"keywords", m[2]>> \in c

VARIABLES
  phase,     \* "down", "booting", "applying" a configuration, or "up"
  spec,      \* lastConfig
  kernel,    \* the kernel: the specification, material and lists it runs with
  pull,      \* "idle", or "carrying": a pull that took the renewed flag is under way
  missed     \* the kernel's last start or reload failed, or that pull did

vars == <<certVars, phase, spec, kernel, pull, missed>>

NoSpec == <<"none">>
Idle   == [on |-> FALSE, type |-> Unset, spec |-> NoSpec, mat |-> NoMaterial,
           outbounds |-> <<>>, rules |-> <<>>]

Init ==
  /\ cert = NewManager(LocalCert)
  /\ disk = NoMaterial /\ files = Pair(1)
  /\ storage = [d \in Domains |-> 0] /\ minted = OwnPairs
  /\ main = Quiet /\ callback = Quiet
  /\ phase = "down" /\ spec = NoSpec /\ kernel = Idle /\ pull = "idle" /\ missed = FALSE

----------------------------------------------------------------------------
(* The service's side.                                                     *)

\* Run begins with the node's own cert section; an error ends it.
Boot ==
  /\ phase = "down"
  /\ \E o \in StartOutcomes(cert) : o.ok /\ Started(cert, o)
  /\ phase' = "booting"
  /\ UNCHANGED <<spec, kernel, pull, missed>>

\* The configuration passes the translation's checks and validateConfigForKernel.
Accepted(s) ==
  LET k == ResolveEffectiveKernelType(SpecOf(s), Kcfg)
  IN ValidateNodeSpec(SpecOf(s), Kcfg, k) /\ ValidateNodeRuntime(SpecOf(s), k, cert.mat)

\* applyRemoteOverrides, whose outcome the caller does not look at.
ApplyRemoteOverrides(s) ==
  IF SpecOf(s).cert # NoCertConfig THEN Reconfigure(SpecOf(s).cert)
  ELSE /\ main' = [main EXCEPT !.stage = "done"]
       /\ UNCHANGED <<cert, disk, files, storage, minted, callback>>

Adopt(s) ==
  /\ spec' = s
  /\ phase' = "applying"
  /\ ApplyRemoteOverrides(s)

Offered ==
  CASE spec \in FirstSpecs -> {}
    [] spec = NoSpec /\ disk = NoMaterial /\ minted = OwnPairs -> Specs \cup FirstSpecs
    [] OTHER -> Specs

\* At startup, by a pull or by the WebSocket; the one already known is not looked at.
Arrive(s) ==
  /\ \/ phase = "booting" /\ main.stage = "done"
     \/ phase = "up" /\ s # spec
  /\ Accepted(s)
  /\ Adopt(s)
  /\ UNCHANGED <<kernel, pull, missed>>

\* CertRenewed() swaps the flag when the pull starts.
PullStarts ==
  /\ phase = "up" /\ pull = "idle" /\ cert.renewed
  /\ cert' = [cert EXCEPT !.renewed = FALSE]
  /\ pull' = "carrying"
  /\ UNCHANGED <<disk, files, storage, minted, main, callback, phase, spec, kernel, missed>>

PullFails ==
  /\ pull = "carrying"
  /\ pull' = "idle" /\ missed' = TRUE
  /\ UNCHANGED <<certVars, phase, spec, kernel>>

\* A renewal's pull adopts the configuration it brings even when it is the known one;
\* one that is refused leaves the reload.
PullLands(s) ==
  /\ phase = "up" /\ pull = "carrying"
  /\ IF Accepted(s) THEN Adopt(s)
     ELSE /\ phase' = "applying" /\ main' = [main EXCEPT !.stage = "done"]
          /\ UNCHANGED <<cert, disk, files, storage, minted, callback, spec>>
  /\ pull' = "idle"
  /\ UNCHANGED <<kernel, missed>>

----------------------------------------------------------------------------
(* The kernel's side.                                                      *)

\* A kernel started with everything BuildConfig makes.
\* Of the two, xray's Reload is the one that depends on the last specification.
Fresh(type) ==
  LET config == BuildConfig(type, SpecOf(spec), Kcfg, cert.mat)
  IN [on |-> TRUE, type |-> type, spec |-> IF type = "xray" THEN spec ELSE NoSpec,
      mat |-> cert.mat, outbounds |-> config.outbounds, rules |-> config.rules]

\* sing-box's Reload recreates the inbound and replaces the router's rules, whose
\* failure it only logs; the outbounds are those of the last start.
HotSwapped(type) ==
  [Fresh(type) EXCEPT !.outbounds = kernel.outbounds]

SingboxReloads(type) ==
  {HotSwapped(type), [HotSwapped(type) EXCEPT !.rules = kernel.rules]}

\* A bug: the material is not compared.
XraySameSpec == kernel.spec = spec

\* A bug: only the material is compared.
XraySameMaterial == kernel.mat = cert.mat

XrayUnchanged == kernel.spec = spec /\ kernel.mat = cert.mat

\* Kernels of another type are stopped before the new one starts; a failed reload is
\* followed by a start.
Reloaded(type) ==
  CASE ~kernel.on \/ kernel.type # type -> {Fresh(type)}
    [] kernel.on /\ type = "xray" /\ kernel.type = type ->
         {IF XrayUnchanged THEN kernel ELSE Fresh(type)}
    [] OTHER -> SingboxReloads(type) \cup {Fresh(type)}

StillThere(type) == IF kernel.type = type THEN kernel ELSE Idle

ApplyChanges ==
  /\ phase = "applying" /\ main.stage = "done"
  /\ LET type == ResolveEffectiveKernelType(SpecOf(spec), Kcfg)
     IN \/ /\ kernel' \in Reloaded(type)
           /\ missed' = FALSE
        \/ kernel' = StillThere(type) /\ missed' = TRUE
  /\ phase' = "up" /\ main' = Quiet
  /\ UNCHANGED <<cert, disk, files, storage, minted, callback, spec, pull>>

Crash ==
  /\ phase # "down"
  /\ cert' = NewManager(LocalCert) /\ main' = Quiet /\ callback' = Quiet
  /\ phase' = "down" /\ spec' = NoSpec /\ kernel' = Idle /\ pull' = "idle"
  /\ missed' = FALSE
  /\ UNCHANGED <<disk, files, storage, minted>>

\* The manager's own steps and the operator's.
ManagerSteps ==
  /\ MainWrites \/ RenewalObtained \/ CallbackLoads \/ CallbackWrites \/ CallbackFlags
       \/ OperatorReplaces
  /\ UNCHANGED <<phase, spec, kernel, pull, missed>>

Next ==
  \/ Boot
  \/ \E s \in Offered : Arrive(s)
  \/ \E s \in Offered \cup {spec} : PullLands(s)
  \/ PullStarts
  \/ PullFails
  \/ ApplyChanges
  \/ Crash
  \/ ManagerSteps

Spec == Init /\ [][Next]_vars

----------------------------------------------------------------------------
Stages == {"idle", "load", "cert", "key", "done"}

\* Every variable has its type: halves of existing pairs, known specifications.
TypeOK ==
  /\ cert.mat \in Halves /\ cert.renewed \in BOOLEAN
  /\ disk \in Halves /\ files \in Halves
  /\ storage \in [Domains -> 0 .. MaxPairs] /\ minted \in OwnPairs .. MaxPairs
  /\ main \in [stage : Stages, mat : Halves] /\ callback \in [stage : Stages, mat : Halves]
  /\ phase \in {"down", "booting", "applying", "up"}
  /\ \A s \in {spec, kernel.spec} :
       s \in Specs \/ s \in FirstSpecs \/ s = NoSpec
  /\ kernel.mat \in Halves /\ pull \in {"idle", "carrying"} /\ missed \in BOOLEAN

\* The certificate in memory and the one the kernel serves belong to the key beside
\* them, whatever a crash, a failed write, two goroutines persisting at once, the
\* operator or the panel left in the files and contents the manager reads.
PairsMatch ==
  /\ cert.mat # NoMaterial => Matches(cert.mat)
  /\ kernel.mat # NoMaterial => Matches(kernel.mat)

\* The ACME client that runs is the one for the configuration in force.
ClientIsConfigured ==
  cert.client # NoClient => IsACME(cert.cfg) /\ cert.client = Fingerprint(cert.cfg)

\* A running kernel serves other material than the manager's only while word of a
\* renewal is on its way: the callback has not finished, the flag is up, a pull carries
\* it; or after that pull or the reload failed.
KernelServesMaterial ==
  (phase = "up" /\ kernel.on) =>
    \/ kernel.mat = cert.mat
    \/ callback.stage # "idle" \/ cert.renewed \/ pull = "carrying" \/ missed

\* An xray that is up runs the lists a start with the service's configuration would give
\* it: the hash and the material Reload compares tell it about every change, across failed
\* reloads and switches of the kernel too.
XrayRunsItsConfig ==
  (phase = "up" /\ kernel.on /\ kernel.type = "xray" /\ ~missed) =>
    LET config == BuildConfig("xray", SpecOf(spec), Kcfg, kernel.mat)
    IN kernel.outbounds = config.outbounds /\ kernel.rules = config.rules

\* Both kernels' packages do the same with spec: neither of them lacks a feature it
\* uses, and no word of it depends on its spelling.
Plain(s) ==
  /\ \A i \in DOMAIN s.rules :
       {s.rules[i].action.type, s.rules[i].action.target} \cap DOMAIN Capitals = {}
  /\ \A outbounds \in {s.outbounds, AdditionalOutbounds(Kcfg)} :
       \A i \in DOMAIN outbounds : outbounds[i].tag \notin DOMAIN Capitals
  /\ \A raw \in {s.raw, Kcfg.raw, Kcfg.file.rules} :
       \A i \in DOMAIN raw : raw[i].out \in AvailableTags(s, Kcfg)
  /\ \A i \in DOMAIN s.routes :
       /\ \A item \in s.routes[i].match : item.form \notin {"geoip", "geosite"}
       /\ s.routes[i].action # "dns"
       /\ s.routes[i].action = "proxy" => s.routes[i].value \in AvailableTags(s, Kcfg) \cup {""}
  /\ ~(s.protocol = "trojan" /\ s.fallback = "loopback")
  /\ s.protocol = "hysteria" => s.version = 2
  /\ ~(s.protocol = "vmess" /\ s.tls = 2)
  /\ s.network = "h2" => s.netSettings
  /\ TagsOf(Kcfg.file.outbounds) \cap {"direct", "block"} = {}

\* A configuration that is being applied, and that either kernel would accept.
Shared(s) ==
  /\ phase = "applying" /\ main.stage = "done" /\ Plain(s)
  /\ \A k \in {"singbox", "xray"} :
       ValidateNodeSpec(s, Kcfg, k) /\ ValidateNodeRuntime(s, k, cert.mat)

\* The connection's host is not one whose name has a rule's domain for a part only.
WholeNames(s, c) ==
  \A i \in DOMAIN s.rules : \A m \in s.rules[i].match :
    m[1] = "domains" /\ <<"keywords", m[2]>> \in c => m \in c

\* A plain specification that both kernels accept sends a connection to what was made of
\* the same outbound, and to exactly one: buildConfig exists twice, and an automatic switch
\* of the kernel must not be felt.  It is felt by a connection whose host's name has a
\* rule's domain for a part (ReadBy), and how a kernel takes what it is given (the key of a
\* chain, a raw rule's words) is not compared.
KernelsAgree ==
  LET s == SpecOf(spec)
      box  == BuildConfig("singbox", s, Kcfg, cert.mat)
      xray == BuildConfig("xray", s, Kcfg, cert.mat)
  IN Shared(s) => \A c \in {x \in Connections : WholeNames(s, x)} :
       LET here  == Reached(box.outbounds, box.rules, c)
           there == Reached(xray.outbounds, xray.rules, c)
       IN \E i \in here, j \in there :
            here = {i} /\ there = {j} /\ box.outbounds[i].from = xray.outbounds[j].from

\* Nor may a switch be felt by the clients: once there is a certificate, both packages
\* build an inbound for such a specification, with the same protocol, security and
\* transport (applyTLSAndTransport, buildStreamSettings).
InboundsAgree ==
  LET s == SpecOf(spec)
      box  == BuildInbound("singbox", s, cert.mat)
      xray == BuildInbound("xray", s, cert.mat)
  IN Shared(s) /\ HasCert(cert.mat) => box = xray /\ box # NoInbound

\* kernel.go: "Reload re-generates the full config and hot-swaps listeners/routes".
\* After a reload that succeeded, every connection reaches the outbound it would reach
\* had the kernel been started with the same configuration.
ReloadTakesEffect ==
  (phase = "up" /\ kernel.on /\ ~missed) =>
    LET config == BuildConfig(kernel.type, SpecOf(spec), Kcfg, kernel.mat)
    IN \A c \in Connections :
         Reaches(kernel.outbounds, kernel.rules, c) = Reaches(config.outbounds, config.rules, c)
=============================================================================
