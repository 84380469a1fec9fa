------------------------------ MODULE Kernels ------------------------------
(***************************************************************************)
(* The two proxy kernels behind the kernel.Kernel interface, as the        *)
(* service sees them: a record of what the kernel object remembers and     *)
(* what its inbound really serves.  Each operation returns the new record  *)
(* and whether the call returned nil error.  How a call ends is an         *)
(* argument:                                                               *)
(*   "ok"      it succeeds                                                 *)
(*   "refused" it fails before anything changed (bad config, a port that   *)
(*             cannot be bound, xray's start timeout)                      *)
(*   "torn"    it fails after sing-box removed the inbound it was about to *)
(*             recreate (im.Remove, then im.Create returns an error)       *)
(* xray builds a whole new instance for every change, so nothing it does   *)
(* can be torn: there "torn" is one more refusal.                          *)
(***************************************************************************)
EXTENDS UserTable

CONSTANTS
  Configs,    \* node configurations (model.NodeSpec), by hash
  NoConfig,   \* the nil *NodeSpec
  Protocols,  \* proxy protocols; a kernel has one inbound per protocol name
  ProtocolOf, \* NodeSpec.Protocol of each config
  Rigid       \* configs of hysteria version 1: sing-box's inbound type "hysteria", for
              \* whose users its in-place update has no case

ASSUME NoConfigAssumption   == NoConfig \notin Configs
ASSUME ProtocolOfAssumption == ProtocolOf \in [Configs -> Protocols]
ASSUME RigidAssumption      == Rigid \subseteq Configs

KernelTypes == {"singbox", "xray"}
Outcomes    == {"ok", "refused", "torn"}

Inbound == UNION {[S -> Uuids] : S \in SUBSET Ids}
Nobody  == [i \in {} |-> i]

Kernel ==
  [type     : KernelTypes,
   running  : BOOLEAN,
   spec     : Configs \cup {NoConfig},  \* nodeConfig of the last start or reload
   users    : Table,                    \* x.users / s.users
   inbounds : [Protocols -> Inbound],   \* credentials really served, by inbound tag
   tls      : Nat,                      \* generation of the certificate in use
   devices  : BOOLEAN]                  \* ConnTracker holds the panel's device view

\* No inbound listens; only the inbound of protocol p does, with the credentials of t.
NoInbounds == [p \in Protocols |-> Nobody]
OnlyInbound(p, t) == [NoInbounds EXCEPT ![p] = Creds(t)]

\* The inbound of the config the kernel runs.
Serves(k) == k.inbounds[ProtocolOf[k.spec]]

Result(k, ok) == [k |-> k, ok |-> ok]

\* newKernel: a fresh kernel object, not started.
NewKernel(type) ==
  [type |-> type, running |-> FALSE, spec |-> NoConfig, users |-> EmptyTable,
   inbounds |-> NoInbounds, tls |-> 0, devices |-> FALSE]

\* Start builds the new instance first and swaps it in only when it runs: a
\* failed start leaves the old instance serving.  sing-box gets a new ConnTracker.
Start(k, c, t, cert, out) ==
  IF out = "ok"
    THEN Result([k EXCEPT !.running = TRUE, !.spec = c, !.users = t,
                          !.inbounds = OnlyInbound(ProtocolOf[c], t),
                          !.tls = cert, !.devices = FALSE], TRUE)
    ELSE Result(k, FALSE)

\* Stop closes the instance; the object keeps the rest of its fields.
Stop(k) == [k EXCEPT !.running = FALSE, !.inbounds = NoInbounds]

\* The inbound of k is one whose users sing-box cannot replace in place.
Frozen(k) == k.type = "singbox" /\ k.spec \in Rigid

\* The inbound of config c is rebuilt with the users of t, or with its users updated.
SwapInbound(k, c, t, out) ==
  CASE out = "ok"      -> Result([k EXCEPT !.spec = c, !.users = t,
                                           !.inbounds[ProtocolOf[c]] = Creds(t)], TRUE)
    [] out = "refused" -> Result(k, FALSE)
    [] OTHER           -> Result([k EXCEPT !.inbounds[ProtocolOf[c]] = Nobody], FALSE)

\* sing-box, reloadInboundsLocked: the inbound named after the protocol takes the new
\* users or is recreated.  One that exists and is frozen matches no case of the type
\* switch: it keeps its users, err stays nil and the call succeeds.  Nobody stands for an
\* inbound that is missing.
HotSwap(k, t, out) ==
  IF Frozen(k) /\ Serves(k) # Nobody
    THEN IF out = "refused" THEN Result(k, FALSE) ELSE Result([k EXCEPT !.users = t], TRUE)
    ELSE SwapInbound(k, k.spec, t, out)

\* Credential changes: xray restarts its instance, sing-box hot-swaps.
ReplaceUsers(k, t, out) ==
  IF k.type = "xray" THEN Start(k, k.spec, t, k.tls, out) ELSE HotSwap(k, t, out)

\* AddUsers: only ids the kernel does not know reach the inbound.  For a known id
\* xray overwrites its own record, sing-box skips it.
AddUsers(k, d, out) ==
  LET known == DOMAIN d \subseteq DOMAIN k.users
      xrayTarget == MergeUsers(k.users, d)
      boxTarget  == MergeUsers(d, k.users)
  IN CASE ~k.running -> Result(k, FALSE)
       [] k.running /\ known ->
            Result(IF k.type = "xray" THEN [k EXCEPT !.users = xrayTarget] ELSE k, TRUE)
       [] OTHER ->
            ReplaceUsers(k, IF k.type = "xray" THEN xrayTarget ELSE boxTarget, out)

\* RemoveUsers: unknown ids are a no-op; xray stops when nobody is left.
RemoveUsers(k, S, out) ==
  LET kept == SubtractUsers(k.users, S)
  IN CASE ~k.running -> Result(k, FALSE)
       [] k.running /\ S \cap DOMAIN k.users = {} -> Result(k, TRUE)
       [] k.running /\ S \cap DOMAIN k.users # {} /\ k.type = "xray"
                    /\ DOMAIN kept = {} -> Result(Stop(k), TRUE)
       [] OTHER -> ReplaceUsers(k, kept, out)

\* UpdateUsers: without a credential change only the kernel's own list is replaced.
UpdateUsers(k, t, out) ==
  CASE ~k.running -> Result(k, FALSE)
    [] k.running /\ NoUserDiff(k.users, t) -> Result([k EXCEPT !.users = t], TRUE)
    [] OTHER -> ReplaceUsers(k, t, out)

\* The inputs of xray's lastKernelHash and TLS comparison.  Only Start sets them, and
\* only Start (or Stop) changes an xray inbound, so a running instance's hash is that
\* of its spec and inbound.
XrayUnchanged(k, c, t, cert) ==
  k.spec = c /\ Serves(k) = Creds(t) /\ k.tls = cert

\* configChanged = FALSE in sing-box's Reload.
BoxUnchanged(k, c, t, cert) ==
  k.spec = c /\ Creds(k.users) = Creds(t) /\ k.tls = cert

\* Reload: xray restarts when anything it hashes changed; sing-box recreates the inbound
\* then, and else goes the way of a user update.
Reload(k, c, t, cert, out) ==
  CASE k.type = "xray" /\ XrayUnchanged(k, c, t, cert) ->
         Result([k EXCEPT !.users = t], TRUE)
    [] k.type = "xray" /\ ~XrayUnchanged(k, c, t, cert) -> Start(k, c, t, cert, out)
    [] k.type = "singbox" /\ ~k.running -> Result(k, FALSE)
    [] OTHER ->
         LET swap == IF BoxUnchanged(k, c, t, cert) THEN HotSwap(k, t, out)
                                                    ELSE SwapInbound(k, c, t, out)
         IN Result(IF swap.ok THEN [swap.k EXCEPT !.tls = cert] ELSE swap.k, swap.ok)

\* UpdateGlobalDevices / ClearGlobalDevices: no-ops for xray; sing-box forwards them to
\* its ConnTracker, which exists once the kernel has started (spec is set then).
UpdateGlobalDevices(k) ==
  IF k.type = "singbox" /\ k.spec # NoConfig THEN [k EXCEPT !.devices = TRUE] ELSE k
ClearGlobalDevices(k) == [k EXCEPT !.devices = FALSE]
=============================================================================
