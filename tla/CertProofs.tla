----------------------------- MODULE CertProofs -----------------------------
(***************************************************************************)
(* Theorems about the certificate of a node: what its manager and kernel   *)
(* hold is a pair, the ACME client that runs is the configured one, and a  *)
(* renewal reaches the kernel, for any specifications and any number of    *)
(* pairs.                                                                  *)
(***************************************************************************)
EXTENDS ConfigIntake, TLAPS

\* A certificate that belongs to its key, or none.
PairOrNone(mat) == mat \in Halves /\ (mat # NoMaterial => Matches(mat))

\* The client of a manager is the one its configuration asks for.
ClientFits(m) == m.client # NoClient => IsACME(m.cfg) /\ m.client = Fingerprint(m.cfg)

ManagerOK(m) ==
  /\ m = [cfg |-> m.cfg, mat |-> m.mat, client |-> m.client, renewed |-> m.renewed]
  /\ IsCertConfig(m.cfg) /\ PairOrNone(m.mat) /\ m.renewed \in BOOLEAN
  /\ ClientFits(m)

\* The files and the pairs there are.
WorldOK ==
  /\ disk \in Halves /\ files \in Halves
  /\ storage \in [Domains -> 0 .. MaxPairs] /\ minted \in OwnPairs .. MaxPairs

LEMMA PairIsPair ==
  ASSUME NEW p \in 0 .. MaxPairs, p # 0
  PROVE  PairOrNone(Pair(p))
BY DEF PairOrNone, Pair, Halves, Matches, HasCert

LEMMA NoneIsFine == PairOrNone(NoMaterial)
BY PairAssumption DEF PairOrNone, NoMaterial, Halves

----------------------------------------------------------------------------
(* Start.                                                                  *)

OutcomeOK(m, o) ==
  /\ PairOrNone(o.mat)
  /\ o.issued \in 0 .. MaxPairs
  /\ minted + o.mint \in OwnPairs .. MaxPairs
  /\ o.issued # 0 => IsACME(m.cfg)

LEMMA KeepOK ==
  ASSUME WorldOK, NEW m, NEW mat, PairOrNone(mat)
  PROVE  OutcomeOK(m, Keep(mat)) /\ OutcomeOK(m, Store(mat)) /\ OutcomeOK(m, Failed(mat))
BY PairAssumption DEF OutcomeOK, Keep, Store, Failed, WorldOK

LEMMA MatchesIsPair ==
  ASSUME NEW mat \in Halves, Matches(mat)
  PROVE  PairOrNone(mat)
BY DEF PairOrNone

LEMMA ACMEOutcomeOK ==
  ASSUME WorldOK, NEW m, ManagerOK(m), IsACME(m.cfg), NEW o \in StartACME(m)
  PROVE  OutcomeOK(m, o)
<1> DEFINE d == m.cfg.domain
<1>1. OutcomeOK(m, Keep(m.mat)) /\ OutcomeOK(m, Failed(m.mat))
  BY KeepOK DEF ManagerOK
<1>2. CASE m.client # NoClient \/ d = Unset
  <2>1. o \in {Keep(m.mat), Failed(m.mat)}
    BY <1>2 DEF StartACME
  <2> QED BY <1>1, <2>1
<1>3. CASE m.client = NoClient /\ d # Unset /\ o # Failed(m.mat)
  <2>1. d \in Domains
    BY <1>3 DEF ManagerOK, IsCertConfig
  <2>2. o \in [ok : BOOLEAN, mat : {Pair(Issued(d))}, store : {TRUE},
               issued : {Issued(d)} \ {0}, mint : {IF storage[d] # 0 THEN 0 ELSE 1}]
    BY <1>3 DEF StartACME
  <2>3. /\ o.mat = Pair(Issued(d)) /\ o.issued = Issued(d) /\ Issued(d) # 0
        /\ o.mint = IF storage[d] # 0 THEN 0 ELSE 1
    BY <2>2
  <2>4. storage[d] \in 0 .. MaxPairs /\ minted \in OwnPairs .. MaxPairs
    BY <2>1 DEF WorldOK
  <2>5. Issued(d) \in 0 .. MaxPairs /\ minted + o.mint \in OwnPairs .. MaxPairs
    <3>1. CASE storage[d] # 0
      BY <3>1, <2>3, <2>4, PairAssumption DEF Issued
    <3>2. CASE storage[d] = 0 /\ minted < MaxPairs
      BY <3>2, <2>3, <2>4, PairAssumption DEF Issued
    <3>3. CASE storage[d] = 0 /\ ~(minted < MaxPairs)
      BY <3>3, <2>3 DEF Issued
    <3> QED BY <3>1, <3>2, <3>3
  <2>6. PairOrNone(o.mat)
    BY <2>3, <2>5, PairIsPair
  <2> QED BY <2>3, <2>5, <2>6 DEF OutcomeOK
<1>4. CASE o = Failed(m.mat)
  BY <1>4, <1>1
<1> QED BY <1>2, <1>3, <1>4

\* Whatever a Start comes to, it leaves a pair, or what there was.
LEMMA StartOutcomeOK ==
  ASSUME WorldOK, NEW m, ManagerOK(m), NEW o \in StartOutcomes(m)
  PROVE  OutcomeOK(m, o)
<1> DEFINE mode == ResolveMode(m.cfg)
<1>1. OutcomeOK(m, Keep(m.mat)) /\ OutcomeOK(m, Failed(m.mat))
  BY KeepOK DEF ManagerOK
<1>2. ValidateKeyPair(disk) => OutcomeOK(m, Keep(disk))
  BY KeepOK, MatchesIsPair DEF ValidateKeyPair, WorldOK
<1>3. ValidateKeyPair(files) => OutcomeOK(m, Store(files))
  BY KeepOK, MatchesIsPair DEF ValidateKeyPair, WorldOK
<1>4. ValidateKeyPair(m.cfg.content) => OutcomeOK(m, Store(m.cfg.content))
  BY KeepOK, MatchesIsPair DEF ValidateKeyPair, ManagerOK, IsCertConfig
<1>5. CASE mode = "none"
  BY <1>5, <1>1 DEF StartOutcomes
<1>6. CASE mode = "file"
  BY <1>6, <1>1, <1>3 DEF StartOutcomes, StartFile
<1>7. CASE mode = "self"
  <2>1. CASE LoadPersistedPEM
    BY <2>1, <1>7, <1>2 DEF StartOutcomes, StartSelfSigned, LoadPersistedPEM
  <2>2. CASE ~LoadPersistedPEM
    <3>1. PICK p \in {minted + 1} \cap 0 .. MaxPairs : o = [Store(Pair(p)) EXCEPT !.mint = 1]
      BY <2>2, <1>7 DEF StartOutcomes, StartSelfSigned, Generate
    <3>2. PairOrNone(Pair(p)) /\ minted + 1 \in OwnPairs .. MaxPairs
      BY <3>1, PairIsPair, PairAssumption DEF WorldOK
    <3> QED BY <3>1, <3>2, PairAssumption DEF OutcomeOK, Store
  <2> QED BY <2>1, <2>2
<1>8. CASE mode = "content"
  BY <1>8, <1>1, <1>2, <1>4 DEF StartOutcomes, StartContent, LoadPersistedPEM
<1>9. CASE mode \in {"http", "dns"}
  <2>1. IsACME(m.cfg)
    BY <1>9 DEF IsACME
  <2>2. o \in StartACME(m) \/ o = Failed(m.mat)
    BY <1>9 DEF StartOutcomes
  <2> QED BY <1>1, <2>1, <2>2, ACMEOutcomeOK
<1>10. CASE mode \notin {"none", "file", "self", "content", "http", "dns"}
  BY <1>10, <1>1 DEF StartOutcomes
<1> QED BY <1>5, <1>6, <1>7, <1>8, <1>9, <1>10

----------------------------------------------------------------------------
(* The main loop's use of the manager.                                     *)

Writer == [stage : Stages, mat : Halves]

LEMMA StartedOK ==
  ASSUME WorldOK, main \in Writer, NEW m, ManagerOK(m), NEW o, OutcomeOK(m, o), Started(m, o)
  PROVE  WorldOK' /\ ManagerOK(cert') /\ main' \in Writer
<1>1. cert' = [m EXCEPT !.mat = o.mat,
                        !.client = IF o.ok /\ o.issued # 0 THEN Fingerprint(m.cfg) ELSE @]
  BY DEF Started
<1>2. PairOrNone(o.mat) /\ o.issued \in 0 .. MaxPairs
  BY DEF OutcomeOK
<1>3. ManagerOK(cert')
  <2>1. cert' = [cfg |-> m.cfg, mat |-> o.mat, renewed |-> m.renewed,
                 client |-> IF o.ok /\ o.issued # 0 THEN Fingerprint(m.cfg) ELSE m.client]
    BY <1>1 DEF ManagerOK
  <2>2. ClientFits(cert')
    BY <2>1 DEF ClientFits, ManagerOK, OutcomeOK
  <2> QED BY <1>2, <2>1, <2>2 DEF ManagerOK
<1>4. main' \in Writer
  BY <1>2 DEF Started, Persist, Writer, Stages, PairOrNone
<1>5. storage' \in [Domains -> 0 .. MaxPairs]
  BY <1>2 DEF Started, WorldOK
<1> QED BY <1>3, <1>4, <1>5 DEF Started, WorldOK, OutcomeOK

LEMMA ReconfiguredOK ==
  ASSUME NEW m, ManagerOK(m), NEW cfg, IsCertConfig(cfg)
  PROVE  ManagerOK(Reconfigured(m, cfg))
<1>1. CASE TornDown(m, cfg)
  <2>1. Reconfigured(m, cfg)
          = [cfg |-> cfg, mat |-> NoMaterial, client |-> NoClient, renewed |-> m.renewed]
    BY <1>1 DEF Reconfigured, ManagerOK
  <2> QED BY <2>1, NoneIsFine DEF ManagerOK, ClientFits
<1>2. CASE ~TornDown(m, cfg)
  <2>1. Reconfigured(m, cfg)
          = [cfg |-> cfg, mat |-> m.mat, client |-> m.client, renewed |-> m.renewed]
    BY <1>2 DEF Reconfigured, ManagerOK
  <2>2. ClientFits(Reconfigured(m, cfg))
    BY <1>2, <2>1 DEF ClientFits, TornDown
  <2> QED BY <2>1, <2>2 DEF ManagerOK
<1> QED BY <1>1, <1>2

Names == Specs \cup FirstSpecs

\* Adopting a configuration keeps manager and files sound and moves the node on.
LEMMA AdoptOK ==
  ASSUME WorldOK, ManagerOK(cert), main \in Writer, callback \in Writer, NEW s \in Names, Adopt(s)
  PROVE  WorldOK' /\ ManagerOK(cert') /\ main' \in Writer /\ callback' = callback
         /\ phase' = "applying" /\ spec' = s
<1>1. phase' = "applying" /\ spec' = s /\ ApplyRemoteOverrides(s)
  BY DEF Adopt
<1>2. CASE SpecOf(s).cert # NoCertConfig
  <2>1. ManagerOK(Reconfigured(cert, SpecOf(s).cert))
    BY <1>2, ReconfiguredOK, CertAssumption DEF Names
  <2>2. PICK o \in StartOutcomes(Reconfigured(cert, SpecOf(s).cert)) :
          Started(Reconfigured(cert, SpecOf(s).cert), o)
    BY <1>1, <1>2 DEF ApplyRemoteOverrides, Reconfigure
  <2>3. OutcomeOK(Reconfigured(cert, SpecOf(s).cert), o)
    BY <2>1, <2>2, StartOutcomeOK
  <2> QED BY <1>1, <2>1, <2>2, <2>3, StartedOK DEF Started
<1>3. CASE SpecOf(s).cert = NoCertConfig
  <2>1. UNCHANGED <<cert, disk, files, storage, minted, callback>>
        /\ main' = [main EXCEPT !.stage = "done"]
    BY <1>1, <1>3 DEF ApplyRemoteOverrides
  <2> QED BY <1>1, <2>1 DEF WorldOK, Writer, Stages
<1> QED BY <1>2, <1>3

----------------------------------------------------------------------------
(* The manager's own steps.                                                *)

LEMMA WriteOK ==
  ASSUME WorldOK, NEW actor \in Writer, WriteStep(actor)
  PROVE  disk' \in Halves /\ actor.stage \in {"cert", "key"}
BY DEF WriteStep, WriteHalf, WorldOK, Writer, Halves

ManagerInv == WorldOK /\ ManagerOK(cert) /\ main \in Writer /\ callback \in Writer

LEMMA ManagerStepsOK ==
  ASSUME ManagerInv, ManagerSteps
  PROVE  ManagerInv'
<1> USE DEF ManagerInv
<1>1. CASE MainWrites
  <2>1. disk' \in Halves
    BY <1>1, WriteOK DEF MainWrites
  <2> QED BY <1>1, <2>1 DEF MainWrites, WorldOK, Writer, Stages, NextStage
<1>2. CASE RenewalObtained
  <2>1. minted + 1 \in OwnPairs .. MaxPairs /\ minted + 1 \in 0 .. MaxPairs
    BY <1>2, PairAssumption DEF RenewalObtained, WorldOK
  <2> QED BY <1>2, <2>1 DEF RenewalObtained, WorldOK, Writer, Stages
<1>3. CASE CallbackLoads
  <2> DEFINE d == cert.cfg.domain
  <2>1. CASE d # Unset /\ storage[d] # 0
    <3>1. storage[d] \in 0 .. MaxPairs
      BY <2>1 DEF ManagerOK, IsCertConfig, WorldOK
    <3>2. PairOrNone(Pair(storage[d]))
      BY <2>1, <3>1, PairIsPair
    <3>3. /\ cert' = [cert EXCEPT !.mat = Pair(storage[d])]
          /\ callback' = Persist(Pair(storage[d]))
          /\ UNCHANGED <<disk, files, storage, minted, main>>
      BY <1>3, <2>1 DEF CallbackLoads
    <3>4. ManagerOK(cert')
      <4>1. cert' = [cfg |-> cert.cfg, mat |-> Pair(storage[d]), client |-> cert.client,
                     renewed |-> cert.renewed]
        BY <3>3 DEF ManagerOK
      <4> QED BY <3>2, <4>1 DEF ManagerOK, ClientFits
    <3> QED BY <3>2, <3>3, <3>4 DEF WorldOK, Persist, Writer, Stages, PairOrNone
  <2>2. CASE ~(d # Unset /\ storage[d] # 0)
    <3>1. callback' = Quiet /\ UNCHANGED <<cert, disk, files, storage, minted, main>>
      BY <1>3, <2>2 DEF CallbackLoads
    <3> QED BY <3>1, NoneIsFine DEF Quiet, WorldOK, Writer, Stages, PairOrNone
  <2> QED BY <2>1, <2>2
<1>4. CASE CallbackWrites
  <2>1. disk' \in Halves
    BY <1>4, WriteOK DEF CallbackWrites
  <2> QED BY <1>4, <2>1 DEF CallbackWrites, WorldOK, Writer, Stages, NextStage
<1>5. CASE CallbackFlags
  <2>1. cert' = [cert EXCEPT !.renewed = TRUE] /\ callback' = Quiet
        /\ UNCHANGED <<disk, files, storage, minted, main>>
    BY <1>5 DEF CallbackFlags
  <2>2. cert' = [cfg |-> cert.cfg, mat |-> cert.mat, client |-> cert.client, renewed |-> TRUE]
    BY <2>1 DEF ManagerOK
  <2>3. ManagerOK(cert')
    BY <2>2 DEF ManagerOK, ClientFits
  <2> QED BY <2>1, <2>3, NoneIsFine DEF Quiet, WorldOK, Writer, Stages, PairOrNone
<1>6. CASE OperatorReplaces
  <2>1. files' \in Halves
    BY <1>6, PairAssumption DEF OperatorReplaces, WorldOK, Halves
  <2> QED BY <1>6, <2>1 DEF OperatorReplaces, WorldOK
<1> QED BY <1>1, <1>2, <1>3, <1>4, <1>5, <1>6 DEF ManagerSteps

----------------------------------------------------------------------------
(* The kernel, and the inductive invariant.                                *)

LEMMA ReloadedOK ==
  ASSUME NEW type, NEW k \in Reloaded(type)
  PROVE  k.mat = cert.mat /\ k.spec \in {spec, NoSpec, kernel.spec}
<1> DEFINE fresh == Fresh(type)
<1>1. /\ fresh.mat = cert.mat /\ fresh.spec \in {spec, NoSpec}
      /\ DOMAIN fresh = {"on", "type", "spec", "mat", "outbounds", "rules"}
  BY DEF Fresh
<1>2. CASE k = Fresh(type)
  BY <1>1, <1>2
<1>3. CASE k \in SingboxReloads(type)
  <2>1. /\ HotSwapped(type).mat = cert.mat /\ HotSwapped(type).spec \in {spec, NoSpec}
    BY DEF HotSwapped, Fresh
  <2>2. [HotSwapped(type) EXCEPT !.rules = kernel.rules].mat = HotSwapped(type).mat
        /\ [HotSwapped(type) EXCEPT !.rules = kernel.rules].spec = HotSwapped(type).spec
    BY DEF HotSwapped, Fresh
  <2> QED BY <1>3, <2>1, <2>2 DEF SingboxReloads
<1>4. CASE k = kernel /\ XrayUnchanged
  BY <1>4 DEF XrayUnchanged
<1>5. k = Fresh(type) \/ k \in SingboxReloads(type) \/ (k = kernel /\ XrayUnchanged)
  BY DEF Reloaded
<1> QED BY <1>2, <1>3, <1>4, <1>5

KernelInv ==
  /\ PairOrNone(kernel.mat)
  /\ {spec, kernel.spec} \subseteq Names \cup {NoSpec}
  /\ phase \in {"down", "booting", "applying", "up"}
  /\ phase \in {"applying", "up"} => spec \in Names
  /\ pull \in {"idle", "carrying"} /\ missed \in BOOLEAN

\* An event that has only been announced has not changed the manager's material yet.
WordOnItsWay ==
  (phase = "up" /\ kernel.on) =>
    \/ kernel.mat = cert.mat
    \/ callback.stage \in {"cert", "key", "done"} \/ cert.renewed \/ pull = "carrying" \/ missed

IInv == ManagerInv /\ KernelInv /\ WordOnItsWay

LEMMA IntakeInit == Init => IInv
<1> SUFFICES ASSUME Init PROVE IInv
  OBVIOUS
<1>1. ManagerOK(cert)
  <2>1. cert = [cfg |-> LocalCert, mat |-> NoMaterial, client |-> NoClient, renewed |-> FALSE]
    BY DEF Init, NewManager
  <2> QED BY <2>1, NoneIsFine, CertAssumption DEF ManagerOK, ClientFits
<1>2. WorldOK
  BY NoneIsFine, PairAssumption DEF Init, WorldOK, PairOrNone, Pair, Halves
<1>3. main \in Writer /\ callback \in Writer
  BY NoneIsFine DEF Init, Quiet, Writer, Stages, PairOrNone
<1>4. KernelInv
  BY NoneIsFine DEF Init, Idle, KernelInv
<1>5. WordOnItsWay
  BY DEF Init, WordOnItsWay
<1> QED BY <1>1, <1>2, <1>3, <1>4, <1>5 DEF IInv, ManagerInv

LEMMA IntakeStep == IInv /\ [Next]_vars => IInv'
<1> SUFFICES ASSUME IInv, [Next]_vars PROVE IInv'
  OBVIOUS
<1> USE DEF IInv
<1>1. CASE Boot
  <2>1. PICK o \in StartOutcomes(cert) : Started(cert, o)
    BY <1>1 DEF Boot
  <2>2. OutcomeOK(cert, o)
    BY <2>1, StartOutcomeOK DEF ManagerInv
  <2>3. ManagerInv'
    BY <2>1, <2>2, StartedOK DEF ManagerInv, Started
  <2> QED BY <1>1, <2>3 DEF Boot, KernelInv, WordOnItsWay
<1>2. ASSUME NEW s \in Offered, Arrive(s) PROVE IInv'
  <2>1. s \in Names
    BY DEF Offered, Names
  <2>2. ManagerInv' /\ phase' = "applying" /\ spec' = s
    BY <1>2, <2>1, AdoptOK DEF ManagerInv, Arrive
  <2> QED BY <1>2, <2>1, <2>2 DEF Arrive, KernelInv, WordOnItsWay
<1>3. ASSUME NEW s \in Offered \cup {spec}, PullLands(s) PROVE IInv'
  <2>1. s \in Names
    BY <1>3 DEF Offered, Names, PullLands, KernelInv
  <2>2. CASE Accepted(s)
    <3>1. ManagerInv' /\ phase' = "applying" /\ spec' = s
      BY <1>3, <2>1, <2>2, AdoptOK DEF ManagerInv, PullLands
    <3> QED BY <1>3, <2>1, <3>1 DEF PullLands, KernelInv, WordOnItsWay
  <2>3. CASE ~Accepted(s)
    <3>1. /\ phase' = "applying" /\ main' = [main EXCEPT !.stage = "done"]
          /\ UNCHANGED <<cert, disk, files, storage, minted, callback, spec, kernel, missed>>
          /\ pull' = "idle" /\ phase = "up"
      BY <1>3, <2>3 DEF PullLands
    <3>2. ManagerInv'
      BY <3>1 DEF ManagerInv, WorldOK, Writer, Stages
    <3> QED BY <3>1, <3>2 DEF KernelInv, WordOnItsWay
  <2> QED BY <2>2, <2>3
<1>4. CASE PullStarts
  <2>1. cert' = [cert EXCEPT !.renewed = FALSE]
        /\ UNCHANGED <<disk, files, storage, minted, main, callback, phase, spec, kernel, missed>>
        /\ pull' = "carrying"
    BY <1>4 DEF PullStarts
  <2>2. cert' = [cfg |-> cert.cfg, mat |-> cert.mat, client |-> cert.client, renewed |-> FALSE]
    BY <2>1 DEF ManagerInv, ManagerOK
  <2>3. ManagerInv'
    BY <2>1, <2>2 DEF ManagerInv, ManagerOK, ClientFits, WorldOK
  <2> QED BY <2>1, <2>3 DEF KernelInv, WordOnItsWay
<1>5. CASE PullFails
  BY <1>5 DEF PullFails, certVars, ManagerInv, WorldOK, KernelInv, WordOnItsWay
<1>6. CASE ApplyChanges
  <2> DEFINE type == ResolveEffectiveKernelType(SpecOf(spec), Kcfg)
  <2>1. /\ phase = "applying" /\ phase' = "up" /\ main' = Quiet
        /\ UNCHANGED <<cert, disk, files, storage, minted, callback, spec, pull>>
        /\ \/ kernel' \in Reloaded(type) /\ missed' = FALSE
           \/ kernel' = StillThere(type) /\ missed' = TRUE
    BY <1>6 DEF ApplyChanges
  <2>2. ManagerInv'
    BY <2>1, NoneIsFine DEF ManagerInv, WorldOK, Quiet, Writer, Stages, PairOrNone
  <2>3. CASE kernel' \in Reloaded(type) /\ missed' = FALSE
    <3>1. kernel'.mat = cert.mat /\ kernel'.spec \in {spec, NoSpec, kernel.spec}
      BY <2>3, ReloadedOK
    <3> QED BY <2>1, <2>2, <2>3, <3>1 DEF KernelInv, WordOnItsWay, ManagerInv, ManagerOK
  <2>4. CASE kernel' = StillThere(type) /\ missed' = TRUE
    <3>1. kernel' = kernel \/ (kernel'.mat = NoMaterial /\ kernel'.spec = NoSpec)
      BY <2>4 DEF StillThere, Idle
    <3> QED BY <2>1, <2>2, <2>4, <3>1, NoneIsFine DEF KernelInv, WordOnItsWay
  <2> QED BY <2>1, <2>3, <2>4
<1>7. CASE Crash
  <2>1. cert' = [cfg |-> LocalCert, mat |-> NoMaterial, client |-> NoClient, renewed |-> FALSE]
        /\ UNCHANGED <<disk, files, storage, minted>>
        /\ main' = Quiet /\ callback' = Quiet
    BY <1>7 DEF Crash, NewManager
  <2>2. ManagerInv'
    BY <2>1, NoneIsFine, CertAssumption
       DEF ManagerInv, ManagerOK, ClientFits, WorldOK, Quiet, Writer, Stages, PairOrNone
  <2>3. KernelInv' /\ WordOnItsWay'
    BY <1>7, NoneIsFine DEF Crash, Idle, KernelInv, WordOnItsWay
  <2> QED BY <2>2, <2>3
<1>8. CASE ManagerSteps
  <2>1. ManagerInv'
    BY <1>8, ManagerStepsOK
  <2>2. UNCHANGED <<phase, spec, kernel, pull, missed>>
    BY <1>8 DEF ManagerSteps
  <2>3. CASE UNCHANGED <<cert, callback>>
    BY <2>1, <2>2, <2>3 DEF KernelInv, WordOnItsWay
  <2>4. CASE RenewalObtained \/ CallbackWrites
    <3>1. cert' = cert /\ (callback.stage \in {"cert", "key"} => callback'.stage \in {"key", "done"})
          /\ callback.stage # "done"
      BY <2>4, WriteOK DEF RenewalObtained, CallbackWrites, NextStage, ManagerInv, Writer
    <3> QED BY <2>1, <2>2, <3>1 DEF KernelInv, WordOnItsWay
  <2>5. CASE CallbackLoads /\ ~UNCHANGED cert
    <3>1. callback'.stage = "cert"
      BY <2>5 DEF CallbackLoads, Persist
    <3> QED BY <2>1, <2>2, <3>1 DEF KernelInv, WordOnItsWay
  <2>6. CASE CallbackLoads /\ UNCHANGED cert
    <3>1. callback.stage = "load"
      BY <2>6 DEF CallbackLoads
    <3> QED BY <2>1, <2>2, <2>6, <3>1 DEF KernelInv, WordOnItsWay
  <2>7. CASE CallbackFlags
    <3>1. cert'.renewed
      BY <2>7 DEF CallbackFlags, ManagerInv, ManagerOK
    <3> QED BY <2>1, <2>2, <3>1 DEF KernelInv, WordOnItsWay
  <2>8. MainWrites \/ OperatorReplaces => UNCHANGED <<cert, callback>>
    BY DEF MainWrites, OperatorReplaces
  <2> QED BY <1>8, <2>3, <2>4, <2>5, <2>6, <2>7, <2>8 DEF ManagerSteps
<1>9. CASE UNCHANGED vars
  BY <1>9 DEF vars, certVars, ManagerInv, WorldOK, KernelInv, WordOnItsWay
<1> QED BY <1>1, <1>2, <1>3, <1>4, <1>5, <1>6, <1>7, <1>8, <1>9 DEF Next

\* In every reachable state what the manager holds are pairs of its own configuration, and
\* word of what the kernel lacks is on its way (Manager.Start, storePEM, CertRenewed).
THEOREM IntakeInvariant == Spec => []IInv
BY IntakeInit, IntakeStep, PTL DEF Spec

----------------------------------------------------------------------------
(* The theorems.                                                           *)

\* Every variable of a node that takes in configurations has its type.
THEOREM IntakeTypeCorrect == Spec => []TypeOK
<1>1. IInv => TypeOK
  BY DEF IInv, ManagerInv, ManagerOK, WorldOK, KernelInv, PairOrNone, Writer, Names, TypeOK
<1> QED BY <1>1, IntakeInvariant, PTL

\* The material in memory and the kernel's are pairs (storePEM, persistPEM, Start).
THEOREM PairsAlwaysMatch == Spec => []PairsMatch
<1>1. IInv => PairsMatch
  BY DEF IInv, ManagerInv, ManagerOK, KernelInv, PairOrNone, PairsMatch
<1> QED BY <1>1, IntakeInvariant, PTL

\* Reconfigure leaves no ACME client of an earlier configuration running.
THEOREM ClientAlwaysConfigured == Spec => []ClientIsConfigured
<1>1. IInv => ClientIsConfigured
  BY DEF IInv, ManagerInv, ManagerOK, ClientFits, ClientIsConfigured
<1> QED BY <1>1, IntakeInvariant, PTL

\* The kernel serves the manager's material, unless word of a renewal is on its way to it
\* or a pull or reload failed (CertRenewed, pullViaAPIAsync, applyPullResult).
THEOREM MaterialReachesKernel == Spec => []KernelServesMaterial
<1>1. IInv => KernelServesMaterial
  BY DEF IInv, WordOnItsWay, KernelServesMaterial
<1> QED BY <1>1, IntakeInvariant, PTL
----------------------------------------------------------------------------
(* What an xray runs.                                                      *)

\* The lists of an xray are those of the specification and material it was started with,
\* and unless something failed that is the service's.
XrayLists ==
  /\ \A s \in {kernel.spec}, mat \in {kernel.mat} :
       LET config == BuildConfig("xray", SpecOf(s), Kcfg, mat)
       IN kernel.on /\ kernel.type = "xray"
            => kernel.outbounds = config.outbounds /\ kernel.rules = config.rules
  /\ (phase = "up" /\ kernel.on /\ kernel.type = "xray" /\ ~missed) => kernel.spec = spec

LEMMA XrayReloaded ==
  ASSUME XrayLists, NEW type, NEW k \in Reloaded(type), k.type = "xray"
  PROVE  \/ k = Fresh("xray")
         \/ k = kernel /\ kernel.spec = spec
<1>1. CASE ~kernel.on \/ kernel.type # type
  <2>1. k = Fresh(type)
    BY <1>1 DEF Reloaded
  <2> QED BY <2>1 DEF Fresh
<1>2. CASE kernel.on /\ kernel.type = type /\ type = "xray"
  BY <1>2 DEF Reloaded, XrayUnchanged
<1>3. CASE kernel.on /\ kernel.type = type /\ type # "xray"
  <2>1. k \in SingboxReloads(type) \cup {Fresh(type)}
    BY <1>3 DEF Reloaded
  <2>2. k.type = type
    <3>1. Fresh(type).type = type
      BY DEF Fresh
    <3>2. HotSwapped(type).type = type
      BY DEF Fresh, HotSwapped
    <3>3. [HotSwapped(type) EXCEPT !.rules = kernel.rules].type = HotSwapped(type).type
      BY DEF Fresh, HotSwapped
    <3> QED BY <2>1, <3>1, <3>2, <3>3 DEF SingboxReloads
  <2> QED BY <1>3, <2>2
<1> QED BY <1>1, <1>2, <1>3

LEMMA XrayListsStep == XrayLists /\ [Next]_vars => XrayLists'
<1> SUFFICES ASSUME XrayLists, [Next]_vars PROVE XrayLists'
  OBVIOUS
<1>1. CASE kernel' = kernel /\ (phase' = "up" => phase = "up" /\ UNCHANGED spec)
           /\ (missed => missed')
  BY <1>1 DEF XrayLists
<1>2. CASE ApplyChanges
  <2> DEFINE type == ResolveEffectiveKernelType(SpecOf(spec), Kcfg)
  <2>1. CASE kernel' \in Reloaded(type)
    <3>1. ASSUME kernel'.type = "xray"
          PROVE  kernel' = Fresh("xray") \/ (kernel' = kernel /\ kernel.spec = spec)
      BY <2>1, <3>1, XrayReloaded
    <3>2. spec' = spec
      BY <1>2 DEF ApplyChanges
    <3>3. CASE kernel' = Fresh("xray")
      BY <3>2, <3>3 DEF Fresh, XrayLists
    <3>4. CASE kernel' = kernel /\ kernel.spec = spec
      BY <3>2, <3>4 DEF XrayLists
    <3>5. CASE kernel'.type # "xray"
      BY <3>5 DEF XrayLists
    <3> QED BY <3>1, <3>3, <3>4, <3>5
  <2>2. CASE kernel' = StillThere(type) /\ missed' = TRUE
    <3>1. kernel' = kernel \/ kernel'.on = FALSE
      BY <2>2 DEF StillThere, Idle
    <3> QED BY <2>2, <3>1 DEF XrayLists
  <2> QED BY <1>2, <2>1, <2>2 DEF ApplyChanges
<1>3. CASE Crash
  BY <1>3 DEF Crash, Idle, XrayLists
<1>4. CASE Boot
  BY <1>1, <1>4 DEF Boot
<1>5. ASSUME NEW s \in Offered, Arrive(s)
      PROVE  XrayLists'
  BY <1>1, <1>5 DEF Arrive, Adopt
<1>6. ASSUME NEW s \in Offered \cup {spec}, PullLands(s)
      PROVE  XrayLists'
  BY <1>1, <1>6 DEF PullLands, Adopt
<1>7. CASE PullStarts \/ PullFails \/ ManagerSteps
  BY <1>1, <1>7 DEF PullStarts, PullFails, ManagerSteps
<1>8. CASE UNCHANGED vars
  BY <1>1, <1>8 DEF vars
<1> QED BY <1>2, <1>3, <1>4, <1>5, <1>6, <1>7, <1>8 DEF Next

\* An xray that is up runs the lists of the service's configuration: Reload compares the
\* hash and the material with those of the last start that succeeded, and a switch of the
\* kernel starts a new one (Xray.Start, Xray.Reload, ensureKernelType).
THEOREM XrayFollows == Spec => []XrayRunsItsConfig
<1>1. Init => XrayLists
  BY DEF Init, Idle, XrayLists
<1>2. XrayLists => XrayRunsItsConfig
  BY DEF XrayLists, XrayRunsItsConfig
<1> QED BY <1>1, <1>2, XrayListsStep, PTL DEF Spec
=============================================================================
