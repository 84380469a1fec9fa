----------------------------- MODULE CertManager -----------------------------
(***************************************************************************)
(* internal/cert: the certificate manager of a node service.  Its material *)
(* is swapped as one pointer and then persisted, certificate first and key *)
(* second, by whichever goroutine obtained it: the service's main loop, or *)
(* the renewal callback of an ACME client.  A crash may fall between any   *)
(* two steps; cert_dir, ACME storage and the operator's files survive it.  *)
(*                                                                         *)
(* A pair is a positive number and so are its halves.                      *)
(***************************************************************************)
EXTENDS KernelConfig, Integers

CONSTANTS
  Domains,     \* the domains configurations name
  MaxPairs,    \* bound: pairs that ever come to exist
  OwnPairs     \* the pairs 1..OwnPairs belong to the panel and the operator

ASSUME PairAssumption ==
  OwnPairs \in Nat \ {0} /\ MaxPairs \in Nat /\ OwnPairs <= MaxPairs

VARIABLES
  cert,        \* the Manager, lost in a crash
  disk,        \* cert_dir/cert.pem and key.pem
  files,       \* the operator's certificate and key files
  storage,     \* ACME storage: per domain a pair, or 0
  minted,      \* pairs that exist
  main,        \* what the main loop still has to write of its last storePEM
  callback     \* the renewal callback: its stage and what it has to write

certVars == <<cert, disk, files, storage, minted, main, callback>>

Pair(p) == [cert |-> p, key |-> p]
Halves  == [cert : 0 .. MaxPairs, key : 0 .. MaxPairs]

Unset == ""

\* A cert section as far as the manager's state depends on its values.
IsCertConfig(cfg) == cfg.content \in Halves /\ cfg.domain \in Domains \cup {Unset}

NoClient   == [domain |-> Unset]
NewManager(cfg) == [cfg |-> cfg, mat |-> NoMaterial, client |-> NoClient, renewed |-> FALSE]

Quiet == [stage |-> "idle", mat |-> NoMaterial]

\* What storePEM leaves to be persisted.
Persist(mat) == [stage |-> "cert", mat |-> mat]

----------------------------------------------------------------------------
(* Start, by mode.                                                         *)

ResolveMode(cfg) ==
  CASE cfg.mode # Unset -> cfg.mode
    [] cfg.mode = Unset /\ cfg.auto -> "http"
    [] cfg.mode = Unset /\ ~cfg.auto /\ HasCert(cfg.content) -> "content"
    [] cfg.mode = Unset /\ ~cfg.auto /\ ~HasCert(cfg.content) /\ cfg.paths -> "file"
    [] OTHER -> "none"

IsACME(cfg) == ResolveMode(cfg) \in {"http", "dns"}

\* acmeFingerprint: the mode as it is written, the domain, the provider.
Fingerprint(cfg) == [domain |-> cfg.domain, mode |-> cfg.mode, provider |-> cfg.provider]

ValidateKeyPair(mat) == Matches(mat)

\* What a Start can come to: the material, whether it is stored anew (and so persisted)
\* or kept in memory only, a pair the CA issued, or an error.
Keep(mat)  == [ok |-> TRUE, mat |-> mat, store |-> FALSE, issued |-> 0, mint |-> 0]
Store(mat) == [ok |-> TRUE, mat |-> mat, store |-> TRUE, issued |-> 0, mint |-> 0]
Failed(mat) == [Keep(mat) EXCEPT !.ok = FALSE]

\* A bug: both files are there, and nobody looks whether they belong together.
LoadAnyPEM == HasCert(disk)

\* loadPersistedPEM: memory only; FALSE when a file is missing or the halves differ.
LoadPersistedPEM == ValidateKeyPair(disk)

StartFile(m) == IF ValidateKeyPair(files) THEN {Store(files)} ELSE {Failed(m.mat)}

Generate == {[Store(Pair(p)) EXCEPT !.mint = 1] : p \in {minted + 1} \cap 0 .. MaxPairs}

StartSelfSigned(m) == IF LoadPersistedPEM THEN {Keep(disk)} ELSE Generate

StartContent(m) ==
  LET content == m.cfg.content
  IN CASE HasCert(content) /\ ValidateKeyPair(content) -> {Store(content)}
       [] ~HasCert(content) /\ LoadPersistedPEM -> {Keep(disk)}
       [] OTHER -> {Failed(m.mat)}

\* The pair in storage, or the one the CA issues.
Issued(d) ==
  CASE storage[d] # 0 -> storage[d]
    [] storage[d] = 0 /\ minted < MaxPairs -> minted + 1
    [] OTHER -> 0

\* Nothing to do while a client runs; else fail, or obtain, load and store, after which
\* the client may still fail to start.
StartACME(m) ==
  LET d == m.cfg.domain
  IN CASE m.client # NoClient -> {Keep(m.mat)}
       [] m.client = NoClient /\ d = Unset -> {Failed(m.mat)}
       [] OTHER ->
            {Failed(m.mat)}
              \cup [ok : BOOLEAN, mat : {Pair(Issued(d))}, store : {TRUE},
                    issued : {Issued(d)} \ {0}, mint : {IF storage[d] # 0 THEN 0 ELSE 1}]

StartOutcomes(m) ==
  LET mode == ResolveMode(m.cfg)
  IN CASE mode = "none" -> {Keep(m.mat)}
       [] mode = "file" -> StartFile(m)
       [] mode = "self" -> StartSelfSigned(m)
       [] mode = "content" -> StartContent(m)
       [] mode = "http" -> StartACME(m)
       [] mode = "dns" /\ m.cfg.provider \in KnownProviders -> StartACME(m)
       [] OTHER -> {Failed(m.mat)}

\* The manager after a Start that came to o, run by the main loop.
Started(m, o) ==
  /\ cert' = [m EXCEPT !.mat = o.mat,
                       !.client = IF o.ok /\ o.issued # 0 THEN Fingerprint(m.cfg) ELSE @]
  /\ main' = IF o.store THEN Persist(o.mat) ELSE [main EXCEPT !.stage = "done"]
  /\ minted' = minted + o.mint
  /\ storage' = IF o.issued # 0 THEN [storage EXCEPT ![m.cfg.domain] = o.issued] ELSE storage
  /\ UNCHANGED <<disk, files, callback>>

\* A bug: a client lives on as long as ACME is used at all.
TornDownWithACME(m, cfg) == m.client # NoClient /\ ~IsACME(cfg)

\* Reconfigure drops an ACME client, and its material, that the new configuration does
\* not continue; the new configuration stays even if its Start fails.
TornDown(m, cfg) ==
  m.client # NoClient /\ (~IsACME(cfg) \/ Fingerprint(cfg) # m.client)

Reconfigured(m, cfg) ==
  IF TornDown(m, cfg) THEN [m EXCEPT !.cfg = cfg, !.mat = NoMaterial, !.client = NoClient]
  ELSE [m EXCEPT !.cfg = cfg]

Reconfigure(cfg) ==
  LET m == Reconfigured(cert, cfg)
  IN \E o \in StartOutcomes(m) : Started(m, o)

----------------------------------------------------------------------------
(* persistPEM, as the main loop and the callback go through it.            *)

\* A bug: the file is written in place, and a write may stop half-way.
WriteInPlace(written) ==
  disk' \in {written, disk, [h \in DOMAIN disk |-> IF written[h] = disk[h] THEN disk[h] ELSE -1]}

\* A temporary file is renamed; a write or rename that fails is only logged.
WriteHalf(written) == disk' \in {written, disk}

NextStage(stage) == CASE stage = "cert" -> "key" [] OTHER -> "done"

WriteStep(actor) ==
  CASE actor.stage = "cert" -> WriteHalf([disk EXCEPT !.cert = actor.mat.cert])
    [] actor.stage = "key" -> WriteHalf([disk EXCEPT !.key = actor.mat.key])
    [] OTHER -> FALSE

MainWrites ==
  /\ WriteStep(main)
  /\ main' = [main EXCEPT !.stage = NextStage(@)]
  /\ UNCHANGED <<cert, files, storage, minted, callback>>

----------------------------------------------------------------------------
(* Renewal: certmagic's goroutine obtains a new pair and calls OnEvent.  A *)
(* client torn down afterwards does not recall an event under way.         *)

RenewalObtained ==
  /\ cert.client # NoClient /\ callback.stage = "idle" /\ minted < MaxPairs
  /\ storage' = [storage EXCEPT ![cert.client.domain] = minted + 1]
  /\ minted' = minted + 1
  /\ callback' = [callback EXCEPT !.stage = "load"]
  /\ UNCHANGED <<cert, disk, files, main>>

\* loadPEMFromStorage, for the domain of the manager's configuration at this moment.
CallbackLoads ==
  /\ callback.stage = "load"
  /\ LET d == cert.cfg.domain
     IN IF d # Unset /\ storage[d] # 0
        THEN /\ cert' = [cert EXCEPT !.mat = Pair(storage[d])]
             /\ callback' = Persist(Pair(storage[d]))
        ELSE callback' = Quiet /\ UNCHANGED cert
  /\ UNCHANGED <<disk, files, storage, minted, main>>

CallbackWrites ==
  /\ WriteStep(callback)
  /\ callback' = [callback EXCEPT !.stage = NextStage(@)]
  /\ UNCHANGED <<cert, files, storage, minted, main>>

CallbackFlags ==
  /\ callback.stage = "done"
  /\ cert' = [cert EXCEPT !.renewed = TRUE]
  /\ callback' = Quiet
  /\ UNCHANGED <<disk, files, storage, minted, main>>

\* The operator replaces the certificate file with a later one, then the key file.
OperatorReplaces ==
  /\ IF files.key = files.cert
     THEN \E p \in files.cert + 1 .. OwnPairs : files' = [files EXCEPT !.cert = p]
     ELSE files' = [files EXCEPT !.key = files.cert]
  /\ UNCHANGED <<cert, disk, storage, minted, main, callback>>
=============================================================================
