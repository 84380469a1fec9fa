------------------------------- MODULE Layout -------------------------------
(***************************************************************************)
(* The configuration file (internal/config): what LoadRoot makes of it,    *)
(* which services an accepted file stands for and where they keep their    *)
(* files, and which files are refused, at loading or at startup.           *)
(*                                                                         *)
(* A file is a top section and a sequence of instances; without instances  *)
(* the top section is the only one.  A missing file is a blank top.        *)
(***************************************************************************)
EXTENDS Integers, Sequences, FiniteSets

\* A panel's address; one panel can be spelled in several ways.
NoUrl  == [host |-> "", spelling |-> 0]
BadUrl == [host |-> "malformed", spelling |-> 0]

\* An instance's ID: the panel, the mode, and how often each node is named.
NoId == <<"", "", <<>>>>

\* base/<instance>/node-<node>/certs, every part but the first optional.
Path(base) == [base |-> base, instance |-> NoId, node |-> 0, certs |-> FALSE]
NoPath  == Path("")
BaseDir == Path("beside the file")

\* What a section says; `token` is the one its mode asks for.
Blank ==
  [id |-> NoId, url |-> NoUrl, token |-> FALSE, node |-> 0, nodes |-> <<>>, machine |-> 0,
   local |-> "no", kernel |-> "", dir |-> NoPath, certDir |-> NoPath, health |-> 0,
   custom |-> "", mode |-> "", content |-> FALSE, certFile |-> FALSE, auto |-> FALSE,
   domain |-> FALSE]

\* What a file may name as a directory: a place of its own, never a part of the tree that
\* is derived from the place of the file.
NamedDirs ==
  {d \in [base : STRING, instance : {NoId}, node : {0}, certs : {FALSE}] : d.base # BaseDir.base}

\* An entry of `nodes`, with what it overrides.
Entry(node) == [node |-> node, kernel |-> FALSE, dir |-> NoPath, cert |-> FALSE, certDir |-> NoPath]

Urls == [host : STRING, spelling : Int]
Entries ==
  [node : Int, kernel : BOOLEAN, dir : NamedDirs, cert : BOOLEAN, certDir : NamedDirs]
FileSections ==
  [id : {NoId}, url : Urls, token : BOOLEAN, node : Int, nodes : Seq(Entries), machine : Int,
   local : STRING, kernel : STRING, dir : NamedDirs, certDir : NamedDirs, health : Int,
   custom : STRING, mode : STRING, content : BOOLEAN, certFile : BOOLEAN, auto : BOOLEAN,
   domain : BOOLEAN]

Or(mine, inherited, zero) == IF mine = zero THEN inherited ELSE mine

IsStandalone(c)  == c.local # "no"
IsMachineMode(c) == c.machine > 0

----------------------------------------------------------------------------
(* LoadRoot.                                                               *)

\* Directories, addresses, health port and tokens are not inherited; auto_tls is only by
\* a section that, after this, has no other certificate.
InheritFrom(c, parent) ==
  LET mode == Or(c.mode, parent.mode, "")
      file == c.certFile \/ parent.certFile
      content == c.content \/ parent.content
  IN [c EXCEPT !.kernel = Or(@, parent.kernel, ""), !.custom = Or(@, parent.custom, ""),
               !.mode = mode, !.certFile = file, !.content = content,
               !.domain = @ \/ parent.domain,
               !.auto = @ \/ (mode = "" /\ ~file /\ ~content /\ parent.auto)]

\* The environment's address and node number go before the file's, in every section.
ApplyEnvOverrides(c, env) ==
  [c EXCEPT !.url = Or(env.url, @, NoUrl), !.node = Or(env.node, @, 0)]

ValidUrl(c) == IsStandalone(c) \/ c.url \notin {NoUrl, BadUrl}

Named(nodes) ==
  [n \in {nodes[i].node : i \in DOMAIN nodes} |->
     Cardinality({i \in DOMAIN nodes : nodes[i].node = n})]

\* The address is normalised, so that its spelling makes no difference.
AutoInstanceID(c) ==
  IF IsStandalone(c) THEN <<"standalone", "standalone", <<>>>>
  ELSE IF IsMachineMode(c) THEN <<c.url.host, "machine", Named(<<Entry(c.machine)>>)>>
  ELSE <<c.url.host, "node", Named(IF c.nodes # <<>> THEN c.nodes ELSE <<Entry(c.node)>>)>>

SetDefaultsFrom(c, base) ==
  LET dir == Or(c.dir, base, NoPath)
  IN [c EXCEPT !.kernel = Or(@, "auto", ""), !.dir = dir,
               !.certDir = Or(@, [dir EXCEPT !.certs = TRUE], NoPath)]

\* A bug: an instance's directory is named by its place in the file.
BaseByPlace(list, i) ==
  IF Len(list) > 1 /\ list[i].dir = NoPath THEN [BaseDir EXCEPT !.node = i] ELSE BaseDir

\* Several instances get a directory each, unless they name one.
InstanceBase(list, i) ==
  IF Len(list) > 1 /\ list[i].dir = NoPath THEN [BaseDir EXCEPT !.instance = list[i].id]
  ELSE BaseDir

\* The sections as LoadRoot leaves them.
Sections(file, env) ==
  IF file.instances = <<>> THEN <<SetDefaultsFrom(ApplyEnvOverrides(file.top, env), BaseDir)>>
  ELSE LET inherited == [i \in DOMAIN file.instances |->
                          ApplyEnvOverrides(InheritFrom(file.instances[i], file.top), env)]
           list == [i \in DOMAIN inherited |->
                      [inherited[i] EXCEPT !.id = AutoInstanceID(inherited[i])]]
       IN [i \in DOMAIN list |-> SetDefaultsFrom(list[i], InstanceBase(list, i))]

ValidMode(c) ==
  IF IsStandalone(c) THEN c.local = "sound" /\ c.nodes = <<>>
  ELSE /\ c.url # NoUrl /\ c.token
       /\ IF IsMachineMode(c) THEN c.nodes = <<>>
          ELSE /\ c.nodes = <<>> => c.node > 0
               /\ \A i \in DOMAIN c.nodes : c.nodes[i].node > 0

Validate(c) ==
  ValidMode(c) /\ c.kernel \in {"auto", "singbox", "xray"} /\ (c.auto => c.domain)

\* The address of a lone section is only looked at by NormalizeInstances.
LoadRootSucceeds(file, env) ==
  LET list == Sections(file, env)
      several == file.instances # <<>>
  IN /\ file.readable
     /\ \A i \in DOMAIN list : Validate(list[i]) /\ (several => ValidUrl(list[i]))
     /\ several => \A i, j \in DOMAIN list : i # j => list[i].id # list[j].id

----------------------------------------------------------------------------
(* From a loaded root to services.                                         *)

CanNormalize(list) == \A i \in DOMAIN list : ValidUrl(list[i])
NormalizeInstances(list) == [i \in DOMAIN list |-> [list[i] EXCEPT !.id = AutoInstanceID(list[i])]]

NodeDir(c, n) == [c.dir EXCEPT !.node = n]

\* An entry without kernel section gets a directory of its own.
ExpandNode(c, e) ==
  LET dir == IF ~e.kernel THEN NodeDir(c, e.node) ELSE Or(e.dir, c.dir, NoPath)
      certDir == IF e.cert THEN e.certDir ELSE c.certDir
  IN [c EXCEPT !.node = e.node, !.nodes = <<>>, !.dir = dir,
               !.certDir = Or(certDir, [dir EXCEPT !.certs = TRUE], NoPath)]

ExpandNodes(c) ==
  IF c.nodes = <<>> THEN <<c>> ELSE [i \in DOMAIN c.nodes |-> ExpandNode(c, c.nodes[i])]

ExpandMachineNode(c, n) ==
  [c EXCEPT !.node = n, !.nodes = <<>>, !.dir = NodeDir(c, n),
            !.certDir = [NodeDir(c, n) EXCEPT !.certs = TRUE]]

\* The services that are started: number k of instance i; one for a machine.
Service(i, k, c) ==
  [instance |-> i, first |-> k = 1, machine |-> IsMachineMode(c), url |-> c.url,
   node |-> c.node, dir |-> c.dir, certDir |-> c.certDir, custom |-> c.custom]

Expanded(c) == IF IsMachineMode(c) THEN <<c>> ELSE ExpandNodes(c)

Services(list) ==
  [s \in UNION {{i} \X DOMAIN Expanded(list[i]) : i \in DOMAIN list} |->
     Service(s[1], s[2], Expanded(list[s[1]])[s[2]])]

Binding(s) == <<s.url, s.node>>

\* A bug: only the node number of the section itself is compared.
LayoutOfSections(list) ==
  \A i, j \in DOMAIN list : i # j => <<list[i].url, list[i].node>> # <<list[j].url, list[j].node>>

\* Addresses are compared as they are spelled, directories per instance only.
ValidateStartupLayout(list) ==
  LET services == Services(list)
      static == {s \in DOMAIN services : ~services[s].machine}
  IN /\ \A i, j \in DOMAIN list : i # j =>
          /\ list[i].health > 0 => list[i].health # list[j].health
          /\ list[i].dir = list[j].dir => list[i].id = list[j].id
     /\ \A s, t \in static : s # t => Binding(services[s]) # Binding(services[t])
     /\ \A s \in DOMAIN services : services[s].custom # "missing"
=============================================================================
