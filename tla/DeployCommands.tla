---- MODULE DeployCommands ----
(* A sequence of roxie's commands on one cluster, seen from their configuration: each deploy starts from the
   manifest that the last one left, completes the configuration, gets hold of credentials and images,
   deploys what its configuration says and writes the manifest at the very end; a teardown takes from the
   manifest what it has to remove. How operator and components are deployed is a step each (see
   OperatorLifecycle and ComponentLifecycle). One command runs at a time; it may be killed between any two
   steps, and what the code shrugs off (a manifest not read or not written, a secret not applied, an image
   not sent, a registry that does not answer) is a fault. *)
EXTENDS RegistryAccess, FiniteSets

CONSTANTS Lines,         \* command lines: verb, components (none: add-ons only), settings, place
          Hosts,         \* machine and cluster: logins, the user's file, images, private repositories, ...
          Sources,       \* what there is to find a tag when none is given, see LookupMainImageTag
          Legacy,        \* manifests that older versions of roxie may have left, or Unset
          Namespaces,    \* of components
          MaxCommands,   \* commands in a behaviour
          MaxFaults      \* errors that are not handed up, and kills

NoSecret == {}

VARIABLES host,        \* the machine, its logins and the cluster's type; never changes
          manifest,    \* the configuration in the manifest's secret, or Unset
          centrals,    \* per namespace: Unset, or the Central there
          sensors,     \* per namespace: Unset, or the SecuredCluster there
          operators,   \* per operator namespace: Unset, or the instance that was deployed
          pullSecrets, \* per namespace: the registries that its pull secret opens
          node,        \* images in the store of a local cluster's node
          terminal,    \* the namespace of the Central that API_ENDPOINT leads to, or Unset
          job,         \* the running command
          commands, faults,  \* how many so far
          names,       \* how many cluster names have been generated
          past         \* history: what has been asked for, see Remember

cluster == <<centrals, sensors, operators, pullSecrets, node>>
vars == <<host, manifest, cluster, terminal, job, commands, faults, names, past>>

OperatorNamespaces == {"rhacs-operator-system", "rhacs-operator-central", "rhacs-operator-sensor"}

Idle == [pc |-> "idle"]

NoPast == [pinned |-> FALSE,   \* some line gave a version to an operator
           explicit |-> {},    \* variables that some line gave to an operator
           resolved |-> Unset, \* what the manifest's configuration resolved to
           reused |-> FALSE,   \* a Central has seen a cluster name twice
           late |-> FALSE]     \* a component could not be deployed for want of credentials

Init == /\ host \in Hosts
        /\ manifest \in Legacy
        /\ centrals = [n \in Namespaces |-> Unset]
        /\ sensors = [n \in Namespaces |-> Unset]
        /\ operators = [n \in OperatorNamespaces |-> Unset]
        /\ pullSecrets = [n \in Namespaces \cup OperatorNamespaces |-> NoSecret]
        /\ node = {}
        /\ terminal = Unset
        /\ job = Idle
        /\ commands = 0 /\ faults = 0 /\ names = 0
        /\ past = NoPast

----------------------------------------------------------------------------
(* Starting a command *)

\* k faults more, as long as there may be
Spend(k) == faults + k <= MaxFaults /\ faults' = faults + k

\* the manifest, at the cost of a fault if it is not read: errors only warn, and count as none
LoadManifestSecret(stored) ==
    \/ stored = manifest /\ Spend(0)
    \/ stored = Unset /\ manifest # Unset /\ Spend(1)

\* history: versions and variables given to operators, in any line, by the user's file
Remember(line) ==
    LET given == {line.args, host.user}
        sections == {"operator", "centralOperator", "sensorOperator"}
    IN  [past EXCEPT !.pinned = @ \/ \E g \in given, s \in sections : g[s].version # Unset,
                     !.explicit = @ \cup UNION {DOMAIN g[s].envVars : g \in given, s \in sections}]

\* runDeploy up to validation; the generated cluster name is new
PreparedConfig(line, stored, tag, name) ==
    LET assembled == AssembleConfigForCommand(RetrieveClusterConfigForComponents(stored, line.components),
                                              host.user, line.args)
        tagged == [assembled EXCEPT !.roxie.version = FirstSet(@, tag)]
        defaulted == IF "sensor" \in line.components THEN ApplySecuredClusterDefaults(tagged, name)
                     ELSE tagged
    IN  ConfigureConfig(defaulted, line.components, DetectClusterType(host.kube))

BeginDeploy(line) ==
    /\ job = Idle /\ commands < MaxCommands /\ line.verb = "deploy"
    /\ commands' = commands + 1
    /\ names' = names + 1
    /\ \E stored \in {manifest, Unset}, source \in Sources :
         LET config == PreparedConfig(line, stored, LookupMainImageTag(source), names')
         IN  /\ LoadManifestSecret(stored)
             /\ IF /\ config.roxie.version # Refused
                   /\ DeployValidate(config, line.components, line.place)
                THEN /\ job' = [pc |-> "container", line |-> line, stored |-> stored, config |-> config,
                                probed |-> << >>, creds |-> Refused, instance |-> 1,
                                endpoint |-> terminal]
                     /\ past' = Remember(line)
                ELSE UNCHANGED <<job, past>>
    /\ UNCHANGED <<host, manifest, cluster, terminal>>

\* the error of a step that is handed up, or a kill
Abort == /\ job # Idle /\ Spend(1)
         /\ job' = Idle
         /\ UNCHANGED <<host, manifest, cluster, terminal, commands, names, past>>

----------------------------------------------------------------------------
(* Images and credentials *)

RepoRequiresAuthMutant(repository) == {<<repository \in host.private, 0>>, <<TRUE, 1>>}

\* repoRequiresAuth, with its cost in faults: asked once per command, no answer counts as "yes"
RepoRequiresAuth(repository) ==
    IF repository \in DOMAIN job.probed THEN {<<job.probed[repository], 0>>}
    ELSE {<<repository \in host.private, 0>>, <<TRUE, 1>>}

Probed(repository, answer) == Over(job.probed, Entry(repository, answer))
MainProbes == RepoRequiresAuth(MainRepository(job.config))
Registry == job.config.roxie.imageRegistry

\* validateContainerizedCredentials
CheckContainer ==
    /\ job.pc = "container"
    /\ IF job.line.place.container
       THEN \E probe \in MainProbes :
              /\ Spend(probe[2])
              /\ job' = IF /\ NeedsPullSecrets(job.config, probe[1])
                          /\ ~(host.login.username /\ host.login.password)
                        THEN Idle
                        ELSE [job EXCEPT !.pc = "images",
                                         !.probed = Probed(MainRepository(job.config), probe[1])]
       ELSE Spend(0) /\ job' = [job EXCEPT !.pc = "images"]
    /\ UNCHANGED <<host, manifest, cluster, terminal, commands, names, past>>

\* --image-preload-command works anywhere, else there are loaders for Kind and Minikube
HasPreLoader == host.preloadCommand \/ job.config.roxie.clusterType \in {"Kind", "Minikube"}
WantedLocally == ImagesForConfig(job.config) \cap host.images
Preloads == /\ IsLocal(job.config.roxie.clusterType)
            /\ ~Enabled(job.config.roxie.konfluxImages)
            /\ HasPreLoader

\* a fault: the images here or on the node are not listed, or one of them is not sent
TryTransferLocalImages ==
    /\ job.pc = "images"
    /\ IF Preloads
       THEN \/ node' = node \cup WantedLocally /\ Spend(0)
            \/ \E failed \in {WantedLocally} \cup {{i} : i \in WantedLocally} :
                 node' = node \cup (WantedLocally \ failed) /\ Spend(1)
       ELSE node' = node /\ Spend(0)
    /\ job' = [job EXCEPT !.pc = "credentials"]
    /\ UNCHANGED <<host, manifest, centrals, sensors, operators, pullSecrets, terminal, commands, names,
                   past>>

\* the start of Deploy: "prepare and verify credentials early to fail fast"
PrepareCredentials ==
    /\ job.pc = "credentials"
    /\ \E probe \in MainProbes :
         LET needed == NeedsPullSecrets(job.config, probe[1])
             found == GetAndVerifyCredentials(host.login, Registry, host.hostOf[Registry])
         IN  /\ Spend(probe[2])
             /\ job' = IF needed /\ found = Refused THEN Idle
                       ELSE [job EXCEPT !.pc = "operators",
                                        !.probed = Probed(MainRepository(job.config), probe[1]),
                                        !.creds = IF needed THEN found ELSE Refused]
    /\ UNCHANGED <<host, manifest, cluster, terminal, commands, names, past>>

----------------------------------------------------------------------------
(* Deploying *)

PullSecretMutant(creds, registry) == {r \in creds : host.hostOf[r] = host.hostOf[DefaultRegistry]}

\* what a pull secret with these credentials opens: it is for the registry's host
PullSecret(creds, registry) == {r \in creds : host.hostOf[r] = host.hostOf[registry]}

\* ensurePullSecretExists: an error of the apply (lost) only warns
WithPullSecret(secrets, namespace, needed, lost) ==
    IF needed /\ ~lost THEN [secrets EXCEPT ![namespace] = PullSecret(job.creds, Registry)] ELSE secrets

Planned == OperatorInstances(job.config)
SkipsOperator == job.line.components = {} \/ Enabled(job.config.mode.skipDeployment)
PlannedNamespaces == {i.namespace : i \in Range(Planned)}

\* an operator with its image and mode is left alone, whatever its variables
IsOperatorCorrect(current, instance, olm) ==
    /\ current # Unset
    /\ current.olm = olm
    /\ OperatorImage(current.instance) = OperatorImage(instance)

\* one operator; what is not planned, or not as planned, goes with its namespace first
EnsureOperator ==
    /\ job.pc = "operators"
    /\ ~SkipsOperator /\ job.instance <= Len(Planned)
    /\ LET instance == Planned[job.instance]
           n == instance.namespace
           olm == Enabled(job.config.mode.deployViaOlm)
           correct == IsOperatorCorrect(operators[n], instance, olm)
           Stays(m) == m \in PlannedNamespaces /\ (m # n \/ correct)
           keptOperators == [m \in OperatorNamespaces |-> IF Stays(m) THEN operators[m] ELSE Unset]
           keptSecrets == [m \in DOMAIN pullSecrets |->
                              IF m \in OperatorNamespaces /\ ~Stays(m) THEN NoSecret ELSE pullSecrets[m]]
           deployed == [keptOperators EXCEPT
                           ![n] = [instance |-> PopulateOperatorEnvVars(instance), olm |-> olm]]
           next == [job EXCEPT !.instance = @ + 1]
       IN  IF correct
           THEN /\ Spend(0)
                /\ operators' = keptOperators /\ pullSecrets' = keptSecrets /\ job' = next
           ELSE \E probe \in IF olm THEN {<<FALSE, 0>>} ELSE RepoRequiresAuth(OperatorRepository(instance)),
                   lost \in BOOLEAN :
                  LET needed == NeedsPullSecrets(job.config, probe[1])
                      asked == IF olm THEN next
                               ELSE [next EXCEPT !.probed = Probed(OperatorRepository(instance), probe[1])]
                  IN  /\ lost => needed
                      /\ Spend(probe[2] + IF lost THEN 1 ELSE 0)
                      /\ IF needed /\ job.creds = Refused
                         THEN operators' = keptOperators /\ pullSecrets' = keptSecrets /\ job' = Idle
                         ELSE /\ operators' = deployed
                              /\ pullSecrets' = WithPullSecret(keptSecrets, n, needed, lost)
                              /\ job' = asked
    /\ UNCHANGED <<host, manifest, centrals, sensors, node, terminal, commands, names, past>>

OperatorsDeployed ==
    /\ job.pc = "operators"
    /\ SkipsOperator \/ job.instance > Len(Planned)
    /\ job' = [job EXCEPT !.pc = "central"]
    /\ UNCHANGED <<host, manifest, cluster, terminal, commands, faults, names, past>>

\* a Central of its predecessor's namespace replaces it, and has no clusters yet
DeployCentral ==
    /\ job.pc = "central" /\ "central" \in job.line.components
    /\ \E probe \in MainProbes, lost \in BOOLEAN :
         LET n == job.config.central.namespace
             needed == NeedsPullSecrets(job.config, probe[1])
         IN  /\ lost => needed
             /\ Spend(probe[2] + IF lost THEN 1 ELSE 0)
             /\ IF needed /\ job.creds = Refused
                THEN /\ centrals' = [centrals EXCEPT ![n] = Unset]
                     /\ past' = [past EXCEPT !.late = TRUE]
                     /\ job' = Idle
                     /\ UNCHANGED pullSecrets
                ELSE /\ centrals' = [centrals EXCEPT ![n] = [registry |-> Registry, clusters |-> {}]]
                     /\ pullSecrets' = WithPullSecret(pullSecrets, n, needed, lost)
                     /\ job' = [job EXCEPT !.pc = "sensor", !.endpoint = n]
                     /\ UNCHANGED past
    /\ UNCHANGED <<host, manifest, sensors, operators, node, terminal, commands, names>>

SkipCentral ==
    /\ job.pc = "central" /\ "central" \notin job.line.components
    /\ job' = [job EXCEPT !.pc = "sensor"]
    /\ UNCHANGED <<host, manifest, cluster, terminal, commands, faults, names, past>>

\* its registration secret comes from the Central at API_ENDPOINT or the one just deployed
DeploySecuredCluster ==
    /\ job.pc = "sensor" /\ "sensor" \in job.line.components
    /\ \E probe \in MainProbes, lost \in BOOLEAN :
         LET n == job.config.securedCluster.namespace
             spec == job.config.securedCluster.spec
             needed == NeedsPullSecrets(job.config, probe[1])
             refused == needed /\ job.creds = Refused
             registers == job.endpoint # Unset /\ centrals[job.endpoint] # Unset
         IN  /\ lost => needed /\ ~refused
             /\ Spend(probe[2] + IF lost THEN 1 ELSE 0)
             /\ pullSecrets' = IF refused THEN pullSecrets
                               ELSE WithPullSecret(pullSecrets, n, needed, lost)
             /\ IF ~refused /\ registers
                THEN /\ sensors' = [sensors EXCEPT ![n] = [registry |-> Registry,
                                                          endpoint |-> spec.centralEndpoint]]
                     /\ centrals' = [centrals EXCEPT ![job.endpoint].clusters = @ \cup {spec.clusterName}]
                     /\ past' = [past EXCEPT !.reused =
                                   @ \/ spec.clusterName \in centrals[job.endpoint].clusters]
                     /\ job' = [job EXCEPT !.pc = "manifest"]
                ELSE /\ sensors' = [sensors EXCEPT ![n] = Unset]
                     /\ past' = [past EXCEPT !.late = @ \/ refused]
                     /\ job' = Idle
                     /\ UNCHANGED centrals
    /\ UNCHANGED <<host, manifest, operators, node, terminal, commands, names>>

SkipSecuredCluster ==
    /\ job.pc = "sensor" /\ "sensor" \notin job.line.components
    /\ job' = [job EXCEPT !.pc = "manifest"]
    /\ UNCHANGED <<host, manifest, cluster, terminal, commands, faults, names, past>>

\* what a configuration comes to, apart from what belongs to one command
Resolution(c) ==
    [operators |-> [k \in 1 .. Len(OperatorInstances(c)) |-> PopulateOperatorEnvVars(OperatorInstances(c)[k])],
     namespaces |-> <<c.central.namespace, c.securedCluster.namespace>>,
     profiles |-> <<c.central.resourceProfile, c.securedCluster.resourceProfile>>,
     reached |-> <<c.central.exposure, c.central.portForwarding>>,
     flags |-> c.roxie.featureFlags,
     readiness |-> <<c.central.earlyReadiness, c.securedCluster.earlyReadiness>>]

ManifestConfigMutant ==
    [job.config EXCEPT !.roxie.envrc = Unset, !.operator.envVars = PopulateOperatorEnvVars(Planned[1]).envVars]

\* the whole configuration as it was used, without the envrc
ManifestConfig == [job.config EXCEPT !.roxie.envrc = Unset]

\* after everything else; an error only warns
CreateManifestSecretOnCluster ==
    /\ job.pc = "manifest"
    /\ \/ /\ manifest' = ManifestConfig
          /\ past' = [past EXCEPT !.resolved = Resolution(job.config)]
          /\ Spend(0)
       \/ UNCHANGED <<manifest, past>> /\ Spend(1)
    /\ terminal' = job.endpoint
    /\ job' = Idle
    /\ UNCHANGED <<host, cluster, commands, names>>

----------------------------------------------------------------------------
(* Removing *)

BeginTeardown(line) ==
    /\ job = Idle /\ commands < MaxCommands /\ line.verb = "teardown"
    /\ commands' = commands + 1
    /\ \E stored \in {manifest, Unset} :
         /\ LoadManifestSecret(stored)
         /\ job' = [pc |-> "teardown", line |-> line, stored |-> stored,
                    config |-> AssembleConfigForCommand(stored, host.user, line.args)]
    /\ UNCHANGED <<host, manifest, cluster, terminal, names, past>>

\* of several parts, one that cannot be removed only warns; namespaces of components stay
Teardown ==
    /\ job.pc = "teardown"
    /\ \E spared \in {{}} \cup {{k} : k \in job.line.components} :
         LET gone == job.line.components \ spared
         IN  /\ spared # {} => Cardinality(job.line.components) > 1
             /\ Spend(Cardinality(spared))
             /\ centrals' = IF "central" \in gone
                            THEN [centrals EXCEPT ![job.config.central.namespace] = Unset] ELSE centrals
             /\ sensors' = IF "sensor" \in gone
                           THEN [sensors EXCEPT ![job.config.securedCluster.namespace] = Unset]
                           ELSE sensors
             /\ operators' = IF "operator" \in gone THEN [n \in OperatorNamespaces |-> Unset] ELSE operators
             /\ pullSecrets' = IF "operator" \in gone
                               THEN [n \in DOMAIN pullSecrets |-> IF n \in OperatorNamespaces THEN NoSecret
                                                                  ELSE pullSecrets[n]]
                               ELSE pullSecrets
    /\ job' = [job EXCEPT !.pc = "forget"]
    /\ UNCHANGED <<host, manifest, node, terminal, commands, names, past>>

\* together with Central, and then, with everything, its namespace; their errors are ignored
DeleteManifestSecret ==
    /\ job.pc = "forget"
    /\ IF "central" \in job.line.components
       THEN \/ /\ manifest' = Unset /\ Spend(0)
              /\ past' = [NoPast EXCEPT !.reused = past.reused, !.late = past.late]
            \/ /\ UNCHANGED <<manifest, past>>
              /\ Spend(IF "operator" \in job.line.components THEN 2 ELSE 1)
       ELSE UNCHANGED <<manifest, past>> /\ Spend(0)
    /\ job' = Idle
    /\ UNCHANGED <<host, cluster, terminal, commands, names>>

----------------------------------------------------------------------------

Next == \/ \E line \in Lines : BeginDeploy(line) \/ BeginTeardown(line)
        \/ CheckContainer \/ TryTransferLocalImages \/ PrepareCredentials
        \/ EnsureOperator \/ OperatorsDeployed
        \/ DeployCentral \/ SkipCentral \/ DeploySecuredCluster \/ SkipSecuredCluster
        \/ CreateManifestSecretOnCluster
        \/ Teardown \/ DeleteManifestSecret
        \/ Abort

Spec == Init /\ [][Next]_vars

----------------------------------------------------------------------------
(* Properties *)

Deploying == job # Idle /\ job.line.verb = "deploy"
Instances == Range(Planned)

\* what a list of variables comes to: the last entry of a name counts
EffectiveValue(spec, f) == spec.envVars[SelectLastInSeq(spec.envVars, LAMBDA e : e[1] = f)][2]

\* What a command line says rules over what earlier commands left in the manifest: a tag over versions, also
\* over those that an older roxie wrote into the operator's section, unless some command gave an operator a
\* version of its own; a feature flag over its earlier values, which stay in the custom resource's list.
LineTakesEffect ==
    Deploying =>
      LET args == job.line.args
          Shows(spec) == \A f \in DOMAIN args.roxie.featureFlags :
                            EffectiveValue(spec, f) = args.roxie.featureFlags[f]
      IN  /\ args.roxie.version # Unset /\ ~past.pinned
                => {CentralVersion(job.config), SecuredClusterVersion(job.config)} = {args.roxie.version}
          /\ "central" \in job.line.components => Shows(job.config.central.spec)
          /\ "sensor" \in job.line.components => Shows(job.config.securedCluster.spec)

\* A deploy without settings of its own resolves to what the last deploy with a manifest resolved to: the
\* manifest is kept "for reproducibility purposes". A user's file comes on top of it.
RedeployKeepsConfig ==
    Deploying /\ job.stored # Unset /\ past.resolved # Unset
              /\ job.line.args = Nothing /\ host.user = Nothing
        => Resolution(job.config) = past.resolved

\* Variables that a deploy computes for its operators do not get into a later one: an image is chosen by the
\* configuration of this deploy, unless a variable for it was given.
OperandImagesAreCurrent ==
    Deploying => \A i \in Instances, n \in Images \ past.explicit :
                    OperandImage(PopulateOperatorEnvVars(i), n) = ConstructOperandImage(i, n)

\* A SecuredCluster never registers under a name that its Central has seen, through any deploys, teardowns
\* and manifests (unless the draw of a new name hits an old one, one in 9000), and one deployed by itself
\* talks to the Central it has registered with, also when that is not where the manifest's was.
SensorWiredAnew ==
    /\ ~past.reused
    /\ Deploying /\ job.pc = "manifest" /\ job.line.components = {"sensor"} /\ faults = 0
         => sensors[job.config.securedCluster.namespace].endpoint = job.endpoint

NeedsSecret(registry) ==
    /\ <<registry, "main">> \in host.private
    /\ registry # DefaultRegistry \/ NeedsDefaultRegistryPullSecrets(DetectClusterType(host.kube))

\* What a deploy has deployed can pull its images, wherever the credentials come from: if the cluster has
\* none for the registry, the namespace's pull secret opens it.
PodsCanPull ==
    Deploying /\ job.pc = "manifest" /\ faults = 0 /\ NeedsSecret(Registry)
        => /\ "central" \in job.line.components => Registry \in pullSecrets[job.config.central.namespace]
           /\ "sensor" \in job.line.components
                 => Registry \in pullSecrets[job.config.securedCluster.namespace]

\* Whether there have to be credentials is decided before anything is changed: no component is torn down and
\* then not deployed for want of them, even if the registry answers differently from one time to the next.
CredentialsDecidedOnce == ~past.late

\* Every image that an operator will deploy and that is here is on the node before, unless a variable names
\* the image.
PreloadCoversPlan ==
    Deploying /\ job.pc \in {"operators", "central", "sensor", "manifest"} /\ Preloads /\ faults = 0
        => {OperandImage(PopulateOperatorEnvVars(i), n) : i \in Instances, n \in Images \ past.explicit}
              \cap host.images \subseteq node

----------------------------------------------------------------------------
(* What the code's words promise and TLC refutes *)

\* "detects and wires endpoints automatically" (README.md:17): a SecuredCluster talks to the Central that it
\* has registered with, unless the user's settings name another endpoint.
SensorFindsCentral ==
    Deploying /\ job.pc = "manifest" /\ "sensor" \in job.line.components /\ faults = 0
        => sensors[job.config.securedCluster.namespace].endpoint = job.endpoint

\* "ensures the required operator instance(s) are deployed" (ensureOperatorDeployed): with the variables that
\* this deploy's images need.
OperatorsAsPlanned ==
    Deploying /\ job.pc = "manifest" /\ ~SkipsOperator
        => \A i \in Instances : operators[i.namespace].instance = PopulateOperatorEnvVars(i)

\* "Prepare and verify credentials early to fail fast": no operator is removed and then not deployed for want
\* of them.
FailsFast == [][EnsureOperator /\ job' = Idle => UNCHANGED operators]_vars
====
