---- MODULE Configuration ----
(* What a command makes of its settings: defaults, the manifest of an earlier deploy, the user's file and
   the command line are merged, completed and turned into operators, operand images and custom resources.
   There is no state here; DeployCommands has the commands that use it.

   A configuration maps sections to settings. A setting that is not a map holds Unset where the code has the
   empty string, a nil pointer or, for a resource profile, the enumeration's zero: the merge cannot tell an
   empty string or a zero from "not given". Namespaces, registries, images and flags are names; a tag has a
   release and may be dirty. *)
EXTENDS Integers, Sequences, SequencesExt

CONSTANTS Unset,             \* not given
          DefaultRegistry,   \* constants.DefaultRegistry
          Images,            \* the operand images, named like their RELATED_IMAGE_* variables
          PrinterColumns     \* the first release whose custom resources have the Available column

----------------------------------------------------------------------------
(* The settings *)

MapSettings == {"featureFlags", "envVars", "operandTagOverrides", "spec"}

NoInstanceSettings ==
    [version |-> Unset, operandTag |-> Unset, operandTagOverrides |-> << >>, envVars |-> << >>,
     konfluxImages |-> Unset]

Nothing ==
    [roxie           |-> [version |-> Unset, imageRegistry |-> Unset, konfluxImages |-> Unset,
                          featureFlags |-> << >>, clusterType |-> Unset, envrc |-> Unset],
     operator        |-> NoInstanceSettings,
     mode            |-> [skipDeployment |-> Unset, deployViaOlm |-> Unset],
     centralOperator |-> NoInstanceSettings,
     sensorOperator  |-> NoInstanceSettings,
     central         |-> [namespace |-> Unset, resourceProfile |-> Unset, exposure |-> Unset,
                          portForwarding |-> Unset, earlyReadiness |-> Unset, spec |-> << >>],
     securedCluster  |-> [namespace |-> Unset, resourceProfile |-> Unset, earlyReadiness |-> Unset,
                          spec |-> << >>]]

DefaultConfig ==
    [Nothing EXCEPT !.roxie.imageRegistry = DefaultRegistry,
                    !.central.namespace = "acs-central", !.central.earlyReadiness = TRUE,
                    !.securedCluster.namespace = "acs-sensor", !.securedCluster.earlyReadiness = TRUE]

\* f with the entries of g where it has none of its own
Over(f, g) == [x \in DOMAIN f \cup DOMAIN g |-> IF x \in DOMAIN f THEN f[x] ELSE g[x]]
Entry(k, v) == [x \in {k} |-> v]
FirstSet(a, b) == IF a = Unset THEN b ELSE a

\* mergo.Merge(base, patch, WithOverride, WithoutDereference): maps are merged by key
Patched(base, patch) ==
    [s \in DOMAIN base |->
        [f \in DOMAIN base[s] |-> IF f \in MapSettings THEN Over(patch[s][f], base[s][f])
                                                       ELSE FirstSet(patch[s][f], base[s][f])]]

DropBakedOperatorDefaultsMutant(c) == c

\* old manifests have the operator's version and image kind filled in from the roxie section
DropBakedOperatorDefaults(c) ==
    [c EXCEPT !.operator.version = IF @ = c.roxie.version THEN Unset ELSE @,
              !.operator.konfluxImages = IF @ = c.roxie.konfluxImages THEN Unset ELSE @]

AssembleConfigForCommandMutant(stored, user, args) == Patched(Patched(DefaultConfig, user), args)

\* stored is the manifest's configuration or Unset, user the user's file
AssembleConfigForCommand(stored, user, args) ==
    LET base == IF stored = Unset THEN DefaultConfig ELSE DropBakedOperatorDefaults(stored)
    IN  Patched(Patched(base, user), args)

RetrieveClusterConfigForComponentsMutant(stored, components) == stored

\* what a deploy takes from the manifest: cluster name and endpoint only together with a Central
RetrieveClusterConfigForComponents(stored, components) ==
    IF stored # Unset /\ components = {"sensor"}
    THEN [stored EXCEPT !.securedCluster.spec =
              [k \in DOMAIN @ \ {"clusterName", "centralEndpoint"} |-> @[k]]]
    ELSE stored

----------------------------------------------------------------------------
(* Completing the configuration of a deploy *)

IsLocal(t) == t \in {"Kind", "Minikube", "K3s", "CRC"}
IsOpenShift(t) == t \in {"InfraOpenShift4", "OpenShift4", "CRC"}
IsManaged(t) == t \in {"GKE", "InfraGKE", "AKS", "EKS"}
SupportsLoadBalancer(t) == IsManaged(t) \/ (IsOpenShift(t) /\ t # "CRC")
NeedsDefaultRegistryPullSecrets(t) == t # "InfraOpenShift4"

\* env.DetectClusterType, in its order. kube has the patterns that the context's name fits (none if there is
\* no context), the kind of server and whether it has the resources of OpenShift.
DetectClusterType(kube) ==
    LET rules == <<<<kube.context = {},                           "Unknown">>,
                   <<"gke_acs-team-temp-dev" \in kube.context,    "InfraGKE">>,
                   <<"gke_" \in kube.context,                     "GKE">>,
                   <<kube.server = "azmk8s.io",                   "AKS">>,
                   <<kube.server = "eks.amazonaws.com",           "EKS">>,
                   <<"minikube" \in kube.context,                 "Minikube">>,
                   <<kube.openShift /\ kube.server = "api.crc.testing",        "CRC">>,
                   <<kube.openShift /\ kube.server = "ocp.infra.rox.systems", "InfraOpenShift4">>,
                   <<kube.openShift,                              "OpenShift4">>,
                   <<"k3s" \in kube.context,                      "K3s">>,
                   <<"kind" \in kube.context,                     "Kind">>,
                   <<TRUE,                                        "Unknown">>>>
    IN  rules[SelectInSeq(rules, LAMBDA rule : rule[1])][2]

\* merged without override: only what is not given
ApplyClusterDefaults(c) ==
    LET t == c.roxie.clusterType
        Filled(e, p) == [c EXCEPT !.central.exposure = FirstSet(@, e),
                                  !.central.portForwarding = FirstSet(@, p)]
    IN  CASE IsLocal(t)              -> Filled("none", TRUE)
          [] SupportsLoadBalancer(t) -> Filled("loadbalancer", FALSE)
          [] OTHER                   -> c

\* acs-defaults is the zero of the profiles
ResolveAutoResourceProfile(profile, t) ==
    IF profile # "auto" THEN profile
    ELSE IF IsLocal(t) THEN "small"
    ELSE IF IsManaged(t) \/ IsOpenShift(t) THEN "medium"
    ELSE Unset

ApplySecuredClusterDefaults(c, name) ==
    [c EXCEPT !.securedCluster.spec = Over(@, Entry("clusterName", name))]

\* helpers.DeepMerge of featureFlagsToOverrides: a list of variables, appended
WithFeatureFlags(spec, flags) ==
    LET given == IF "envVars" \in DOMAIN spec THEN spec.envVars ELSE << >>
    IN  IF flags = << >> THEN spec
        ELSE Over(Entry("envVars", given \o SetToSeq({<<f, flags[f]>> : f \in DOMAIN flags})), spec)

ConfigureSpecs(c, components) ==
    LET flags == c.roxie.featureFlags
        endpoint == Entry("centralEndpoint", c.central.namespace)
        central == IF "central" \in components
                   THEN [c EXCEPT !.central.spec = WithFeatureFlags(@, flags)] ELSE c
    IN  IF "sensor" \in components
        THEN [central EXCEPT !.securedCluster.spec = Over(WithFeatureFlags(@, flags), endpoint)]
        ELSE central

ExposureEnabled(c) == c.central.exposure \notin {Unset, "none"}

\* the order of the code: cluster type, its defaults, profiles, specs, port-forwarding
ConfigureConfig(c, components, detected) ==
    LET typed == [c EXCEPT !.roxie.clusterType = FirstSet(@, detected)]
        defaulted == ApplyClusterDefaults(typed)
        t == typed.roxie.clusterType
        profiled == [defaulted EXCEPT
                        !.central.resourceProfile = ResolveAutoResourceProfile(@, t),
                        !.securedCluster.resourceProfile = ResolveAutoResourceProfile(@, t)]
        specified == ConfigureSpecs(profiled, components)
    IN  IF specified.central.portForwarding = Unset /\ ~ExposureEnabled(specified)
        THEN [specified EXCEPT !.central.portForwarding = TRUE]
        ELSE specified

----------------------------------------------------------------------------
(* Versions, operators and operand images *)

Enabled(setting) == setting = TRUE
UsesCustomRegistry(c) == c.roxie.imageRegistry # DefaultRegistry

CentralVersion(c) == FirstSet(c.centralOperator.version, FirstSet(c.operator.version, c.roxie.version))
SecuredClusterVersion(c) ==
    FirstSet(c.sensorOperator.version, FirstSet(c.operator.version, c.roxie.version))
HasMixedVersions(c) == CentralVersion(c) # SecuredClusterVersion(c)
ToOperatorTag(tag) == [tag EXCEPT !.dirty = FALSE]

ResolveKonfluxImages(c, own) ==
    FirstSet(own.konfluxImages, FirstSet(c.operator.konfluxImages, c.roxie.konfluxImages))

Instance(c, namespace, version, own, envVars) ==
    [namespace |-> namespace, version |-> version, konflux |-> Enabled(ResolveKonfluxImages(c, own)),
     operandTag |-> own.operandTag, operandTagOverrides |-> own.operandTagOverrides,
     registry |-> c.roxie.imageRegistry, envVars |-> envVars]

OperatorInstances(c) ==
    IF HasMixedVersions(c)
    THEN <<Instance(c, "rhacs-operator-central", CentralVersion(c), c.centralOperator,
                    Over(Entry("SECURED_CLUSTER_RECONCILER_ENABLED", "false"), c.centralOperator.envVars)),
           Instance(c, "rhacs-operator-sensor", SecuredClusterVersion(c), c.sensorOperator,
                    Over(Entry("CENTRAL_RECONCILER_ENABLED", "false"), c.sensorOperator.envVars))>>
    ELSE <<Instance(c, "rhacs-operator-system", CentralVersion(c), c.operator, c.operator.envVars)>>

\* Konflux builds are only in the default registry, and under the operator's form of the tag
ImageRef(instance, name, tag) ==
    IF instance.konflux
    THEN [registry |-> DefaultRegistry, konflux |-> TRUE, name |-> name, tag |-> ToOperatorTag(tag)]
    ELSE [registry |-> instance.registry, konflux |-> FALSE, name |-> name, tag |-> tag]

ConstructOperandImage(instance, name) ==
    LET own == instance.operandTagOverrides
    IN  ImageRef(instance, name, IF name \in DOMAIN own THEN own[name]
                                 ELSE FirstSet(instance.operandTag, instance.version))

OperatorImage(instance) ==
    [registry |-> instance.registry, konflux |-> instance.konflux, name |-> "operator",
     tag |-> ToOperatorTag(instance.version)]

\* variables for the images that the operator would not take by itself; given ones stay
PopulateOperatorEnvVars(instance) ==
    LET needed == {i \in Images : \/ instance.konflux
                                  \/ ConstructOperandImage(instance, i)
                                       # ImageRef(instance, i, instance.version)}
    IN  [instance EXCEPT !.envVars = Over(@, [i \in needed |-> ConstructOperandImage(instance, i)])]

\* what a populated operator deploys
OperandImage(instance, name) ==
    IF name \in DOMAIN instance.envVars THEN instance.envVars[name]
    ELSE ImageRef(instance, name, instance.version)

ImagesForConfigMutant(c) ==
    UNION {{ImageRef(i, n, i.version) : n \in Images} \cup {OperatorImage(i)} : i \in Range(OperatorInstances(c))}

\* imagesForConfig: what is preloaded, computed before the variables are populated
ImagesForConfig(c) ==
    UNION {{ConstructOperandImage(i, n) : n \in Images} \cup {OperatorImage(i)}
              : i \in Range(OperatorInstances(c))}

----------------------------------------------------------------------------
(* Refusals *)

SupportsAdditionalPrinterColumns(tag) == ToOperatorTag(tag).release >= PrinterColumns

\* place: in a subshell of roxie, with a controlling terminal, in the container with roxie's image
DeployValidate(c, components, place) ==
    LET olm == Enabled(c.mode.deployViaOlm)
    IN  /\ "central" \in components => ~place.shell /\ (place.terminal \/ c.roxie.envrc # Unset)
        /\ place.container => ~Enabled(c.central.portForwarding) /\ ExposureEnabled(c)
        /\ olm => /\ ~Enabled(c.mode.skipDeployment)
                  /\ ~UsesCustomRegistry(c)
                  /\ ~Enabled(c.roxie.konfluxImages)
                  /\ ~HasMixedVersions(c)
        /\ Enabled(c.roxie.konfluxImages) => ~UsesCustomRegistry(c)
        /\ "central" \in components /\ ~Enabled(c.central.earlyReadiness)
              => SupportsAdditionalPrinterColumns(CentralVersion(c))
        /\ "sensor" \in components /\ ~Enabled(c.securedCluster.earlyReadiness)
              => SupportsAdditionalPrinterColumns(SecuredClusterVersion(c))
====
