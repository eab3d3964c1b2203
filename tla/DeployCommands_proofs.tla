---- MODULE DeployCommands_proofs ----
(* What holds over any sequence of deploys and teardowns, for any command lines, hosts, manifests and numbers
   of commands and faults: credentials are decided once, pull secrets open what is deployed, images are sent
   before they are needed, what one deploy computes does not get into the next, a manifest reproduces its
   deploy, a line rules over the manifest, and a SecuredCluster is wired to its Central under a new name.

   Known is the inductive invariant beneath all of this: what a deploy remembers (Decided), which command is
   running (Jobs) and where the variables of a configuration come from (Explained). The theorems add to it
   what they need and name what they assume of lines, hosts and manifests. *)
EXTENDS DeployCommands, SequenceTheorems, FiniteSetTheorems, TLAPS

Main == MainRepository(job.config)

JobFields == {"pc", "line", "stored", "config", "probed", "creds", "instance", "endpoint"}
PastFields == {"pinned", "explicit", "resolved", "reused", "late"}

\* What the records of a running deploy and of the history hold.
Shape == /\ "pc" \in DOMAIN job
         /\ job.pc \in {"container", "images", "credentials", "operators", "central", "sensor", "manifest"}
               => DOMAIN job = JobFields
         /\ DOMAIN past = PastFields

\* Once the credentials are prepared, the answer about the main repository is remembered, and credentials are
\* at hand if it makes pull secrets necessary.
Prepared == job.pc \in {"operators", "central", "sensor"} =>
                /\ Main \in DOMAIN job.probed
                /\ NeedsPullSecrets(job.config, job.probed[Main]) => job.creds # Refused

Decided == Shape /\ Prepared /\ past.late = FALSE

----------------------------------------------------------------------------
(* What a deploy remembers about repositories *)

\* An answer is remembered as it was given (the end of repoRequiresAuth).
LEMMA AnswerRemembered ==
    ASSUME NEW probe \in MainProbes
    PROVE  Main \in DOMAIN Probed(Main, probe[1]) /\ Probed(Main, probe[1])[Main] = probe[1]
<1>1. CASE Main \in DOMAIN job.probed
  <2>1. probe = <<job.probed[Main], 0>>
    BY <1>1 DEF MainProbes, RepoRequiresAuth, Main
  <2> QED BY <1>1, <2>1 DEF Probed, Over, Entry
<1>2. CASE Main \notin DOMAIN job.probed
  BY <1>2 DEF Probed, Over, Entry
<1> QED BY <1>1, <1>2

\* A remembered answer stays (the start of repoRequiresAuth).
LEMMA AnswerStays ==
    ASSUME NEW r \in DOMAIN job.probed, NEW q, NEW a
    PROVE  r \in DOMAIN Probed(q, a) /\ Probed(q, a)[r] = job.probed[r]
BY DEF Probed, Over, Entry

\* A prepared deploy that needs credentials has them.
LEMMA NeverWithout ==
    ASSUME Prepared, job.pc \in {"operators", "central", "sensor"}, NEW probe \in MainProbes,
           NeedsPullSecrets(job.config, probe[1])
    PROVE  job.creds # Refused
<1>1. Main \in DOMAIN job.probed /\ (NeedsPullSecrets(job.config, job.probed[Main]) => job.creds # Refused)
  BY DEF Prepared
<1>2. probe[1] = job.probed[Main]
  BY <1>1 DEF MainProbes, RepoRequiresAuth, Main
<1> QED BY <1>1, <1>2

----------------------------------------------------------------------------

LEMMA DecidedInit == Init => Decided
BY DEF Init, Decided, Shape, Prepared, Idle, NoPast, PastFields

LEMMA DecidedNext == Decided /\ [Next]_vars => Decided'
<1> SUFFICES ASSUME Decided, [Next]_vars PROVE Decided'
  OBVIOUS
<1> USE DEF Decided, Shape
<1>1. ASSUME NEW line \in Lines, BeginDeploy(line) PROVE Decided'
  <2>1. \/ UNCHANGED <<job, past>>
        \/ /\ \E stored, config : job' = [pc |-> "container", line |-> line, stored |-> stored,
                                          config |-> config, probed |-> << >>, creds |-> Refused,
                                          instance |-> 1, endpoint |-> terminal]
           /\ past' = Remember(line)
    BY <1>1 DEF BeginDeploy
  <2>2. job.pc = "idle"
    BY <1>1 DEF BeginDeploy, Idle
  <2>3. CASE UNCHANGED <<job, past>>
    BY <2>2, <2>3 DEF Prepared
  <2>4. CASE /\ \E stored, config : job' = [pc |-> "container", line |-> line, stored |-> stored,
                                           config |-> config, probed |-> << >>, creds |-> Refused,
                                           instance |-> 1, endpoint |-> terminal]
             /\ past' = Remember(line)
    <3>1. DOMAIN past' = PastFields /\ past'.late = FALSE
      <4>1. DOMAIN past = PastFields /\ past.late = FALSE
        OBVIOUS
      <4> QED BY <2>4, <4>1 DEF Remember, PastFields
    <3>2. job'.pc = "container" /\ DOMAIN job' = JobFields
      BY <2>4 DEF JobFields
    <3> QED BY <3>1, <3>2 DEF Prepared, JobFields
  <2> QED BY <2>1, <2>3, <2>4
<1>2. ASSUME NEW line \in Lines, BeginTeardown(line) PROVE Decided'
  BY <1>2 DEF BeginTeardown, Prepared, JobFields, PastFields
<1>3. CASE CheckContainer
  <2>1. UNCHANGED past /\ DOMAIN job = JobFields
    BY <1>3 DEF CheckContainer
  <2>2. \/ job' = Idle
        \/ \E probed : job' = [job EXCEPT !.pc = "images", !.probed = probed]
        \/ job' = [job EXCEPT !.pc = "images"]
    BY <1>3 DEF CheckContainer
  <2>3. CASE job' = Idle
    BY <2>1, <2>3 DEF Idle, Prepared
  <2>4. CASE job' # Idle
    <3>1. job'.pc = "images" /\ DOMAIN job' = JobFields
      BY <2>1, <2>2, <2>4 DEF JobFields
    <3> QED BY <2>1, <3>1 DEF Prepared, JobFields
  <2> QED BY <2>3, <2>4
<1>4. CASE TryTransferLocalImages
  BY <1>4 DEF TryTransferLocalImages, Prepared, JobFields, PastFields
<1>5. CASE PrepareCredentials
  <2>1. PICK probe \in MainProbes :
          LET needed == NeedsPullSecrets(job.config, probe[1])
              found == GetAndVerifyCredentials(host.login, Registry, host.hostOf[Registry])
          IN  job' = IF needed /\ found = Refused THEN Idle
                     ELSE [job EXCEPT !.pc = "operators",
                                      !.probed = Probed(MainRepository(job.config), probe[1]),
                                      !.creds = IF needed THEN found ELSE Refused]
    BY <1>5 DEF PrepareCredentials
  <2>2. UNCHANGED past /\ DOMAIN job = JobFields
    BY <1>5 DEF PrepareCredentials
  <2>3. CASE job' = Idle
    BY <2>2, <2>3 DEF Idle, Prepared
  <2>4. CASE job' # Idle
    <3>1. /\ job'.pc = "operators" /\ job'.config = job.config /\ DOMAIN job' = JobFields
          /\ job'.probed = Probed(Main, probe[1])
          /\ NeedsPullSecrets(job.config, probe[1]) => job'.creds # Refused
      BY <2>1, <2>2, <2>4 DEF JobFields, Main
    <3>2. Main' = Main
      BY <3>1 DEF Main
    <3>3. Main \in DOMAIN job'.probed /\ job'.probed[Main] = probe[1]
      BY <3>1, AnswerRemembered
    <3> QED BY <2>2, <3>1, <3>2, <3>3 DEF Prepared, JobFields
  <2> QED BY <2>3, <2>4
<1>6. CASE EnsureOperator
  <2>1. UNCHANGED past /\ DOMAIN job = JobFields /\ job.pc = "operators"
    BY <1>6 DEF EnsureOperator
  <2>2. \/ job' = Idle
        \/ job' = [job EXCEPT !.instance = @ + 1]
        \/ \E q, a : job' = [[job EXCEPT !.instance = @ + 1] EXCEPT !.probed = Probed(q, a)]
    BY <1>6 DEF EnsureOperator
  <2>3. CASE job' = Idle
    BY <2>1, <2>3 DEF Idle, Prepared
  <2>4. CASE job' = [job EXCEPT !.instance = @ + 1]
    BY <2>1, <2>4 DEF Prepared, JobFields, Main
  <2>5. ASSUME NEW q, NEW a, job' = [[job EXCEPT !.instance = @ + 1] EXCEPT !.probed = Probed(q, a)]
        PROVE  Decided'
    <3>1. /\ job'.pc = "operators" /\ job'.config = job.config /\ DOMAIN job' = JobFields
          /\ job'.probed = Probed(q, a) /\ job'.creds = job.creds
      BY <2>1, <2>5 DEF JobFields
    <3>2. Main' = Main
      BY <3>1 DEF Main
    <3>3. Main \in DOMAIN job'.probed /\ job'.probed[Main] = job.probed[Main]
      BY <2>1, <3>1, AnswerStays DEF Prepared
    <3> QED BY <2>1, <3>1, <3>2, <3>3 DEF Prepared, JobFields
  <2> QED BY <2>2, <2>3, <2>4, <2>5
<1>7. CASE OperatorsDeployed
  BY <1>7 DEF OperatorsDeployed, Prepared, JobFields, Main
<1>8. CASE DeployCentral
  <2>1. DOMAIN job = JobFields /\ job.pc = "central"
    BY <1>8 DEF DeployCentral
  <2>2. UNCHANGED past /\ \E n : job' = [job EXCEPT !.pc = "sensor", !.endpoint = n]
    BY <1>8, <2>1, NeverWithout DEF DeployCentral
  <2> QED BY <2>1, <2>2 DEF Prepared, JobFields, Main
<1>9. CASE SkipCentral
  BY <1>9 DEF SkipCentral, Prepared, JobFields, Main
<1>10. CASE DeploySecuredCluster
  <2>1. DOMAIN job = JobFields /\ job.pc = "sensor"
    BY <1>10 DEF DeploySecuredCluster
  <2>2. /\ job' = Idle \/ job' = [job EXCEPT !.pc = "manifest"]
        /\ DOMAIN past' = PastFields /\ past'.late = FALSE
    BY <1>10, <2>1, NeverWithout DEF DeploySecuredCluster, PastFields
  <2> QED BY <2>1, <2>2 DEF Prepared, JobFields, Idle
<1>11. CASE SkipSecuredCluster
  BY <1>11 DEF SkipSecuredCluster, Prepared, JobFields
<1>12. CASE CreateManifestSecretOnCluster
  BY <1>12 DEF CreateManifestSecretOnCluster, Prepared, Idle, PastFields
<1>13. CASE Teardown
  BY <1>13 DEF Teardown, Prepared
<1>14. CASE DeleteManifestSecret
  BY <1>14 DEF DeleteManifestSecret, Prepared, Idle, NoPast, PastFields
<1>15. CASE Abort
  BY <1>15 DEF Abort, Prepared, Idle
<1>16. CASE UNCHANGED vars
  BY <1>16 DEF vars, Prepared, Main
<1> QED
  BY <1>1, <1>2, <1>3, <1>4, <1>5, <1>6, <1>7, <1>8, <1>9, <1>10, <1>11, <1>12, <1>13, <1>14, <1>15, <1>16
     DEF Next

\* The inductive invariant: a prepared deploy remembers whether it needs credentials, and has them if so.
THEOREM DecidedAlways == Spec => []Decided
<1> QED BY DecidedInit, DecidedNext, PTL DEF Spec

\* No component is torn down and then not deployed for want of credentials, whatever the registry answers
\* from one question to the next (repoRequiresAuth, Deploy).
THEOREM DecidedOnce == Spec => []CredentialsDecidedOnce
<1>1. Decided => CredentialsDecidedOnce
  BY DEF Decided, CredentialsDecidedOnce
<1> QED BY <1>1, DecidedAlways, PTL

----------------------------------------------------------------------------
(* Configurations *)

OperatorSections == {"operator", "centralOperator", "sensorOperator"}
Sections == OperatorSections \cup {"roxie", "mode", "central", "securedCluster"}
InstanceSettings == {"version", "operandTag", "operandTagOverrides", "envVars", "konfluxImages"}
SettingsOf(s) ==
    CASE s \in OperatorSections -> InstanceSettings
      [] s = "roxie" -> {"version", "imageRegistry", "konfluxImages", "featureFlags", "clusterType", "envrc"}
      [] s = "mode" -> {"skipDeployment", "deployViaOlm"}
      [] s = "central" -> {"namespace", "resourceProfile", "exposure", "portForwarding", "earlyReadiness", "spec"}
      [] OTHER -> {"namespace", "resourceProfile", "earlyReadiness", "spec"}

\* A configuration has its sections, and these have their settings.
IsConfig(c) == DOMAIN c = Sections /\ \A s \in Sections : DOMAIN c[s] = SettingsOf(s)

With(c, s, f, v) == [c EXCEPT ![s] = [c[s] EXCEPT ![f] = v]]

\* To change a setting leaves the others alone.
LEMMA OneSetting ==
    ASSUME NEW c, IsConfig(c), NEW s \in Sections, NEW f \in SettingsOf(s), NEW v
    PROVE  /\ IsConfig(With(c, s, f, v)) /\ With(c, s, f, v)[s][f] = v
           /\ \A t \in Sections : t # s => With(c, s, f, v)[t] = c[t]
           /\ \A g \in SettingsOf(s) : g # f => With(c, s, f, v)[s][g] = c[s][g]
<1> DEFINE d == With(c, s, f, v)
<1>1. DOMAIN d = Sections /\ d[s] = [c[s] EXCEPT ![f] = v] /\ \A t \in Sections : t # s => d[t] = c[t]
  BY DEF IsConfig, With
<1> HIDE DEF d
<1>2. DOMAIN c[s] = SettingsOf(s)
  BY DEF IsConfig
<1>3. DOMAIN d[s] = SettingsOf(s) /\ d[s][f] = v /\ \A g \in SettingsOf(s) : g # f => d[s][g] = c[s][g]
  BY <1>1, <1>2
<1>4. \A t \in Sections : DOMAIN d[t] = SettingsOf(t)
  BY <1>1, <1>3 DEF IsConfig
<1> QED BY <1>1, <1>3, <1>4 DEF IsConfig, d

\* The settings by their names.
LEMMA SettingNames ==
    /\ \A s \in OperatorSections : s \in Sections /\ SettingsOf(s) = InstanceSettings
    /\ "roxie" \in Sections /\ "mode" \in Sections /\ "central" \in Sections /\ "securedCluster" \in Sections
    /\ SettingsOf("roxie") = {"version", "imageRegistry", "konfluxImages", "featureFlags", "clusterType", "envrc"}
    /\ SettingsOf("mode") = {"skipDeployment", "deployViaOlm"}
    /\ SettingsOf("central") = {"namespace", "resourceProfile", "exposure", "portForwarding", "earlyReadiness", "spec"}
    /\ SettingsOf("securedCluster") = {"namespace", "resourceProfile", "earlyReadiness", "spec"}
BY DEF Sections, OperatorSections, SettingsOf

\* The built-in configurations are configurations.
LEMMA DefaultIsConfig == IsConfig(Nothing) /\ IsConfig(DefaultConfig)
<1>1. IsConfig(Nothing)
  <2>1. DOMAIN Nothing = Sections
    BY DEF Nothing, Sections, OperatorSections
  <2>2. \A s \in OperatorSections : DOMAIN Nothing[s] = InstanceSettings
    BY DEF Nothing, NoInstanceSettings, OperatorSections, InstanceSettings
  <2>3. /\ DOMAIN Nothing["roxie"] = SettingsOf("roxie") /\ DOMAIN Nothing["mode"] = SettingsOf("mode")
        /\ DOMAIN Nothing["central"] = SettingsOf("central")
        /\ DOMAIN Nothing["securedCluster"] = SettingsOf("securedCluster")
    BY SettingNames DEF Nothing
  <2> QED BY <2>1, <2>2, <2>3, SettingNames DEF IsConfig, Sections
<1>2. DOMAIN DefaultConfig = Sections /\ \A s \in Sections : DOMAIN DefaultConfig[s] = DOMAIN Nothing[s]
  BY <1>1 DEF DefaultConfig, IsConfig
<1> QED BY <1>1, <1>2 DEF IsConfig

\* A merge sets what its patch gives, maps key by key.
LEMMA PatchedSettings ==
    ASSUME NEW base, IsConfig(base), NEW patch
    PROVE  /\ IsConfig(Patched(base, patch))
           /\ \A s \in Sections : \A f \in SettingsOf(s) :
                Patched(base, patch)[s][f] = IF f \in MapSettings THEN Over(patch[s][f], base[s][f])
                                                                  ELSE FirstSet(patch[s][f], base[s][f])
BY DEF Patched, IsConfig

\* What the completion of a configuration makes of exposure and port forwarding.
ExposureFor(t, exposure) == IF IsLocal(t) THEN FirstSet(exposure, "none")
                            ELSE IF SupportsLoadBalancer(t) THEN FirstSet(exposure, "loadbalancer")
                            ELSE exposure
ForwardingFor(t, forwarding) == IF IsLocal(t) THEN FirstSet(forwarding, TRUE)
                                ELSE IF SupportsLoadBalancer(t) THEN FirstSet(forwarding, FALSE)
                                ELSE forwarding

\* The defaults of a cluster type are about how Central is reached.
LEMMA ClusterDefaults ==
    ASSUME NEW c, IsConfig(c), NEW d, d = ApplyClusterDefaults(c), NEW t, t = c.roxie.clusterType
    PROVE  /\ IsConfig(d)
           /\ \A s \in Sections : s # "central" => d[s] = c[s]
           /\ \A f \in SettingsOf("central") : f \notin {"exposure", "portForwarding"} => d.central[f] = c.central[f]
           /\ d.central.exposure = ExposureFor(t, c.central.exposure)
           /\ d.central.portForwarding = ForwardingFor(t, c.central.portForwarding)
<1> DEFINE Filled(e, p) == [c EXCEPT !.central.exposure = FirstSet(@, e), !.central.portForwarding = FirstSet(@, p)]
<1> DEFINE Goal == /\ IsConfig(d)
                   /\ \A s \in Sections : s # "central" => d[s] = c[s]
                   /\ \A f \in SettingsOf("central") : f \notin {"exposure", "portForwarding"}
                        => d.central[f] = c.central[f]
                   /\ d.central.exposure = ExposureFor(t, c.central.exposure)
                   /\ d.central.portForwarding = ForwardingFor(t, c.central.portForwarding)
<1>1. ASSUME NEW e, NEW p, d = Filled(e, p), ExposureFor(t, c.central.exposure) = FirstSet(c.central.exposure, e),
             ForwardingFor(t, c.central.portForwarding) = FirstSet(c.central.portForwarding, p)
      PROVE  Goal
  <2> DEFINE a == With(c, "central", "exposure", FirstSet(c.central.exposure, e))
  <2>1. /\ IsConfig(a) /\ \A s \in Sections : s # "central" => a[s] = c[s]
        /\ a.central.exposure = FirstSet(c.central.exposure, e)
        /\ \A g \in SettingsOf("central") : g # "exposure" => a.central[g] = c.central[g]
    BY OneSetting, SettingNames
  <2>2. a.central.portForwarding = c.central.portForwarding
    BY <2>1, SettingNames
  <2> DEFINE b == With(a, "central", "portForwarding", FirstSet(c.central.portForwarding, p))
  <2> HIDE DEF a
  <2>3. /\ IsConfig(b) /\ \A s \in Sections : s # "central" => b[s] = a[s]
        /\ b.central.portForwarding = FirstSet(c.central.portForwarding, p)
        /\ \A g \in SettingsOf("central") : g # "portForwarding" => b.central[g] = a.central[g]
    BY <2>1, OneSetting, SettingNames
  <2>4. Filled(e, p) = b
    BY <2>2 DEF a, With
  <2> HIDE DEF b, Filled
  <2> QED BY <1>1, <2>1, <2>3, <2>4, SettingNames
<1>2. ASSUME IsLocal(t) PROVE Goal
  <2>0. ~SupportsLoadBalancer(t)
    BY <1>2 DEF IsLocal, SupportsLoadBalancer, IsManaged, IsOpenShift
  <2>1. d = Filled("none", TRUE)
    BY <1>2, <2>0 DEF ApplyClusterDefaults
  <2> HIDE DEF Filled, Goal
  <2>2. ExposureFor(t, c.central.exposure) = FirstSet(c.central.exposure, "none")
    BY <1>2 DEF ExposureFor
  <2>3. ForwardingFor(t, c.central.portForwarding) = FirstSet(c.central.portForwarding, TRUE)
    BY <1>2 DEF ForwardingFor
  <2> QED BY <1>1, <2>1, <2>2, <2>3, Zenon
<1>3. ASSUME ~IsLocal(t), SupportsLoadBalancer(t) PROVE Goal
  <2>1. d = Filled("loadbalancer", FALSE)
    BY <1>3 DEF ApplyClusterDefaults
  <2> HIDE DEF Filled, Goal
  <2>2. ExposureFor(t, c.central.exposure) = FirstSet(c.central.exposure, "loadbalancer")
    BY <1>3 DEF ExposureFor
  <2>3. ForwardingFor(t, c.central.portForwarding) = FirstSet(c.central.portForwarding, FALSE)
    BY <1>3 DEF ForwardingFor
  <2> QED BY <1>1, <2>1, <2>2, <2>3, Zenon
<1>4. ASSUME ~IsLocal(t), ~SupportsLoadBalancer(t) PROVE Goal
  BY <1>4 DEF ApplyClusterDefaults, ExposureFor, ForwardingFor
<1> QED BY <1>2, <1>3, <1>4

\* The custom resources of the components to deploy get flags and endpoint.
LEMMA SpecsConfigured ==
    ASSUME NEW c, IsConfig(c), NEW components, NEW d, d = ConfigureSpecs(c, components)
    PROVE  /\ IsConfig(d)
           /\ \A s \in Sections : s \notin {"central", "securedCluster"} => d[s] = c[s]
           /\ \A f \in SettingsOf("central") : f # "spec" => d.central[f] = c.central[f]
           /\ \A f \in SettingsOf("securedCluster") : f # "spec" => d.securedCluster[f] = c.securedCluster[f]
           /\ d.central.spec = IF "central" \in components
                               THEN WithFeatureFlags(c.central.spec, c.roxie.featureFlags) ELSE c.central.spec
           /\ d.securedCluster.spec = IF "sensor" \in components
                                      THEN Over(WithFeatureFlags(c.securedCluster.spec, c.roxie.featureFlags),
                                                Entry("centralEndpoint", c.central.namespace))
                                      ELSE c.securedCluster.spec
<1> DEFINE flags == c.roxie.featureFlags
           endpoint == Entry("centralEndpoint", c.central.namespace)
           a == IF "central" \in components
                THEN With(c, "central", "spec", WithFeatureFlags(c.central.spec, flags))
                ELSE c
           b == IF "sensor" \in components
                THEN With(a, "securedCluster", "spec",
                          Over(WithFeatureFlags(a.securedCluster.spec, flags), endpoint))
                ELSE a
<1>1. d = b
  BY DEF ConfigureSpecs, With
<1>2. /\ IsConfig(a) /\ \A s \in Sections : s # "central" => a[s] = c[s]
      /\ a.central.spec = (IF "central" \in components THEN WithFeatureFlags(c.central.spec, flags) ELSE c.central.spec)
      /\ \A g \in SettingsOf("central") : g # "spec" => a.central[g] = c.central[g]
  BY OneSetting, SettingNames
<1> HIDE DEF a, flags, endpoint
<1>3. /\ IsConfig(b) /\ \A s \in Sections : s # "securedCluster" => b[s] = a[s]
      /\ b.securedCluster.spec = (IF "sensor" \in components
                                  THEN Over(WithFeatureFlags(a.securedCluster.spec, flags), endpoint)
                                  ELSE a.securedCluster.spec)
      /\ \A g \in SettingsOf("securedCluster") : g # "spec" => b.securedCluster[g] = a.securedCluster[g]
  BY <1>2, OneSetting, SettingNames
<1> HIDE DEF b
<1>4. a.securedCluster = c.securedCluster /\ b.central = a.central
  BY <1>2, <1>3, SettingNames
<1>5. \A s \in Sections : s \notin {"central", "securedCluster"} => b[s] = c[s]
  BY <1>2, <1>3
<1> QED BY <1>1, <1>2, <1>3, <1>4, <1>5 DEF flags, endpoint

\* Completing a configuration sets its cluster type, how Central is reached, the profiles and the custom
\* resources, and nothing else (configureConfig).
Completed(c, components, detected, d) ==
    LET t == FirstSet(c.roxie.clusterType, detected)
        exposure == ExposureFor(t, c.central.exposure)
        forwarding == ForwardingFor(t, c.central.portForwarding)
        flags == c.roxie.featureFlags
    IN  /\ IsConfig(d)
        /\ \A s \in OperatorSections \cup {"mode"} : d[s] = c[s]
        /\ \A f \in SettingsOf("roxie") : f # "clusterType" => d.roxie[f] = c.roxie[f]
        /\ d.roxie.clusterType = t
        /\ d.central.namespace = c.central.namespace /\ d.central.earlyReadiness = c.central.earlyReadiness
        /\ d.central.resourceProfile = ResolveAutoResourceProfile(c.central.resourceProfile, t)
        /\ d.central.exposure = exposure
        /\ d.central.portForwarding = IF forwarding = Unset /\ exposure \in {Unset, "none"} THEN TRUE ELSE forwarding
        /\ d.central.spec = IF "central" \in components THEN WithFeatureFlags(c.central.spec, flags)
                            ELSE c.central.spec
        /\ d.securedCluster.namespace = c.securedCluster.namespace
        /\ d.securedCluster.earlyReadiness = c.securedCluster.earlyReadiness
        /\ d.securedCluster.resourceProfile = ResolveAutoResourceProfile(c.securedCluster.resourceProfile, t)
        /\ d.securedCluster.spec = IF "sensor" \in components
                                   THEN Over(WithFeatureFlags(c.securedCluster.spec, flags),
                                             Entry("centralEndpoint", c.central.namespace))
                                   ELSE c.securedCluster.spec

LEMMA ConfigurationCompleted ==
    ASSUME NEW c, IsConfig(c), NEW components, NEW detected
    PROVE  Completed(c, components, detected, ConfigureConfig(c, components, detected))
<1> DEFINE t == FirstSet(c.roxie.clusterType, detected)
           typed == With(c, "roxie", "clusterType", t)
           defaulted == ApplyClusterDefaults(typed)
           half == With(defaulted, "central", "resourceProfile",
                        ResolveAutoResourceProfile(defaulted.central.resourceProfile, t))
           profiled == With(half, "securedCluster", "resourceProfile",
                            ResolveAutoResourceProfile(half.securedCluster.resourceProfile, t))
           specified == ConfigureSpecs(profiled, components)
           d == IF specified.central.portForwarding = Unset /\ ~ExposureEnabled(specified)
                THEN With(specified, "central", "portForwarding", TRUE) ELSE specified
<1>1. /\ IsConfig(typed) /\ typed.roxie.clusterType = t
      /\ \A s \in Sections : s # "roxie" => typed[s] = c[s]
      /\ \A f \in SettingsOf("roxie") : f # "clusterType" => typed.roxie[f] = c.roxie[f]
  BY OneSetting, SettingNames
<1>2. /\ IsConfig(defaulted) /\ \A s \in Sections : s # "central" => defaulted[s] = typed[s]
      /\ \A f \in SettingsOf("central") : f \notin {"exposure", "portForwarding"}
           => defaulted.central[f] = typed.central[f]
      /\ defaulted.central.exposure = ExposureFor(t, typed.central.exposure)
      /\ defaulted.central.portForwarding = ForwardingFor(t, typed.central.portForwarding)
  <2> HIDE DEF typed, t
  <2> QED BY <1>1, ClusterDefaults
<1>3. /\ IsConfig(half) /\ \A s \in Sections : s # "central" => half[s] = defaulted[s]
      /\ half.central.resourceProfile = ResolveAutoResourceProfile(defaulted.central.resourceProfile, t)
      /\ \A f \in SettingsOf("central") : f # "resourceProfile" => half.central[f] = defaulted.central[f]
  <2> HIDE DEF defaulted, t
  <2> QED BY <1>2, OneSetting, SettingNames
<1>4. /\ IsConfig(profiled) /\ \A s \in Sections : s # "securedCluster" => profiled[s] = half[s]
      /\ profiled.securedCluster.resourceProfile = ResolveAutoResourceProfile(half.securedCluster.resourceProfile, t)
      /\ \A f \in SettingsOf("securedCluster") : f # "resourceProfile"
           => profiled.securedCluster[f] = half.securedCluster[f]
  <2> HIDE DEF half, t
  <2> QED BY <1>3, OneSetting, SettingNames
<1>5. /\ IsConfig(specified) /\ \A s \in Sections : s \notin {"central", "securedCluster"} => specified[s] = profiled[s]
      /\ \A f \in SettingsOf("central") : f # "spec" => specified.central[f] = profiled.central[f]
      /\ \A f \in SettingsOf("securedCluster") : f # "spec" => specified.securedCluster[f] = profiled.securedCluster[f]
      /\ specified.central.spec = (IF "central" \in components
                                   THEN WithFeatureFlags(profiled.central.spec, profiled.roxie.featureFlags)
                                   ELSE profiled.central.spec)
      /\ specified.securedCluster.spec =
           (IF "sensor" \in components
            THEN Over(WithFeatureFlags(profiled.securedCluster.spec, profiled.roxie.featureFlags),
                      Entry("centralEndpoint", profiled.central.namespace))
            ELSE profiled.securedCluster.spec)
  <2> HIDE DEF profiled
  <2> QED BY <1>4, SpecsConfigured
<1>6. /\ IsConfig(d) /\ \A s \in Sections : s # "central" => d[s] = specified[s]
      /\ \A f \in SettingsOf("central") : f # "portForwarding" => d.central[f] = specified.central[f]
      /\ d.central.portForwarding = IF specified.central.portForwarding = Unset /\ ~ExposureEnabled(specified)
                                    THEN TRUE ELSE specified.central.portForwarding
  <2> HIDE DEF specified
  <2>0. IsConfig(specified)
    BY <1>5
  <2> DEFINE e == With(specified, "central", "portForwarding", TRUE)
  <2>1. "central" \in Sections /\ "portForwarding" \in SettingsOf("central")
    BY SettingNames
  <2>2. /\ IsConfig(e) /\ e["central"]["portForwarding"] = TRUE
        /\ \A s \in Sections : s # "central" => e[s] = specified[s]
        /\ \A f \in SettingsOf("central") : f # "portForwarding" => e["central"][f] = specified["central"][f]
    <3>1. ASSUME NEW v
          PROVE  LET g == With(specified, "central", "portForwarding", v)
                 IN  /\ IsConfig(g) /\ g["central"]["portForwarding"] = v
                     /\ \A s \in Sections : s # "central" => g[s] = specified[s]
                     /\ \A f \in SettingsOf("central") : f # "portForwarding"
                          => g["central"][f] = specified["central"][f]
      BY <2>0, <2>1, OneSetting
    <3> QED BY <3>1, Zenon
  <2>3. CASE specified.central.portForwarding = Unset /\ ~ExposureEnabled(specified)
    <3>1. d = e
      BY <2>3
    <3> HIDE DEF d, e
    <3> QED BY <2>2, <2>3, <3>1, Zenon
  <2>4. CASE ~(specified.central.portForwarding = Unset /\ ~ExposureEnabled(specified))
    <3>1. d = specified
      BY <2>4
    <3> HIDE DEF d
    <3> QED BY <1>5, <2>4, <3>1, Zenon
  <2> HIDE DEF d
  <2> QED BY <2>3, <2>4
<1>7. ConfigureConfig(c, components, detected) = d
  <2> DEFINE typed0 == [c EXCEPT !.roxie.clusterType = FirstSet(@, detected)]
             defaulted0 == ApplyClusterDefaults(typed0)
             t0 == typed0.roxie.clusterType
             profiled0 == [defaulted0 EXCEPT !.central.resourceProfile = ResolveAutoResourceProfile(@, t0),
                                             !.securedCluster.resourceProfile = ResolveAutoResourceProfile(@, t0)]
             specified0 == ConfigureSpecs(profiled0, components)
             d0 == IF specified0.central.portForwarding = Unset /\ ~ExposureEnabled(specified0)
                   THEN [specified0 EXCEPT !.central.portForwarding = TRUE] ELSE specified0
  <2>1. ConfigureConfig(c, components, detected) = d0
    BY DEF ConfigureConfig
  <2>2. typed0 = typed
    BY DEF With
  <2>3. t0 = t
    BY <1>1, <2>2
  <2>4. defaulted0 = defaulted
    <3> HIDE DEF typed0, typed
    <3> QED BY <2>2
  <2>5. profiled0 = profiled
    <3> HIDE DEF defaulted0, defaulted, t0, t
    <3> QED BY <2>3, <2>4 DEF With
  <2>6. specified0 = specified
    <3> HIDE DEF profiled0, profiled
    <3> QED BY <2>5
  <2>7. d0 = d
    <3> HIDE DEF specified0, specified
    <3> QED BY <2>6 DEF With
  <2> QED BY <2>1, <2>7
<1> HIDE DEF typed, defaulted, half, profiled, specified, d
<1>8. \A s \in OperatorSections \cup {"mode"} : d[s] = c[s]
  <2>1. \A s \in OperatorSections \cup {"mode"} : s \in Sections \ {"central", "securedCluster", "roxie"}
    BY DEF Sections, OperatorSections
  <2>2. \A s \in Sections \ {"central", "securedCluster", "roxie"} : d[s] = c[s]
    BY <1>1, <1>2, <1>3, <1>4, <1>5, <1>6
  <2> QED BY <2>1, <2>2
<1>9. d.roxie = typed.roxie
  BY <1>2, <1>3, <1>4, <1>5, <1>6, SettingNames
<1>10. typed.central = c.central /\ typed.securedCluster = c.securedCluster
  BY <1>1, SettingNames
<1>11. d.central.namespace = c.central.namespace /\ d.central.earlyReadiness = c.central.earlyReadiness
  BY <1>2, <1>3, <1>4, <1>5, <1>6, <1>10, SettingNames
<1>12. d.central.resourceProfile = ResolveAutoResourceProfile(c.central.resourceProfile, t)
  BY <1>2, <1>3, <1>4, <1>5, <1>6, <1>10, SettingNames
<1>13. specified.central.exposure = ExposureFor(t, c.central.exposure)
       /\ specified.central.portForwarding = ForwardingFor(t, c.central.portForwarding)
  BY <1>2, <1>3, <1>4, <1>5, <1>10, SettingNames
<1>14. d.central.exposure = ExposureFor(t, c.central.exposure)
  BY <1>6, <1>13, SettingNames
<1>15. d.central.portForwarding = IF /\ ForwardingFor(t, c.central.portForwarding) = Unset
                                     /\ ExposureFor(t, c.central.exposure) \in {Unset, "none"}
                                  THEN TRUE ELSE ForwardingFor(t, c.central.portForwarding)
  BY <1>6, <1>13 DEF ExposureEnabled
<1>16. half.securedCluster = c.securedCluster
  BY <1>2, <1>3, <1>10, SettingNames
<1>17. /\ d.securedCluster = specified.securedCluster
       /\ d.securedCluster.namespace = c.securedCluster.namespace
       /\ d.securedCluster.earlyReadiness = c.securedCluster.earlyReadiness
       /\ d.securedCluster.resourceProfile = ResolveAutoResourceProfile(c.securedCluster.resourceProfile, t)
  BY <1>4, <1>5, <1>6, <1>16, SettingNames
<1>18. profiled.roxie.featureFlags = c.roxie.featureFlags /\ profiled.central.spec = c.central.spec
       /\ profiled.central.namespace = c.central.namespace /\ profiled.securedCluster.spec = c.securedCluster.spec
  BY <1>1, <1>2, <1>3, <1>4, <1>10, <1>16, SettingNames
<1>19. d.central.spec = IF "central" \in components THEN WithFeatureFlags(c.central.spec, c.roxie.featureFlags)
                        ELSE c.central.spec
  BY <1>5, <1>6, <1>18, SettingNames
<1>20. d.securedCluster.spec = IF "sensor" \in components
                               THEN Over(WithFeatureFlags(c.securedCluster.spec, c.roxie.featureFlags),
                                         Entry("centralEndpoint", c.central.namespace))
                               ELSE c.securedCluster.spec
  BY <1>5, <1>17, <1>18
<1>21. d.roxie.clusterType = t /\ \A f \in SettingsOf("roxie") : f # "clusterType" => d.roxie[f] = c.roxie[f]
  BY <1>1, <1>9
<1> QED BY <1>6, <1>7, <1>8, <1>11, <1>12, <1>14, <1>15, <1>17, <1>19, <1>20, <1>21 DEF Completed

\* An earlier deploy's configuration is what a later one starts with, except for the names of an old
\* cluster and what older versions have baked in.
Base(stored, components) ==
    IF stored = Unset THEN DefaultConfig
    ELSE DropBakedOperatorDefaults(RetrieveClusterConfigForComponents(stored, components))

UnlessSame(x, y) == IF x = y THEN Unset ELSE x
OwnNames == {"clusterName", "centralEndpoint"}
SpecKept(spec, components) ==
    IF components = {"sensor"} THEN [k \in DOMAIN spec \ OwnNames |-> spec[k]] ELSE spec

LEMMA BaseSettings ==
    ASSUME NEW stored, IsConfig(stored), NEW components, stored # Unset
    PROVE  /\ IsConfig(Base(stored, components))
           /\ \A s \in Sections : s \notin {"operator", "securedCluster"} => Base(stored, components)[s] = stored[s]
           /\ \A f \in InstanceSettings : f \notin {"version", "konfluxImages"}
                => Base(stored, components).operator[f] = stored.operator[f]
           /\ Base(stored, components).operator.version = UnlessSame(stored.operator.version, stored.roxie.version)
           /\ Base(stored, components).operator.konfluxImages
                = UnlessSame(stored.operator.konfluxImages, stored.roxie.konfluxImages)
           /\ \A f \in SettingsOf("securedCluster") : f # "spec"
                => Base(stored, components).securedCluster[f] = stored.securedCluster[f]
           /\ Base(stored, components).securedCluster.spec = SpecKept(stored.securedCluster.spec, components)
<1> DEFINE b == Base(stored, components)
<1> DEFINE spec == SpecKept(stored.securedCluster.spec, components)
           named == IF components = {"sensor"} THEN With(stored, "securedCluster", "spec", spec) ELSE stored
           half == With(named, "operator", "version", UnlessSame(named.operator.version, named.roxie.version))
           whole == With(half, "operator", "konfluxImages",
                         UnlessSame(half.operator.konfluxImages, named.roxie.konfluxImages))
<1>0. "operator" \in Sections /\ SettingsOf("operator") = InstanceSettings
      /\ "version" \in InstanceSettings /\ "konfluxImages" \in InstanceSettings
  BY SettingNames DEF OperatorSections, InstanceSettings
<1>1. /\ IsConfig(named) /\ \A s \in Sections : s # "securedCluster" => named[s] = stored[s]
      /\ named.securedCluster.spec = spec
      /\ \A f \in SettingsOf("securedCluster") : f # "spec" => named.securedCluster[f] = stored.securedCluster[f]
  <2>1. CASE components = {"sensor"}
    <3> HIDE DEF spec
    <3> QED BY <2>1, OneSetting, SettingNames
  <2>2. CASE components # {"sensor"}
    BY <2>2 DEF SpecKept
  <2> QED BY <2>1, <2>2
<1>2. RetrieveClusterConfigForComponents(stored, components) = named
  BY DEF RetrieveClusterConfigForComponents, With, OwnNames, SpecKept
<1> HIDE DEF named, spec
<1>3. /\ IsConfig(half) /\ \A s \in Sections : s # "operator" => half[s] = named[s]
      /\ half.operator.version = UnlessSame(named.operator.version, named.roxie.version)
      /\ \A f \in InstanceSettings : f # "version" => half.operator[f] = named.operator[f]
  BY <1>0, <1>1, OneSetting
<1>4. /\ half.operator.konfluxImages = named.operator.konfluxImages
  BY <1>0, <1>3
<1>5. DropBakedOperatorDefaults(named) = whole
  BY <1>4 DEF DropBakedOperatorDefaults, With, UnlessSame
<1> HIDE DEF half
<1>6. /\ IsConfig(whole) /\ \A s \in Sections : s # "operator" => whole[s] = half[s]
      /\ whole.operator.konfluxImages = UnlessSame(half.operator.konfluxImages, named.roxie.konfluxImages)
      /\ \A f \in InstanceSettings : f # "konfluxImages" => whole.operator[f] = half.operator[f]
  BY <1>0, <1>3, OneSetting
<1>7. b = whole
  BY <1>2, <1>5 DEF Base
<1> HIDE DEF whole, b
<1>8. named.operator = stored.operator /\ named.roxie = stored.roxie /\ b.securedCluster = named.securedCluster
  BY <1>0, <1>1, <1>3, <1>6, <1>7, SettingNames
<1>9. \A s \in Sections : s \notin {"operator", "securedCluster"} => b[s] = stored[s]
  BY <1>1, <1>3, <1>6, <1>7
<1>10. /\ b.operator.version = UnlessSame(stored.operator.version, stored.roxie.version)
       /\ b.operator.konfluxImages = UnlessSame(stored.operator.konfluxImages, stored.roxie.konfluxImages)
       /\ \A f \in InstanceSettings : f \notin {"version", "konfluxImages"} => b.operator[f] = stored.operator[f]
  BY <1>0, <1>3, <1>4, <1>6, <1>7, <1>8
<1> QED BY <1>1, <1>6, <1>7, <1>8, <1>9, <1>10 DEF spec, b

\* The settings, merged over the base, with the tag and the new cluster's name where none is given.
Merged(base, user, args, tag, components, name, c) ==
    LET a == Patched(Patched(base, user), args)
    IN  /\ IsConfig(c)
        /\ \A s \in Sections : s \notin {"roxie", "securedCluster"} => c[s] = a[s]
        /\ \A f \in SettingsOf("roxie") : f # "version" => c.roxie[f] = a.roxie[f]
        /\ c.roxie.version = FirstSet(a.roxie.version, tag)
        /\ \A f \in SettingsOf("securedCluster") : f # "spec" => c.securedCluster[f] = a.securedCluster[f]
        /\ c.securedCluster.spec = IF "sensor" \in components THEN Over(a.securedCluster.spec, Entry("clusterName", name))
                                   ELSE a.securedCluster.spec

\* The configuration of a deploy is the merged one, completed.
LEMMA PreparedSettings ==
    ASSUME ~IsConfig(Unset), NEW line, NEW stored, stored # Unset => IsConfig(stored), NEW tag, NEW name
    PROVE  \E c : /\ Merged(Base(stored, line.components), host.user, line.args, tag, line.components, name, c)
                  /\ Completed(c, line.components, DetectClusterType(host.kube), PreparedConfig(line, stored, tag, name))
<1> DEFINE base == Base(stored, line.components)
           a == Patched(Patched(base, host.user), line.args)
           tagged == With(a, "roxie", "version", FirstSet(a.roxie.version, tag))
           c == IF "sensor" \in line.components
                THEN With(tagged, "securedCluster", "spec", Over(tagged.securedCluster.spec, Entry("clusterName", name)))
                ELSE tagged
<1>1. IsConfig(base)
  BY BaseSettings, DefaultIsConfig DEF Base
<1>2. AssembleConfigForCommand(RetrieveClusterConfigForComponents(stored, line.components), host.user, line.args) = a
  <2>1. CASE stored = Unset
    BY <2>1 DEF AssembleConfigForCommand, RetrieveClusterConfigForComponents, Base
  <2>2. CASE stored # Unset
    <3>1. RetrieveClusterConfigForComponents(stored, line.components) # Unset
      <4>1. DOMAIN RetrieveClusterConfigForComponents(stored, line.components) = DOMAIN stored
            /\ \A s \in Sections : DOMAIN RetrieveClusterConfigForComponents(stored, line.components)[s] = DOMAIN stored[s]
        BY <2>2, SettingNames DEF RetrieveClusterConfigForComponents, IsConfig
      <4>2. IsConfig(RetrieveClusterConfigForComponents(stored, line.components))
        BY <2>2, <4>1 DEF IsConfig
      <4> QED BY <4>2
    <3> QED BY <2>2, <3>1 DEF AssembleConfigForCommand, Base
  <2> QED BY <2>1, <2>2
<1> HIDE DEF base
<1>3. IsConfig(a)
  BY <1>1, PatchedSettings
<1>4. PreparedConfig(line, stored, tag, name) = ConfigureConfig(c, line.components, DetectClusterType(host.kube))
  <2> DEFINE a0 == AssembleConfigForCommand(RetrieveClusterConfigForComponents(stored, line.components),
                                            host.user, line.args)
             tagged0 == [a0 EXCEPT !.roxie.version = FirstSet(@, tag)]
             c0 == IF "sensor" \in line.components THEN ApplySecuredClusterDefaults(tagged0, name) ELSE tagged0
  <2>1. PreparedConfig(line, stored, tag, name) = ConfigureConfig(c0, line.components, DetectClusterType(host.kube))
    BY DEF PreparedConfig
  <2>2. a0 = a
    BY <1>2
  <2>3. tagged0 = tagged
    <3> HIDE DEF a0, a
    <3> QED BY <2>2 DEF With
  <2>4. c0 = c
    <3> HIDE DEF tagged0, tagged
    <3> QED BY <2>3 DEF With, ApplySecuredClusterDefaults
  <2> HIDE DEF c0, c
  <2> QED BY <2>1, <2>4
<1>5. /\ IsConfig(tagged) /\ tagged.roxie.version = FirstSet(a.roxie.version, tag)
      /\ \A s \in Sections : s # "roxie" => tagged[s] = a[s]
      /\ \A f \in SettingsOf("roxie") : f # "version" => tagged.roxie[f] = a.roxie[f]
  <2> HIDE DEF a
  <2> QED BY <1>3, OneSetting, SettingNames
<1>6. /\ IsConfig(c) /\ \A s \in Sections : s # "securedCluster" => c[s] = tagged[s]
      /\ \A f \in SettingsOf("securedCluster") : f # "spec" => c.securedCluster[f] = tagged.securedCluster[f]
      /\ c.securedCluster.spec = IF "sensor" \in line.components
                                 THEN Over(tagged.securedCluster.spec, Entry("clusterName", name))
                                 ELSE tagged.securedCluster.spec
  <2> HIDE DEF tagged
  <2> QED BY <1>5, OneSetting, SettingNames
<1> HIDE DEF tagged, c
<1>7. c.roxie = tagged.roxie /\ tagged.securedCluster = a.securedCluster
  BY <1>5, <1>6, SettingNames
<1>8. \A s \in Sections : s \notin {"roxie", "securedCluster"} => c[s] = a[s]
  <2> HIDE DEF a
  <2> QED BY <1>5, <1>6
<1>9. Merged(base, host.user, line.args, tag, line.components, name, c)
  <2> HIDE DEF a
  <2>1. /\ \A f \in SettingsOf("roxie") : f # "version" => c.roxie[f] = a.roxie[f]
        /\ c.roxie.version = FirstSet(a.roxie.version, tag)
    BY <1>5, <1>7
  <2>2. /\ \A f \in SettingsOf("securedCluster") : f # "spec" => c.securedCluster[f] = a.securedCluster[f]
        /\ c.securedCluster.spec = IF "sensor" \in line.components
                                   THEN Over(a.securedCluster.spec, Entry("clusterName", name))
                                   ELSE a.securedCluster.spec
    BY <1>6, <1>7
  <2> QED BY <1>6, <1>8, <2>1, <2>2 DEF Merged, a
<1>10. Completed(c, line.components, DetectClusterType(host.kube), PreparedConfig(line, stored, tag, name))
  BY <1>4, <1>6, ConfigurationCompleted
<1> QED BY <1>9, <1>10 DEF base

----------------------------------------------------------------------------
(* The running command *)

DeployPhases == {"container", "images", "credentials", "operators", "central", "sensor", "manifest"}
TeardownPhases == {"teardown", "forget"}
IsDeploy == job.pc \in DeployPhases

\* A command is a line's, on its way or over; faults and names are counted.
Jobs == /\ job.pc \in {"idle"} \cup DeployPhases \cup TeardownPhases
        /\ job.pc = "idle" => job = Idle
        /\ IsDeploy => job.line \in Lines /\ job.line.verb = "deploy"
        /\ job.pc \in TeardownPhases => job.line \in Lines /\ job.line.verb = "teardown"
        /\ job.pc \in TeardownPhases => DOMAIN job = {"pc", "line", "stored", "config"}
        /\ host \in Hosts
        /\ faults \in Nat /\ names \in Nat

\* The steps of a running deploy change neither line nor configuration, nor what earlier commands left.
Continues == /\ IsDeploy
             /\ job'.line = job.line /\ job'.config = job.config /\ job'.stored = job.stored
             /\ manifest' = manifest /\ terminal' = terminal /\ names' = names
             /\ past'.explicit = past.explicit /\ past'.pinned = past.pinned /\ past'.resolved = past.resolved

\* A step costs its faults.
LEMMA SpendCounts ==
    ASSUME faults \in Nat, NEW k \in Nat, Spend(k)
    PROVE  faults' \in Nat /\ faults' = faults + k
BY DEF Spend

LEMMA AnswersCost ==
    \A r : \A probe \in RepoRequiresAuth(r) :
        /\ probe[2] \in Nat
        /\ probe[2] = 0 => probe[1] = IF r \in DOMAIN job.probed THEN job.probed[r] ELSE (r \in host.private)
<1> SUFFICES ASSUME NEW r, NEW probe \in RepoRequiresAuth(r)
             PROVE  /\ probe[2] \in Nat
                    /\ probe[2] = 0
                         => probe[1] = IF r \in DOMAIN job.probed THEN job.probed[r] ELSE (r \in host.private)
  OBVIOUS
<1>1. CASE r \in DOMAIN job.probed
  <2>1. probe = <<job.probed[r], 0>>
    BY <1>1 DEF RepoRequiresAuth
  <2> QED BY <1>1, <2>1
<1>2. CASE r \notin DOMAIN job.probed
  <2>1. CASE probe = <<r \in host.private, 0>>
    <3>1. probe[1] = (r \in host.private) /\ probe[2] = 0
      BY <2>1
    <3> QED BY <1>2, <3>1
  <2>2. CASE probe = <<TRUE, 1>>
    BY <2>2
  <2> QED BY <1>2, <2>1, <2>2 DEF RepoRequiresAuth
<1> QED BY <1>1, <1>2

\* The number of faults only grows.
LEMMA FaultsGrow == Jobs /\ [Next]_vars => faults' \in Nat /\ faults' >= faults
<1> SUFFICES ASSUME Jobs, [Next]_vars PROVE faults' \in Nat /\ faults' >= faults
  OBVIOUS
<1>0. faults \in Nat
  BY DEF Jobs
<1> DEFINE Costs == \E k \in Nat : Spend(k)
<1>1. Costs => faults' \in Nat /\ faults' >= faults
  BY <1>0, SpendCounts
<1> HIDE DEF Costs
<1>2. ASSUME NEW line \in Lines, BeginDeploy(line) PROVE Costs
  BY <1>2 DEF BeginDeploy, LoadManifestSecret, Costs
<1>3. ASSUME NEW line \in Lines, BeginTeardown(line) PROVE Costs
  BY <1>3 DEF BeginTeardown, LoadManifestSecret, Costs
<1>4. ASSUME CheckContainer \/ PrepareCredentials PROVE Costs
  <2>1. ASSUME CheckContainer PROVE Costs
    <3>1. CASE job.line.place.container
      <4>1. PICK probe \in MainProbes : Spend(probe[2])
        BY <2>1, <3>1 DEF CheckContainer
      <4> QED BY <4>1, AnswersCost DEF Costs, MainProbes
    <3>2. CASE ~job.line.place.container
      BY <2>1, <3>2 DEF CheckContainer, Costs
    <3> QED BY <3>1, <3>2
  <2>2. ASSUME PrepareCredentials PROVE Costs
    <3>1. PICK probe \in MainProbes : Spend(probe[2])
      BY <2>2 DEF PrepareCredentials
    <3> QED BY <3>1, AnswersCost DEF Costs, MainProbes
  <2> QED BY <1>4, <2>1, <2>2
<1>5. ASSUME TryTransferLocalImages PROVE Costs
  BY <1>5 DEF TryTransferLocalImages, Costs
<1>6. ASSUME EnsureOperator PROVE Costs
  <2>1. Spend(0) \/ \E r : \E probe \in {<<FALSE, 0>>} \cup RepoRequiresAuth(r), lost \in BOOLEAN :
                                 Spend(probe[2] + IF lost THEN 1 ELSE 0)
    BY <1>6 DEF EnsureOperator
  <2>2. ASSUME NEW r, NEW probe \in {<<FALSE, 0>>} \cup RepoRequiresAuth(r), NEW lost \in BOOLEAN,
               Spend(probe[2] + IF lost THEN 1 ELSE 0)
        PROVE  Costs
    <3>1. probe[2] \in Nat
      <4>1. CASE probe = <<FALSE, 0>>
        BY <4>1
      <4>2. CASE probe \in RepoRequiresAuth(r)
        BY <4>2, AnswersCost
      <4> QED BY <4>1, <4>2
    <3>2. (IF lost THEN 1 ELSE 0) \in Nat
      OBVIOUS
    <3>3. probe[2] + (IF lost THEN 1 ELSE 0) \in Nat
      BY <3>1, <3>2
    <3> QED BY <2>2, <3>3 DEF Costs
  <2> QED BY <2>1, <2>2 DEF Costs
<1>7. ASSUME DeployCentral \/ DeploySecuredCluster PROVE Costs
  <2>1. PICK probe \in MainProbes, lost \in BOOLEAN : Spend(probe[2] + IF lost THEN 1 ELSE 0)
    BY <1>7 DEF DeployCentral, DeploySecuredCluster
  <2>2. probe[2] \in Nat /\ (IF lost THEN 1 ELSE 0) \in Nat
    BY AnswersCost DEF MainProbes
  <2>3. probe[2] + (IF lost THEN 1 ELSE 0) \in Nat
    BY <2>2
  <2> QED BY <2>1, <2>3 DEF Costs
<1>8. ASSUME CreateManifestSecretOnCluster PROVE Costs
  BY <1>8 DEF CreateManifestSecretOnCluster, Costs
<1>9. ASSUME Teardown PROVE Costs
  <2>1. PICK spared \in {{}} \cup {{k} : k \in job.line.components} : Spend(Cardinality(spared))
    BY <1>9 DEF Teardown
  <2>2. Cardinality(spared) \in Nat
    BY FS_EmptySet, FS_Singleton
  <2> QED BY <2>1, <2>2 DEF Costs
<1>10. ASSUME DeleteManifestSecret PROVE Costs
  BY <1>10 DEF DeleteManifestSecret, Costs
<1>11. ASSUME Abort PROVE Costs
  BY <1>11 DEF Abort, Costs
<1>12. ASSUME OperatorsDeployed \/ SkipCentral \/ SkipSecuredCluster \/ UNCHANGED vars PROVE faults' = faults
  BY <1>12 DEF OperatorsDeployed, SkipCentral, SkipSecuredCluster, vars
<1> QED BY <1>0, <1>1, <1>2, <1>3, <1>4, <1>5, <1>6, <1>7, <1>8, <1>9, <1>10, <1>11, <1>12 DEF Next

\* How a command goes on.
LEMMA JobsKept == Shape /\ Jobs /\ [Next]_vars => Jobs'
<1> SUFFICES ASSUME Shape, Jobs, [Next]_vars PROVE Jobs'
  OBVIOUS
<1>faults. faults' \in Nat
  BY FaultsGrow
<1> DEFINE Rest == /\ job'.pc \in {"idle"} \cup DeployPhases \cup TeardownPhases
                   /\ job'.pc = "idle" => job' = Idle
                   /\ job'.pc \in DeployPhases => job'.line \in Lines /\ job'.line.verb = "deploy"
                   /\ job'.pc \in TeardownPhases => job'.line \in Lines /\ job'.line.verb = "teardown"
                                                    /\ DOMAIN job' = {"pc", "line", "stored", "config"}
           Same == host' = host /\ names' = names
           Over1 == job' = Idle
           Goes(phases) == \E p \in phases : job'.pc = p /\ job'.line = job.line /\ DOMAIN job' = DOMAIN job
<1>jobs. /\ IsDeploy => DOMAIN job = JobFields /\ job.line \in Lines /\ job.line.verb = "deploy"
         /\ job.pc \in TeardownPhases => /\ job.line \in Lines /\ job.line.verb = "teardown"
                                         /\ DOMAIN job = {"pc", "line", "stored", "config"}
         /\ host \in Hosts /\ names \in Nat
  BY DEF Jobs, Shape, IsDeploy, DeployPhases
<1>over. Over1 => Rest
  BY DEF Idle, DeployPhases, TeardownPhases
<1>goes. /\ IsDeploy /\ Goes(DeployPhases) => Rest
         /\ job.pc \in TeardownPhases /\ Goes(TeardownPhases) => Rest
  BY <1>jobs DEF DeployPhases, TeardownPhases
<1>ends. Rest /\ Same => Jobs'
  BY <1>jobs, <1>faults DEF Jobs, IsDeploy
<1>1. ASSUME NEW line \in Lines, BeginDeploy(line) PROVE Jobs'
  <2>1. job = Idle /\ line.verb = "deploy" /\ host' = host /\ names' = names + 1
    BY <1>1 DEF BeginDeploy
  <2>2. \/ job' = job
        \/ \E stored, config : job' = [pc |-> "container", line |-> line, stored |-> stored,
                                       config |-> config, probed |-> << >>, creds |-> Refused,
                                       instance |-> 1, endpoint |-> terminal]
    BY <1>1 DEF BeginDeploy
  <2>3. CASE job' = job
    BY <2>1, <2>3, <1>over, <1>jobs, <1>faults DEF Jobs, IsDeploy
  <2>4. CASE job' # job
    <3>1. job'.pc = "container" /\ job'.line = line
      BY <2>2, <2>4
    <3> QED BY <2>1, <3>1, <1>jobs, <1>faults DEF Jobs, IsDeploy, DeployPhases, TeardownPhases
  <2> QED BY <2>3, <2>4
<1>2. ASSUME NEW line \in Lines, BeginTeardown(line) PROVE Jobs'
  <2>1. job'.pc = "teardown" /\ job'.line = line /\ line.verb = "teardown" /\ Same
        /\ DOMAIN job' = {"pc", "line", "stored", "config"}
    BY <1>2 DEF BeginTeardown
  <2> QED BY <2>1, <1>ends DEF DeployPhases, TeardownPhases
<1>3. CASE CheckContainer
  <2>1. IsDeploy /\ Same
    BY <1>3 DEF CheckContainer, IsDeploy, DeployPhases
  <2>2. \/ Over1
        \/ \E probed : job' = [job EXCEPT !.pc = "images", !.probed = probed]
        \/ job' = [job EXCEPT !.pc = "images"]
    BY <1>3 DEF CheckContainer
  <2>3. Over1 \/ Goes({"images"})
    BY <1>jobs, <2>1, <2>2 DEF JobFields
  <2> QED BY <2>1, <2>3, <1>over, <1>goes, <1>ends DEF DeployPhases
<1>4. CASE TryTransferLocalImages
  <2>1. IsDeploy /\ Same /\ job' = [job EXCEPT !.pc = "credentials"]
    BY <1>4 DEF TryTransferLocalImages, IsDeploy, DeployPhases
  <2>2. Goes({"credentials"})
    BY <1>jobs, <2>1 DEF JobFields
  <2> QED BY <2>1, <2>2, <1>goes, <1>ends DEF DeployPhases
<1>5. CASE PrepareCredentials
  <2>1. IsDeploy /\ Same
    BY <1>5 DEF PrepareCredentials, IsDeploy, DeployPhases
  <2>2. \/ Over1
        \/ \E probed, creds : job' = [job EXCEPT !.pc = "operators", !.probed = probed, !.creds = creds]
    BY <1>5 DEF PrepareCredentials
  <2>3. Over1 \/ Goes({"operators"})
    BY <1>jobs, <2>1, <2>2 DEF JobFields
  <2> QED BY <2>1, <2>3, <1>over, <1>goes, <1>ends DEF DeployPhases
<1>6. CASE EnsureOperator
  <2>1. IsDeploy /\ Same /\ job.pc = "operators"
    BY <1>6 DEF EnsureOperator, IsDeploy, DeployPhases
  <2>2. \/ Over1
        \/ job' = [job EXCEPT !.instance = @ + 1]
        \/ \E probed : job' = [[job EXCEPT !.instance = @ + 1] EXCEPT !.probed = probed]
    BY <1>6 DEF EnsureOperator
  <2>3. Over1 \/ Goes({"operators"})
    BY <1>jobs, <2>1, <2>2 DEF JobFields
  <2> QED BY <2>1, <2>3, <1>over, <1>goes, <1>ends DEF DeployPhases
<1>7. CASE OperatorsDeployed \/ SkipCentral \/ SkipSecuredCluster
  <2>1. IsDeploy /\ Same /\ \E p \in {"central", "sensor", "manifest"} : job' = [job EXCEPT !.pc = p]
    BY <1>7 DEF OperatorsDeployed, SkipCentral, SkipSecuredCluster, IsDeploy, DeployPhases
  <2>2. Goes({"central", "sensor", "manifest"})
    BY <1>jobs, <2>1 DEF JobFields
  <2> QED BY <2>1, <2>2, <1>goes, <1>ends DEF DeployPhases
<1>8. CASE DeployCentral
  <2>1. IsDeploy /\ Same
    BY <1>8 DEF DeployCentral, IsDeploy, DeployPhases
  <2>2. Over1 \/ \E n : job' = [job EXCEPT !.pc = "sensor", !.endpoint = n]
    BY <1>8 DEF DeployCentral
  <2>3. Over1 \/ Goes({"sensor"})
    BY <1>jobs, <2>1, <2>2 DEF JobFields
  <2> QED BY <2>1, <2>3, <1>over, <1>goes, <1>ends DEF DeployPhases
<1>9. CASE DeploySecuredCluster
  <2>1. IsDeploy /\ Same
    BY <1>9 DEF DeploySecuredCluster, IsDeploy, DeployPhases
  <2>2. Over1 \/ job' = [job EXCEPT !.pc = "manifest"]
    BY <1>9 DEF DeploySecuredCluster
  <2>3. Over1 \/ Goes({"manifest"})
    BY <1>jobs, <2>1, <2>2 DEF JobFields
  <2> QED BY <2>1, <2>3, <1>over, <1>goes, <1>ends DEF DeployPhases
<1>10. CASE CreateManifestSecretOnCluster \/ DeleteManifestSecret \/ Abort
  BY <1>10, <1>over, <1>ends DEF CreateManifestSecretOnCluster, DeleteManifestSecret, Abort
<1>11. CASE Teardown
  <2>1. job.pc \in TeardownPhases /\ Same /\ job' = [job EXCEPT !.pc = "forget"]
    BY <1>11 DEF Teardown, TeardownPhases
  <2>2. Goes({"forget"})
    BY <1>jobs, <2>1
  <2> QED BY <2>1, <2>2, <1>goes, <1>ends DEF TeardownPhases
<1>12. CASE UNCHANGED vars
  BY <1>12, <1>jobs DEF vars, Jobs, IsDeploy
<1> QED
  BY <1>1, <1>2, <1>3, <1>4, <1>5, <1>6, <1>7, <1>8, <1>9, <1>10, <1>11, <1>12 DEF Next

LEMMA JobsFirst == Init => Jobs
BY DEF Init, Jobs, Idle, IsDeploy, DeployPhases, TeardownPhases

\* A deploy begins with its configuration.
LEMMA DeployBegins ==
    ASSUME NEW line, BeginDeploy(line), job' # Idle
    PROVE  /\ job = Idle /\ line.verb = "deploy" /\ names' = names + 1
           /\ manifest' = manifest /\ host' = host /\ terminal' = terminal /\ UNCHANGED cluster
           /\ job'.pc = "container" /\ job'.line = line /\ job'.endpoint = terminal /\ job'.probed = << >>
           /\ past' = Remember(line)
           /\ \E source \in Sources :
                /\ job'.config = PreparedConfig(line, job'.stored, LookupMainImageTag(source), names')
                /\ job'.config.roxie.version # Refused
           /\ LoadManifestSecret(job'.stored)
<1>1. /\ job = Idle /\ line.verb = "deploy" /\ names' = names + 1
      /\ UNCHANGED <<host, manifest, cluster, terminal>>
  BY DEF BeginDeploy
<1>2. PICK stored \in {manifest, Unset}, source \in Sources :
        LET config == PreparedConfig(line, stored, LookupMainImageTag(source), names')
        IN  /\ LoadManifestSecret(stored)
            /\ IF /\ config.roxie.version # Refused
                  /\ DeployValidate(config, line.components, line.place)
               THEN /\ job' = [pc |-> "container", line |-> line, stored |-> stored, config |-> config,
                               probed |-> << >>, creds |-> Refused, instance |-> 1,
                               endpoint |-> terminal]
                    /\ past' = Remember(line)
               ELSE UNCHANGED <<job, past>>
  BY DEF BeginDeploy
<1> DEFINE config == PreparedConfig(line, stored, LookupMainImageTag(source), names')
<1>3. /\ config.roxie.version # Refused
      /\ job' = [pc |-> "container", line |-> line, stored |-> stored, config |-> config,
                 probed |-> << >>, creds |-> Refused, instance |-> 1, endpoint |-> terminal]
      /\ past' = Remember(line) /\ LoadManifestSecret(stored)
  BY <1>1, <1>2
<1> HIDE DEF config
<1>4. /\ job'.pc = "container" /\ job'.line = line /\ job'.stored = stored /\ job'.config = config
      /\ job'.probed = << >> /\ job'.endpoint = terminal
  BY <1>3
<1> QED BY <1>1, <1>3, <1>4 DEF config

\* What a command line gives to operators is remembered.
LEMMA Remembered ==
    ASSUME Shape, NEW line
    PROVE  /\ Remember(line).explicit = past.explicit \cup UNION {DOMAIN g[s].envVars : g \in {line.args, host.user},
                                                                                       s \in OperatorSections}
           /\ Remember(line).pinned = (past.pinned \/ \E g \in {line.args, host.user}, s \in OperatorSections :
                                                            g[s].version # Unset)
           /\ Remember(line).resolved = past.resolved /\ Remember(line).reused = past.reused
<1>1. {"operator", "centralOperator", "sensorOperator"} = OperatorSections /\ DOMAIN past = PastFields
  BY DEF OperatorSections, Shape
<1> QED BY <1>1 DEF Remember, PastFields

\* A deploy that goes on is the deploy that it was.
LEMMA DeployContinues ==
    ASSUME Shape, Jobs, [Next]_vars, job'.pc \in DeployPhases, \A line \in Lines : ~BeginDeploy(line)
    PROVE  Continues
<1>0. /\ DOMAIN past = PastFields /\ (IsDeploy => DOMAIN job = JobFields)
      /\ (job.pc \in TeardownPhases => DOMAIN job = {"pc", "line", "stored", "config"})
      /\ Idle.pc \notin DeployPhases
  BY DEF Shape, Jobs, IsDeploy, DeployPhases, Idle
<1> DEFINE Goes == /\ job'.line = job.line /\ job'.config = job.config /\ job'.stored = job.stored
           Same == /\ manifest' = manifest /\ terminal' = terminal /\ names' = names
                   /\ past'.explicit = past.explicit /\ past'.pinned = past.pinned /\ past'.resolved = past.resolved
<1>1. ASSUME NEW line \in Lines, BeginTeardown(line) PROVE FALSE
  BY <1>1 DEF BeginTeardown, DeployPhases
<1>2. CASE CheckContainer \/ PrepareCredentials \/ TryTransferLocalImages
  <2>1. IsDeploy /\ Same
    BY <1>2 DEF CheckContainer, PrepareCredentials, TryTransferLocalImages, IsDeploy, DeployPhases
  <2>2. \/ job' = Idle
        \/ \E pc : job' = [job EXCEPT !.pc = pc]
        \/ \E pc, probed : job' = [job EXCEPT !.pc = pc, !.probed = probed]
        \/ \E pc, probed, creds : job' = [job EXCEPT !.pc = pc, !.probed = probed, !.creds = creds]
    BY <1>2 DEF CheckContainer, PrepareCredentials, TryTransferLocalImages
  <2>3. Goes
    BY <1>0, <2>1, <2>2 DEF JobFields
  <2> QED BY <2>1, <2>3 DEF Continues
<1>3. CASE EnsureOperator
  <2>1. IsDeploy /\ Same
    BY <1>3 DEF EnsureOperator, IsDeploy, DeployPhases
  <2>2. \/ job' = Idle
        \/ job' = [job EXCEPT !.instance = @ + 1]
        \/ \E probed : job' = [[job EXCEPT !.instance = @ + 1] EXCEPT !.probed = probed]
    BY <1>3 DEF EnsureOperator
  <2>3. Goes
    BY <1>0, <2>1, <2>2 DEF JobFields
  <2> QED BY <2>1, <2>3 DEF Continues
<1>4. CASE OperatorsDeployed \/ SkipCentral \/ SkipSecuredCluster
  <2>1. IsDeploy /\ Same /\ \E pc : job' = [job EXCEPT !.pc = pc]
    BY <1>4 DEF OperatorsDeployed, SkipCentral, SkipSecuredCluster, IsDeploy, DeployPhases
  <2>3. Goes
    BY <1>0, <2>1 DEF JobFields
  <2> QED BY <2>1, <2>3 DEF Continues
<1>5. CASE DeployCentral
  <2>1. IsDeploy /\ manifest' = manifest /\ terminal' = terminal /\ names' = names
    BY <1>5 DEF DeployCentral, IsDeploy, DeployPhases
  <2>2. \/ job' = Idle
        \/ UNCHANGED past /\ \E pc, n : job' = [job EXCEPT !.pc = pc, !.endpoint = n]
    BY <1>5 DEF DeployCentral
  <2>3. Goes /\ Same
    BY <1>0, <2>1, <2>2 DEF JobFields
  <2> QED BY <2>1, <2>3 DEF Continues
<1>6. CASE DeploySecuredCluster
  <2>1. IsDeploy /\ manifest' = manifest /\ terminal' = terminal /\ names' = names
    BY <1>6 DEF DeploySecuredCluster, IsDeploy, DeployPhases
  <2>2. \/ job' = Idle
        \/ job' = [job EXCEPT !.pc = "manifest"] /\ \E r : past' = [past EXCEPT !.reused = r]
    BY <1>6 DEF DeploySecuredCluster
  <2>3. Goes /\ Same
    BY <1>0, <2>1, <2>2 DEF JobFields, PastFields
  <2> QED BY <2>1, <2>3 DEF Continues
<1>7. CASE CreateManifestSecretOnCluster \/ DeleteManifestSecret \/ Abort
  BY <1>0, <1>7 DEF CreateManifestSecretOnCluster, DeleteManifestSecret, Abort
<1>8. CASE Teardown
  <2>1. job'.pc = "forget"
    BY <1>0, <1>8 DEF Teardown, TeardownPhases
  <2> QED BY <2>1 DEF DeployPhases
<1>9. CASE UNCHANGED vars
  BY <1>9 DEF vars, Continues, IsDeploy
<1> QED BY <1>1, <1>2, <1>3, <1>4, <1>5, <1>6, <1>7, <1>8, <1>9 DEF Next

\* Only the end of a deploy and that of a teardown change the manifest, and only they and the start of a
\* deploy what is remembered of earlier lines.
LEMMA ManifestKept ==
    ASSUME Shape, Jobs, [Next]_vars, ~CreateManifestSecretOnCluster, ~DeleteManifestSecret
    PROVE  /\ manifest' = manifest /\ past'.resolved = past.resolved
           /\ terminal' = terminal /\ host' = host
           /\ past'.explicit # past.explicit \/ past'.pinned # past.pinned
                => \E line \in Lines : BeginDeploy(line) /\ job' # Idle
<1>0. DOMAIN past = PastFields
  BY DEF Shape
<1>1. ASSUME NEW line \in Lines, BeginDeploy(line), job' # Idle
      PROVE  manifest' = manifest /\ past'.resolved = past.resolved /\ terminal' = terminal /\ host' = host
  BY <1>1, DeployBegins, Remembered
<1>2. ASSUME NEW line \in Lines, BeginDeploy(line), job' = Idle
      PROVE  manifest' = manifest /\ past' = past /\ terminal' = terminal /\ host' = host
  BY <1>2 DEF BeginDeploy, Idle
<1>3. ASSUME NEW line \in Lines, BeginTeardown(line)
      PROVE  manifest' = manifest /\ past' = past /\ terminal' = terminal /\ host' = host
  BY <1>3 DEF BeginTeardown
<1>4. CASE \/ CheckContainer \/ PrepareCredentials \/ TryTransferLocalImages \/ EnsureOperator
           \/ OperatorsDeployed \/ SkipCentral \/ SkipSecuredCluster \/ Teardown \/ Abort \/ UNCHANGED vars
  <2>1. manifest' = manifest /\ past' = past /\ terminal' = terminal /\ host' = host
    BY <1>4 DEF CheckContainer, PrepareCredentials, TryTransferLocalImages, EnsureOperator, OperatorsDeployed,
                SkipCentral, SkipSecuredCluster, Teardown, Abort, vars
  <2> QED BY <2>1
<1>5. CASE DeployCentral
  <2>1. manifest' = manifest /\ terminal' = terminal /\ host' = host
        /\ (past' = past \/ past' = [past EXCEPT !.late = TRUE])
    BY <1>5 DEF DeployCentral
  <2> QED BY <1>0, <2>1 DEF PastFields
<1>6. CASE DeploySecuredCluster
  <2>1. manifest' = manifest /\ terminal' = terminal /\ host' = host
        /\ \E r : past' = [past EXCEPT !.late = r] \/ past' = [past EXCEPT !.reused = r]
    BY <1>6 DEF DeploySecuredCluster
  <2> QED BY <1>0, <2>1 DEF PastFields
<1> QED BY <1>1, <1>2, <1>3, <1>4, <1>5, <1>6 DEF Next

----------------------------------------------------------------------------
(* Operand images *)

\* What older versions of roxie have left is a configuration, or nothing.
LegacyIsSound == ~IsConfig(Unset) /\ \A m \in Legacy : m # Unset => IsConfig(m)

VariablesOf(c) == UNION {DOMAIN c[s].envVars : s \in OperatorSections}

\* ... without variables for operators: the history of what lines have given begins with it.
LegacyWithoutVariables == \A m \in Legacy : m # Unset => VariablesOf(m) = {}

\* An operator's switches are not images.
SwitchesAreNoImages == {"SECURED_CLUSTER_RECONCILER_ENABLED", "CENTRAL_RECONCILER_ENABLED"} \cap Images = {}

\* The configurations around have only variables that some line has given.
Explained == /\ manifest # Unset => IsConfig(manifest) /\ VariablesOf(manifest) \subseteq past.explicit
             /\ IsDeploy => IsConfig(job.config) /\ VariablesOf(job.config) \subseteq past.explicit

LEMMA OverDomain == \A f, g : DOMAIN Over(f, g) = DOMAIN f \cup DOMAIN g
BY DEF Over

\* A deploy's variables are its lines'.
LEMMA PreparedVariables ==
    ASSUME ~IsConfig(Unset), NEW line, NEW stored, stored # Unset => IsConfig(stored), NEW tag, NEW name,
           NEW p, p = PreparedConfig(line, stored, tag, name)
    PROVE  /\ IsConfig(p)
           /\ VariablesOf(p) \subseteq (IF stored = Unset THEN {} ELSE VariablesOf(stored))
                                          \cup VariablesOf(host.user) \cup VariablesOf(line.args)
<1> DEFINE base == Base(stored, line.components)
<1>1. PICK c : /\ Merged(base, host.user, line.args, tag, line.components, name, c)
               /\ Completed(c, line.components, DetectClusterType(host.kube), p)
  BY PreparedSettings
<1>2. IsConfig(base)
  BY BaseSettings, DefaultIsConfig DEF Base
<1>3. ASSUME NEW s \in OperatorSections
      PROVE  DOMAIN p[s].envVars = DOMAIN line.args[s].envVars
                                     \cup (DOMAIN host.user[s].envVars \cup DOMAIN base[s].envVars)
  <2> HIDE DEF base
  <2>1. s \in Sections /\ "envVars" \in SettingsOf(s) /\ "envVars" \in MapSettings /\ s \notin {"roxie", "securedCluster"}
    BY SettingNames DEF InstanceSettings, MapSettings, OperatorSections
  <2>2. p[s] = c[s] /\ c[s] = Patched(Patched(base, host.user), line.args)[s]
    BY <1>1, <2>1 DEF Completed, Merged
  <2>3. Patched(base, host.user)[s].envVars = Over(host.user[s].envVars, base[s].envVars)
        /\ IsConfig(Patched(base, host.user))
    BY <1>2, <2>1, PatchedSettings
  <2>4. Patched(Patched(base, host.user), line.args)[s].envVars
          = Over(line.args[s].envVars, Patched(base, host.user)[s].envVars)
    BY <2>1, <2>3, PatchedSettings
  <2>5. p[s].envVars = Over(line.args[s].envVars, Over(host.user[s].envVars, base[s].envVars))
    BY <2>2, <2>3, <2>4
  <2>6. DOMAIN Over(host.user[s].envVars, base[s].envVars) = DOMAIN host.user[s].envVars \cup DOMAIN base[s].envVars
    BY OverDomain
  <2>7. DOMAIN Over(line.args[s].envVars, Over(host.user[s].envVars, base[s].envVars))
          = DOMAIN line.args[s].envVars \cup DOMAIN Over(host.user[s].envVars, base[s].envVars)
    BY OverDomain
  <2> QED BY <2>5, <2>6, <2>7, Zenon
<1>4. ASSUME NEW s \in OperatorSections
      PROVE  DOMAIN base[s].envVars \subseteq (IF stored = Unset THEN {} ELSE VariablesOf(stored))
  <2>1. CASE stored = Unset
    <3>1. DefaultConfig[s] = NoInstanceSettings
      <4>1. \A t \in Sections \ {"roxie", "central", "securedCluster"} : DefaultConfig[t] = Nothing[t]
        BY DefaultIsConfig DEF DefaultConfig, IsConfig
      <4>2. s \in Sections \ {"roxie", "central", "securedCluster"}
        BY DEF Sections, OperatorSections
      <4>3. Nothing[s] = NoInstanceSettings
        BY DEF Nothing, OperatorSections
      <4> QED BY <4>1, <4>2, <4>3
    <3>2. base[s].envVars = << >>
      BY <2>1, <3>1 DEF Base, NoInstanceSettings
    <3> QED BY <2>1, <3>2
  <2>2. CASE stored # Unset
    <3>1. base[s].envVars = stored[s].envVars
      <4>1. CASE s = "operator"
        BY <2>2, <4>1, BaseSettings DEF InstanceSettings
      <4>2. CASE s # "operator"
        <5>1. s \in Sections /\ s \notin {"operator", "securedCluster"}
          BY <4>2 DEF Sections, OperatorSections
        <5>2. \A t \in Sections : t \notin {"operator", "securedCluster"} => base[t] = stored[t]
          BY <2>2, BaseSettings
        <5>3. base[s] = stored[s]
          BY <5>1, <5>2
        <5> QED BY <5>3
      <4> QED BY <4>1, <4>2
    <3> QED BY <2>2, <3>1 DEF VariablesOf
  <2> QED BY <2>1, <2>2
<1>5. IsConfig(p)
  BY <1>1 DEF Completed
<1> HIDE DEF base
<1> QED BY <1>3, <1>4, <1>5 DEF VariablesOf

\* The manifest is the configuration without its envrc.
LEMMA ManifestWritten ==
    ASSUME IsConfig(job.config)
    PROVE  /\ IsConfig(ManifestConfig)
           /\ \A s \in Sections : s # "roxie" => ManifestConfig[s] = job.config[s]
           /\ \A f \in SettingsOf("roxie") : f # "envrc" => ManifestConfig.roxie[f] = job.config.roxie[f]
<1>1. ManifestConfig = With(job.config, "roxie", "envrc", Unset)
  BY DEF ManifestConfig, With
<1> QED BY <1>1, OneSetting, SettingNames

LEMMA ExplainedKept == ASSUME ~IsConfig(Unset), Shape, Jobs, Explained, [Next]_vars PROVE Explained'
<1>past. DOMAIN past = PastFields
  BY DEF Shape
<1>1. manifest' # Unset => IsConfig(manifest') /\ VariablesOf(manifest') \subseteq past'.explicit
  <2>1. CASE CreateManifestSecretOnCluster
    <3>1. /\ IsDeploy /\ past'.explicit = past.explicit
          /\ (manifest' = ManifestConfig \/ manifest' = manifest)
      BY <1>past, <2>1 DEF CreateManifestSecretOnCluster, IsDeploy, DeployPhases, PastFields
    <3>2. VariablesOf(ManifestConfig) = VariablesOf(job.config)
      <4>1. \A s \in OperatorSections : ManifestConfig[s] = job.config[s]
        BY <3>1, ManifestWritten, SettingNames DEF Explained, OperatorSections
      <4> QED BY <4>1 DEF VariablesOf
    <3> QED BY <3>1, <3>2, ManifestWritten DEF Explained
  <2>2. CASE DeleteManifestSecret
    BY <2>2 DEF DeleteManifestSecret, Explained
  <2>3. CASE ~CreateManifestSecretOnCluster /\ ~DeleteManifestSecret
    <3>1. manifest' = manifest
      BY <2>3, ManifestKept
    <3>2. past.explicit \subseteq past'.explicit
      BY <2>3, ManifestKept, DeployBegins, Remembered
    <3> QED BY <3>1, <3>2 DEF Explained
  <2> QED BY <2>1, <2>2, <2>3
<1>2. job'.pc \in DeployPhases => IsConfig(job'.config) /\ VariablesOf(job'.config) \subseteq past'.explicit
  <2> SUFFICES ASSUME job'.pc \in DeployPhases
               PROVE  IsConfig(job'.config) /\ VariablesOf(job'.config) \subseteq past'.explicit
    OBVIOUS
  <2>1. CASE \A line \in Lines : ~BeginDeploy(line)
    BY <2>1, DeployContinues DEF Continues, Explained
  <2>2. ASSUME NEW line \in Lines, BeginDeploy(line)
        PROVE  IsConfig(job'.config) /\ VariablesOf(job'.config) \subseteq past'.explicit
    <3>1. job' # Idle
      BY DEF Idle, DeployPhases
    <3>2. PICK source \in Sources : job'.config = PreparedConfig(line, job'.stored, LookupMainImageTag(source), names')
      BY <2>2, <3>1, DeployBegins
    <3>3. past' = Remember(line) /\ LoadManifestSecret(job'.stored)
      BY <2>2, <3>1, DeployBegins
    <3>4. job'.stored = Unset \/ job'.stored = manifest
      BY <3>3 DEF LoadManifestSecret
    <3>5. past'.explicit = past.explicit \cup (VariablesOf(line.args) \cup VariablesOf(host.user))
      <4>1. past'.explicit = past.explicit \cup UNION {DOMAIN g[s].envVars : g \in {line.args, host.user},
                                                                             s \in OperatorSections}
        BY <3>3, Remembered
      <4> QED BY <4>1 DEF VariablesOf
    <3>6. job'.stored # Unset => IsConfig(job'.stored) /\ VariablesOf(job'.stored) \subseteq past.explicit
      BY <3>4 DEF Explained
    <3> QED BY <3>2, <3>5, <3>6, PreparedVariables
  <2> QED BY <2>1, <2>2
<1> QED BY <1>1, <1>2 DEF Explained, IsDeploy

\* An operator deploys the images of its configuration, unless a variable names another.
LEMMA OperandImages ==
    ASSUME SwitchesAreNoImages, NEW c, NEW i \in Range(OperatorInstances(c)), NEW n \in Images, n \notin VariablesOf(c)
    PROVE  OperandImage(PopulateOperatorEnvVars(i), n) = ConstructOperandImage(i, n)
<1>1. n \notin DOMAIN i.envVars /\ \E namespace, version, own, envVars : i = Instance(c, namespace, version, own, envVars)
  <2>1. \A s \in OperatorSections : n \notin DOMAIN c[s].envVars
    BY DEF VariablesOf
  <2>2. n \notin {"SECURED_CLUSTER_RECONCILER_ENABLED", "CENTRAL_RECONCILER_ENABLED"}
    BY DEF SwitchesAreNoImages
  <2>3. CASE HasMixedVersions(c)
    <3> DEFINE one == Over(Entry("SECURED_CLUSTER_RECONCILER_ENABLED", "false"), c.centralOperator.envVars)
               two == Over(Entry("CENTRAL_RECONCILER_ENABLED", "false"), c.sensorOperator.envVars)
    <3>1. n \notin DOMAIN one /\ n \notin DOMAIN two
      BY <2>1, <2>2, OverDomain DEF OperatorSections, Entry
    <3> HIDE DEF one, two
    <3>2. \/ i = Instance(c, "rhacs-operator-central", CentralVersion(c), c.centralOperator, one)
          \/ i = Instance(c, "rhacs-operator-sensor", SecuredClusterVersion(c), c.sensorOperator, two)
      BY <2>3 DEF OperatorInstances, Range, one, two
    <3> QED BY <3>1, <3>2 DEF Instance
  <2>4. CASE ~HasMixedVersions(c)
    <3>1. i = Instance(c, "rhacs-operator-system", CentralVersion(c), c.operator, c.operator.envVars)
      BY <2>4 DEF OperatorInstances, Range
    <3> QED BY <2>1, <3>1 DEF Instance, OperatorSections
  <2> QED BY <2>3, <2>4
<1> DEFINE needed == {k \in Images : \/ i.konflux
                                     \/ ConstructOperandImage(i, k) # ImageRef(i, k, i.version)}
           variables == Over(i.envVars, [k \in needed |-> ConstructOperandImage(i, k)])
           p == [i EXCEPT !.envVars = variables]
<1>2. PopulateOperatorEnvVars(i) = p
  BY DEF PopulateOperatorEnvVars
<1>3. /\ DOMAIN variables = DOMAIN i.envVars \cup needed
      /\ n \in needed => variables[n] = ConstructOperandImage(i, n)
  BY <1>1 DEF Over
<1> HIDE DEF variables
<1>4. p.envVars = variables /\ p.konflux = i.konflux /\ p.registry = i.registry /\ p.version = i.version
  BY <1>1 DEF Instance
<1> HIDE DEF p
<1>5. CASE n \in needed
  BY <1>2, <1>3, <1>4, <1>5 DEF OperandImage
<1>6. CASE n \notin needed
  <2>1. OperandImage(p, n) = ImageRef(p, n, p.version)
    BY <1>1, <1>3, <1>4, <1>6 DEF OperandImage
  <2>2. ImageRef(p, n, p.version) = ImageRef(i, n, i.version)
    BY <1>4 DEF ImageRef
  <2> QED BY <1>2, <1>6, <2>1, <2>2
<1> QED BY <1>5, <1>6

\* The inductive invariant of all that follows: what a deploy remembers and decides, and where its
\* variables come from.
Known == Decided /\ Jobs /\ Explained

THEOREM KnownAlways == ASSUME LegacyIsSound, LegacyWithoutVariables PROVE Spec => []Known
<1>1. Init => Known
  <2>1. Init => Explained
    BY LegacyIsSound, LegacyWithoutVariables
       DEF LegacyIsSound, LegacyWithoutVariables, Init, Explained, Idle, IsDeploy, DeployPhases
  <2> QED BY <2>1, DecidedInit, JobsFirst DEF Known
<1>2. Known /\ [Next]_vars => Known'
  <2>1. Decided => Shape
    BY DEF Decided
  <2> QED BY <2>1, DecidedNext, JobsKept, ExplainedKept, LegacyIsSound DEF Known, LegacyIsSound
<1> QED BY <1>1, <1>2, PTL DEF Spec

\* Variables that a deploy computes for its operators (populateOperatorEnvVars) do not get into a later one
\* through the manifest: an operator deploys the images of this deploy's configuration,
\* unless a line has given a variable for it, for all lines, hosts, manifests and faults.
THEOREM OperandImagesAreCurrentCorrect ==
    ASSUME LegacyIsSound, LegacyWithoutVariables, SwitchesAreNoImages
    PROVE  Spec => []OperandImagesAreCurrent
<1>1. Known => OperandImagesAreCurrent
  <2> SUFFICES ASSUME Known, Deploying, NEW i \in Instances, NEW n \in Images \ past.explicit
               PROVE  OperandImage(PopulateOperatorEnvVars(i), n) = ConstructOperandImage(i, n)
    BY DEF OperandImagesAreCurrent
  <2>1. IsDeploy
    BY DEF Deploying, Known, Jobs, IsDeploy, TeardownPhases
  <2>2. n \notin VariablesOf(job.config)
    BY <2>1 DEF Known, Explained
  <2> QED BY <2>2, OperandImages, SwitchesAreNoImages DEF Instances, Planned
<1> QED BY <1>1, KnownAlways, LegacyIsSound, LegacyWithoutVariables, PTL

----------------------------------------------------------------------------
(* Preloading *)

Preloaded == job.pc \in {"credentials", "operators", "central", "sensor", "manifest"}

\* Without a fault, a deploy that is past its preloading has the images on the node.
ImagesAreThere == Preloaded /\ Preloads /\ faults = 0 => WantedLocally \subseteq node

\* The machine and its cluster stay.
LEMMA HostStays == [Next]_vars => host' = host
BY DEF Next, BeginDeploy, BeginTeardown, CheckContainer, PrepareCredentials, TryTransferLocalImages, EnsureOperator,
       OperatorsDeployed, SkipCentral, SkipSecuredCluster, DeployCentral, DeploySecuredCluster,
       CreateManifestSecretOnCluster, Teardown, DeleteManifestSecret, Abort, vars

\* The node's images change only by preloading, and what comes after it comes from there.
LEMMA PreloadedOnce ==
    ASSUME Shape, Jobs, [Next]_vars, Preloaded', ~TryTransferLocalImages
    PROVE  Preloaded /\ node' = node
<1>0. /\ IsDeploy => DOMAIN job = JobFields
      /\ job.pc \in TeardownPhases => DOMAIN job = {"pc", "line", "stored", "config"}
      /\ Idle.pc = "idle"
  BY DEF Shape, Jobs, IsDeploy, DeployPhases, Idle
<1>1. ASSUME NEW line \in Lines, BeginDeploy(line) \/ BeginTeardown(line) PROVE FALSE
  <2>1. ASSUME BeginDeploy(line) PROVE FALSE
    <3>1. job' # Idle
      BY <1>0 DEF Preloaded
    <3> QED BY <2>1, <3>1, DeployBegins DEF Preloaded
  <2>2. ASSUME BeginTeardown(line) PROVE FALSE
    <3>1. job'.pc = "teardown"
      BY <2>2 DEF BeginTeardown
    <3> QED BY <3>1 DEF Preloaded
  <2> QED BY <1>1, <2>1, <2>2
<1>2. CASE CheckContainer
  <2>1. job.pc = "container" /\ DOMAIN job = JobFields
    BY <1>0, <1>2 DEF CheckContainer, IsDeploy, DeployPhases
  <2>2. \/ job' = Idle
        \/ \E probed : job' = [job EXCEPT !.pc = "images", !.probed = probed]
        \/ job' = [job EXCEPT !.pc = "images"]
    BY <1>2 DEF CheckContainer
  <2>3. job'.pc \in {"idle", "images"}
    BY <1>0, <2>1, <2>2 DEF JobFields
  <2> QED BY <2>3 DEF Preloaded
<1>3. CASE PrepareCredentials \/ EnsureOperator \/ OperatorsDeployed \/ SkipCentral \/ SkipSecuredCluster
           \/ DeployCentral \/ DeploySecuredCluster \/ UNCHANGED vars
  BY <1>3 DEF PrepareCredentials, EnsureOperator, OperatorsDeployed, SkipCentral, SkipSecuredCluster, DeployCentral,
              DeploySecuredCluster, vars, cluster, Preloaded
<1>4. CASE CreateManifestSecretOnCluster \/ DeleteManifestSecret \/ Abort
  <2>1. job' = Idle
    BY <1>4 DEF CreateManifestSecretOnCluster, DeleteManifestSecret, Abort
  <2> QED BY <1>0, <2>1 DEF Preloaded
<1>5. CASE Teardown
  <2>1. job'.pc = "forget"
    BY <1>0, <1>5 DEF Teardown, TeardownPhases
  <2> QED BY <2>1 DEF Preloaded
<1> QED BY <1>1, <1>2, <1>3, <1>4, <1>5 DEF Next

LEMMA ImagesStayThere == ASSUME Shape, Jobs, ImagesAreThere, [Next]_vars PROVE ImagesAreThere'
<1> SUFFICES ASSUME Preloaded', Preloads', faults' = 0 PROVE WantedLocally' \subseteq node'
  BY DEF ImagesAreThere
<1>1. faults = 0 /\ host' = host
  BY FaultsGrow, HostStays DEF Jobs
<1>2. job'.config = job.config
  <2>1. job'.pc \in DeployPhases
    BY DEF Preloaded, DeployPhases
  <2>2. \A line \in Lines : ~BeginDeploy(line)
    BY DeployBegins DEF Preloaded, Idle
  <2> QED BY <2>1, <2>2, DeployContinues DEF Continues
<1>3. WantedLocally' = WantedLocally /\ Preloads' = Preloads
  BY <1>1, <1>2 DEF WantedLocally, Preloads, HasPreLoader
<1>4. CASE TryTransferLocalImages
  <2>1. Preloads
    BY <1>3
  <2>2. node' = node \cup WantedLocally \/ faults' = faults + 1
    BY <1>4, <2>1 DEF TryTransferLocalImages, Spend
  <2> QED BY <1>1, <1>3, <2>2
<1>5. CASE ~TryTransferLocalImages
  BY <1>1, <1>3, <1>5, PreloadedOnce DEF ImagesAreThere
<1> QED BY <1>4, <1>5

\* Every image that an operator will deploy and that is here is on the node before (imagesForConfig,
\* tryTransferLocalImages), unless a variable names the image, in a deploy without faults, for all
\* configurations.
THEOREM PreloadCoversPlanCorrect ==
    ASSUME LegacyIsSound, LegacyWithoutVariables, SwitchesAreNoImages
    PROVE  Spec => []PreloadCoversPlan
<1>1. Init => ImagesAreThere
  BY DEF Init, ImagesAreThere, Idle, Preloaded
<1>2. Known /\ ImagesAreThere /\ [Next]_vars => ImagesAreThere'
  BY ImagesStayThere DEF Known, Decided
<1>3. Known /\ ImagesAreThere => PreloadCoversPlan
  <2> SUFFICES ASSUME Known, ImagesAreThere, Deploying, job.pc \in {"operators", "central", "sensor", "manifest"},
                      Preloads, faults = 0, NEW i \in Instances, NEW n \in Images \ past.explicit,
                      OperandImage(PopulateOperatorEnvVars(i), n) \in host.images
               PROVE  OperandImage(PopulateOperatorEnvVars(i), n) \in node
    BY DEF PreloadCoversPlan
  <2>1. IsDeploy /\ Preloaded
    BY DEF IsDeploy, DeployPhases, Preloaded
  <2>2. n \notin VariablesOf(job.config)
    BY <2>1 DEF Known, Explained
  <2>3. OperandImage(PopulateOperatorEnvVars(i), n) = ConstructOperandImage(i, n)
    BY <2>2, OperandImages, SwitchesAreNoImages DEF Instances, Planned
  <2>4. ConstructOperandImage(i, n) \in ImagesForConfig(job.config)
    BY DEF ImagesForConfig, Instances, Planned
  <2> QED BY <2>1, <2>3, <2>4 DEF ImagesAreThere, WantedLocally
<1> QED BY <1>1, <1>2, <1>3, KnownAlways, LegacyIsSound, LegacyWithoutVariables, PTL DEF Spec

----------------------------------------------------------------------------
(* Pull secrets *)

NamespacesOf(c) == {c.central.namespace, c.securedCluster.namespace}

\* Lines, users' files and old manifests name namespaces that there are.
PlacesExist == /\ NamespacesOf(DefaultConfig) \subseteq Namespaces
               /\ \A line \in Lines : NamespacesOf(line.args) \subseteq Namespaces \cup {Unset}
               /\ \A h \in Hosts : NamespacesOf(h.user) \subseteq Namespaces \cup {Unset}
               /\ \A m \in Legacy : m # Unset => NamespacesOf(m) \subseteq Namespaces

\* ... and leave the cluster's type to detectClusterType.
TypesAreDetected == /\ \A line \in Lines : line.args.roxie.clusterType = Unset
                    /\ \A h \in Hosts : h.user.roxie.clusterType = Unset
                    /\ \A m \in Legacy, h \in Hosts :
                         m # Unset => m.roxie.clusterType \in {Unset, DetectClusterType(h.kube)}

Detected == DetectClusterType(host.kube)

\* The namespaces of every configuration exist, and its cluster type is that of the cluster.
Placed == /\ manifest # Unset => NamespacesOf(manifest) \subseteq Namespaces
                                 /\ manifest.roxie.clusterType \in {Unset, Detected}
          /\ IsDeploy => NamespacesOf(job.config) \subseteq Namespaces /\ job.config.roxie.clusterType = Detected
          /\ DOMAIN pullSecrets = Namespaces \cup OperatorNamespaces

\* What a merge makes of one setting.
LEMMA MergedSetting ==
    ASSUME NEW base, IsConfig(base), NEW user, NEW args, NEW s \in Sections, NEW f \in SettingsOf(s)
    PROVE  Patched(Patched(base, user), args)[s][f] =
             IF f \in MapSettings THEN Over(args[s][f], Over(user[s][f], base[s][f]))
             ELSE FirstSet(args[s][f], FirstSet(user[s][f], base[s][f]))
<1>1. /\ IsConfig(Patched(base, user))
      /\ Patched(base, user)[s][f] = IF f \in MapSettings THEN Over(user[s][f], base[s][f])
                                     ELSE FirstSet(user[s][f], base[s][f])
  BY PatchedSettings
<1>2. Patched(Patched(base, user), args)[s][f]
        = IF f \in MapSettings THEN Over(args[s][f], Patched(base, user)[s][f])
          ELSE FirstSet(args[s][f], Patched(base, user)[s][f])
  BY <1>1, PatchedSettings
<1> QED BY <1>1, <1>2

\* Namespaces and cluster type of a deploy's configuration.
LEMMA PreparedPlaces ==
    ASSUME ~IsConfig(Unset), PlacesExist, TypesAreDetected, host \in Hosts, NEW line \in Lines, NEW stored,
           stored # Unset => IsConfig(stored) /\ NamespacesOf(stored) \subseteq Namespaces
                                              /\ stored.roxie.clusterType \in {Unset, Detected},
           NEW tag, NEW name
    PROVE  LET p == PreparedConfig(line, stored, tag, name)
           IN  NamespacesOf(p) \subseteq Namespaces /\ p.roxie.clusterType = Detected
<1> DEFINE base == Base(stored, line.components)
           p == PreparedConfig(line, stored, tag, name)
<1>1. PICK c : /\ Merged(base, host.user, line.args, tag, line.components, name, c)
               /\ Completed(c, line.components, Detected, p)
  BY PreparedSettings DEF Detected
<1> HIDE DEF p
<1>2. IsConfig(base)
  BY BaseSettings, DefaultIsConfig DEF Base
<1>3. /\ base.central.namespace \in Namespaces /\ base.securedCluster.namespace \in Namespaces
      /\ base.roxie.clusterType \in {Unset, Detected}
  <2>1. CASE stored = Unset
    <3>1. base = DefaultConfig
      BY <2>1 DEF Base
    <3>2. DefaultConfig.roxie.clusterType = Unset
      BY DEF DefaultConfig, Nothing
    <3> QED BY <3>1, <3>2, PlacesExist DEF PlacesExist, NamespacesOf
  <2>2. CASE stored # Unset
    <3>1. \A s \in Sections : s \notin {"operator", "securedCluster"} => base[s] = stored[s]
      BY <2>2, BaseSettings
    <3>2. \A f \in SettingsOf("securedCluster") : f # "spec" => base.securedCluster[f] = stored.securedCluster[f]
      BY <2>2, BaseSettings
    <3> HIDE DEF base
    <3>3. base.central = stored.central /\ base.roxie = stored.roxie
      BY <3>1, SettingNames
    <3>4. base.securedCluster.namespace = stored.securedCluster.namespace
      BY <3>2, SettingNames
    <3> QED BY <2>2, <3>3, <3>4 DEF NamespacesOf
  <2> QED BY <2>1, <2>2
<1> HIDE DEF base
<1>4. /\ c.central.namespace = FirstSet(line.args.central.namespace,
                                        FirstSet(host.user.central.namespace, base.central.namespace))
      /\ c.securedCluster.namespace = FirstSet(line.args.securedCluster.namespace,
                                        FirstSet(host.user.securedCluster.namespace, base.securedCluster.namespace))
      /\ c.roxie.clusterType = FirstSet(line.args.roxie.clusterType,
                                        FirstSet(host.user.roxie.clusterType, base.roxie.clusterType))
  <2> DEFINE a == Patched(Patched(base, host.user), line.args)
  <2>1. /\ c.central = a.central /\ c.roxie.clusterType = a.roxie.clusterType
        /\ c.securedCluster.namespace = a.securedCluster.namespace
    BY <1>1, SettingNames DEF Merged
  <2>2. {"namespace", "clusterType"} \cap MapSettings = {}
    BY DEF MapSettings
  <2>3. a.central.namespace = FirstSet(line.args.central.namespace,
                                       FirstSet(host.user.central.namespace, base.central.namespace))
    BY <1>2, <2>2, MergedSetting, SettingNames
  <2>4. a.securedCluster.namespace = FirstSet(line.args.securedCluster.namespace,
                                       FirstSet(host.user.securedCluster.namespace, base.securedCluster.namespace))
    BY <1>2, <2>2, MergedSetting, SettingNames
  <2>5. a.roxie.clusterType = FirstSet(line.args.roxie.clusterType,
                                       FirstSet(host.user.roxie.clusterType, base.roxie.clusterType))
    BY <1>2, <2>2, MergedSetting, SettingNames
  <2> HIDE DEF a
  <2> QED BY <2>1, <2>3, <2>4, <2>5
<1>5. c.central.namespace \in Namespaces /\ c.securedCluster.namespace \in Namespaces
  BY <1>3, <1>4, PlacesExist DEF PlacesExist, NamespacesOf, FirstSet
<1>6. c.roxie.clusterType \in {Unset, Detected}
  BY <1>3, <1>4, TypesAreDetected DEF TypesAreDetected, FirstSet
<1>7. /\ p.central.namespace = c.central.namespace /\ p.securedCluster.namespace = c.securedCluster.namespace
      /\ p.roxie.clusterType = FirstSet(c.roxie.clusterType, Detected)
  BY <1>1 DEF Completed
<1>8. p.roxie.clusterType = Detected
  BY <1>6, <1>7 DEF FirstSet
<1> QED BY <1>5, <1>7, <1>8 DEF NamespacesOf, p

LEMMA PlacedKept ==
    ASSUME ~IsConfig(Unset), PlacesExist, TypesAreDetected, Known, Placed, [Next]_vars
    PROVE  Placed'
<1>known. Shape /\ Jobs /\ Explained
  BY DEF Known, Decided
<1>host. host' = host /\ Detected' = Detected
  BY HostStays DEF Detected
<1>1. manifest' # Unset => NamespacesOf(manifest') \subseteq Namespaces
                           /\ manifest'.roxie.clusterType \in {Unset, Detected}
  <2>1. CASE CreateManifestSecretOnCluster
    <3>1. IsDeploy /\ (manifest' = ManifestConfig \/ manifest' = manifest)
      BY <2>1 DEF CreateManifestSecretOnCluster, IsDeploy, DeployPhases
    <3>2. /\ ManifestConfig.central = job.config.central /\ ManifestConfig.securedCluster = job.config.securedCluster
          /\ ManifestConfig.roxie.clusterType = job.config.roxie.clusterType
      BY <1>known, <3>1, ManifestWritten, SettingNames DEF Explained
    <3> QED BY <3>1, <3>2 DEF Placed, NamespacesOf
  <2>2. CASE DeleteManifestSecret
    BY <2>2 DEF DeleteManifestSecret, Placed
  <2>3. CASE ~CreateManifestSecretOnCluster /\ ~DeleteManifestSecret
    BY <1>known, <2>3, ManifestKept DEF Placed
  <2> QED BY <2>1, <2>2, <2>3
<1>2. job'.pc \in DeployPhases => NamespacesOf(job'.config) \subseteq Namespaces
                                  /\ job'.config.roxie.clusterType = Detected
  <2> SUFFICES ASSUME job'.pc \in DeployPhases
               PROVE  NamespacesOf(job'.config) \subseteq Namespaces /\ job'.config.roxie.clusterType = Detected
    OBVIOUS
  <2>1. CASE \A line \in Lines : ~BeginDeploy(line)
    BY <1>known, <2>1, DeployContinues DEF Continues, Placed
  <2>2. ASSUME NEW line \in Lines, BeginDeploy(line)
        PROVE  NamespacesOf(job'.config) \subseteq Namespaces /\ job'.config.roxie.clusterType = Detected
    <3>1. job' # Idle
      BY DEF Idle, DeployPhases
    <3>2. PICK source \in Sources : job'.config = PreparedConfig(line, job'.stored, LookupMainImageTag(source), names')
      BY <2>2, <3>1, DeployBegins
    <3>3. job'.stored = Unset \/ job'.stored = manifest
      BY <2>2, <3>1, DeployBegins DEF LoadManifestSecret
    <3>4. job'.stored # Unset => IsConfig(job'.stored) /\ NamespacesOf(job'.stored) \subseteq Namespaces
                                                       /\ job'.stored.roxie.clusterType \in {Unset, Detected}
      BY <1>known, <3>3 DEF Explained, Placed
    <3> QED BY <1>known, <3>2, <3>4, PreparedPlaces DEF Jobs
  <2> QED BY <2>1, <2>2
<1>3. DOMAIN pullSecrets' = DOMAIN pullSecrets
  <2>1. CASE EnsureOperator
    BY <2>1 DEF EnsureOperator, WithPullSecret
  <2>2. CASE DeployCentral
    BY <2>2 DEF DeployCentral, WithPullSecret
  <2>3. CASE DeploySecuredCluster
    BY <2>3 DEF DeploySecuredCluster, WithPullSecret
  <2>4. CASE Teardown
    BY <2>4 DEF Teardown
  <2>5. CASE ~EnsureOperator /\ ~DeployCentral /\ ~DeploySecuredCluster /\ ~Teardown
    BY <2>5 DEF Next, BeginDeploy, BeginTeardown, CheckContainer, PrepareCredentials, TryTransferLocalImages,
       OperatorsDeployed, SkipCentral, SkipSecuredCluster, CreateManifestSecretOnCluster, DeleteManifestSecret,
       Abort, vars, cluster
  <2> QED BY <2>1, <2>2, <2>3, <2>4, <2>5
<1> QED BY <1>host, <1>1, <1>2, <1>3 DEF Placed, IsDeploy

LEMMA PlacedFirst == ASSUME PlacesExist, TypesAreDetected, LegacyIsSound PROVE Init => Placed
<1> SUFFICES ASSUME Init PROVE Placed
  OBVIOUS
<1>1. manifest # Unset => /\ NamespacesOf(manifest) \subseteq Namespaces
                          /\ manifest.roxie.clusterType \in {Unset, Detected}
  BY DEF Init, PlacesExist, TypesAreDetected, Detected
<1>2. ~IsDeploy /\ DOMAIN pullSecrets = Namespaces \cup OperatorNamespaces
  BY DEF Init, Idle, IsDeploy, DeployPhases
<1> QED BY <1>1, <1>2 DEF Placed

\* Without a fault, a deploy remembers of a repository whether it is private.
Truthful == faults = 0 /\ IsDeploy => \A r \in DOMAIN job.probed : job.probed[r] = (r \in host.private)

\* Credentials at hand open the deploy's registry.
OpensRegistry == job.pc \in {"operators", "central", "sensor"} /\ job.creds # Refused => Registry \in job.creds

\* Without a fault, a step costs nothing.
LEMMA CostsNothing ==
    ASSUME faults \in Nat, NEW k \in Nat, Spend(k), faults' = 0
    PROVE  k = 0 /\ faults = 0
BY SpendCounts

\* An answer that costs nothing is true.
LEMMA AnswersAreTrue ==
    ASSUME \A q \in DOMAIN job.probed : job.probed[q] = (q \in host.private),
           NEW r, NEW probe \in RepoRequiresAuth(r), probe[2] = 0
    PROVE  /\ probe[1] = (r \in host.private)
           /\ \A q \in DOMAIN Probed(r, probe[1]) : Probed(r, probe[1])[q] = (q \in host.private)
<1>1. probe[1] = IF r \in DOMAIN job.probed THEN job.probed[r] ELSE (r \in host.private)
  BY AnswersCost
<1>2. probe[1] = (r \in host.private)
  <2>1. CASE r \in DOMAIN job.probed
    BY <1>1, <2>1, Zenon
  <2>2. CASE r \notin DOMAIN job.probed
    BY <1>1, <2>2, Zenon
  <2> QED BY <2>1, <2>2
<1>3. ASSUME NEW q \in DOMAIN Probed(r, probe[1])
      PROVE  Probed(r, probe[1])[q] = (q \in host.private)
  <2> DEFINE answers == Probed(r, probe[1])
  <2>1. CASE q \in DOMAIN job.probed
    <3>1. answers[q] = job.probed[q]
      BY <2>1, AnswerStays
    <3>2. job.probed[q] = (q \in host.private)
      BY <2>1
    <3> QED BY <3>1, <3>2, Zenon
  <2>2. CASE q \notin DOMAIN job.probed
    <3>1. q = r /\ answers[q] = probe[1]
      BY <2>2, <1>3 DEF Probed, Over, Entry
    <3> HIDE DEF answers
    <3>2. answers[q] = (q \in host.private)
      BY <3>1, <1>2, Zenon
    <3> QED BY <3>2 DEF answers
  <2> QED BY <2>1, <2>2
<1> QED BY <1>2, <1>3

LEMMA TruthfulKept == ASSUME Shape, Jobs, Truthful, [Next]_vars PROVE Truthful'
<1> SUFFICES ASSUME faults' = 0, job'.pc \in DeployPhases
             PROVE  \A q \in DOMAIN job'.probed : job'.probed[q] = (q \in host.private)
  BY HostStays DEF Truthful, IsDeploy
<1>0. /\ faults \in Nat /\ faults = 0 /\ Idle.pc \notin DeployPhases
      /\ IsDeploy => DOMAIN job = JobFields
  BY FaultsGrow DEF Jobs, Idle, DeployPhases, Shape, IsDeploy
<1>1. ASSUME NEW line \in Lines, BeginDeploy(line)
      PROVE  \A q \in DOMAIN job'.probed : job'.probed[q] = (q \in host.private)
  <2>1. job'.probed = << >>
    BY <1>0, <1>1, DeployBegins
  <2>2. DOMAIN << >> = {}
    OBVIOUS
  <2> QED BY <2>1, <2>2
<1>2. CASE \A line \in Lines : ~BeginDeploy(line)
  <2>1. IsDeploy
    BY <1>2, DeployContinues DEF Continues
  <2>2. \A q \in DOMAIN job.probed : job.probed[q] = (q \in host.private)
    BY <1>0, <2>1 DEF Truthful
  <2>3. job'.probed = job.probed
        \/ \E r : \E probe \in RepoRequiresAuth(r) : probe[2] = 0 /\ job'.probed = Probed(r, probe[1])
    <3>1. ASSUME CheckContainer
          PROVE  \/ job'.probed = job.probed
                 \/ \E r : \E probe \in RepoRequiresAuth(r) : probe[2] = 0 /\ job'.probed = Probed(r, probe[1])
      <4>1. CASE job.line.place.container
        <5>1. PICK probe \in MainProbes :
                /\ Spend(probe[2])
                /\ job' = IF /\ NeedsPullSecrets(job.config, probe[1])
                            /\ ~(host.login.username /\ host.login.password)
                          THEN Idle
                          ELSE [job EXCEPT !.pc = "images", !.probed = Probed(MainRepository(job.config), probe[1])]
          BY <3>1, <4>1 DEF CheckContainer
        <5>2. job'.probed = Probed(MainRepository(job.config), probe[1])
          BY <1>0, <2>1, <5>1 DEF JobFields
        <5>3. probe[2] = 0
          BY <1>0, <5>1, AnswersCost, CostsNothing DEF MainProbes
        <5> QED BY <5>2, <5>3 DEF MainProbes
      <4>2. CASE ~job.line.place.container
        BY <2>1, <3>1, <4>2, <1>0 DEF CheckContainer, JobFields
      <4> QED BY <4>1, <4>2
    <3>2. ASSUME PrepareCredentials
          PROVE  \E r : \E probe \in RepoRequiresAuth(r) : probe[2] = 0 /\ job'.probed = Probed(r, probe[1])
      <4>1. PICK probe \in MainProbes : 
              /\ Spend(probe[2])
              /\ \/ job' = Idle
                 \/ \E creds : job' = [job EXCEPT !.pc = "operators",
                                                  !.probed = Probed(MainRepository(job.config), probe[1]),
                                                  !.creds = creds]
        BY <3>2 DEF PrepareCredentials
      <4>2. job'.probed = Probed(MainRepository(job.config), probe[1])
        BY <1>0, <2>1, <4>1 DEF JobFields
      <4>3. probe[2] = 0
        BY <1>0, <4>1, AnswersCost, CostsNothing DEF MainProbes
      <4> QED BY <4>2, <4>3 DEF MainProbes
    <3>3. ASSUME EnsureOperator
          PROVE  \/ job'.probed = job.probed
                 \/ \E r : \E probe \in RepoRequiresAuth(r) : probe[2] = 0 /\ job'.probed = Probed(r, probe[1])
      <4> DEFINE r == OperatorRepository(Planned[job.instance])
                 olm == Enabled(job.config.mode.deployViaOlm)
                 next == [job EXCEPT !.instance = @ + 1]
      <4>1. \/ job' = Idle \/ job' = next
            \/ \E probe \in RepoRequiresAuth(r), lost \in BOOLEAN :
                 /\ Spend(probe[2] + IF lost THEN 1 ELSE 0)
                 /\ job' = [next EXCEPT !.probed = Probed(r, probe[1])]
        BY <3>3 DEF EnsureOperator
      <4>2. CASE job' = next
        BY <1>0, <2>1, <4>2 DEF JobFields
      <4>3. ASSUME NEW probe \in RepoRequiresAuth(r), NEW lost \in BOOLEAN,
                   Spend(probe[2] + IF lost THEN 1 ELSE 0), job' = [next EXCEPT !.probed = Probed(r, probe[1])]
            PROVE  probe[2] = 0 /\ job'.probed = Probed(r, probe[1])
        <5>1. probe[2] \in Nat /\ (IF lost THEN 1 ELSE 0) \in Nat
          BY AnswersCost
        <5>2. probe[2] + (IF lost THEN 1 ELSE 0) = 0
          <6>1. probe[2] + (IF lost THEN 1 ELSE 0) \in Nat
            BY <5>1
          <6> QED BY <1>0, <4>3, <6>1, CostsNothing
        <5>3. probe[2] = 0
          BY <5>1, <5>2
        <5>4. job'.probed = Probed(r, probe[1])
          BY <1>0, <2>1, <4>3 DEF JobFields
        <5> QED BY <5>3, <5>4
      <4> QED BY <1>0, <4>1, <4>2, <4>3
    <3>4. ASSUME \/ TryTransferLocalImages \/ OperatorsDeployed \/ SkipCentral \/ SkipSecuredCluster
                 \/ UNCHANGED vars
          PROVE  job'.probed = job.probed
      BY <1>0, <2>1, <3>4 DEF TryTransferLocalImages, OperatorsDeployed, SkipCentral, SkipSecuredCluster, vars, JobFields
    <3>5. ASSUME DeployCentral \/ DeploySecuredCluster PROVE job'.probed = job.probed
      <4>1. \/ job' = Idle \/ \E n : job' = [job EXCEPT !.pc = "sensor", !.endpoint = n]
            \/ job' = [job EXCEPT !.pc = "manifest"]
        BY <3>5 DEF DeployCentral, DeploySecuredCluster
      <4> QED BY <1>0, <2>1, <4>1 DEF JobFields
    <3>6. ASSUME CreateManifestSecretOnCluster \/ DeleteManifestSecret \/ Abort PROVE FALSE
      BY <1>0, <3>6 DEF CreateManifestSecretOnCluster, DeleteManifestSecret, Abort
    <3>7. ASSUME Teardown PROVE FALSE
      BY <2>1, <3>7 DEF Teardown, IsDeploy, DeployPhases
    <3>8. ASSUME NEW line \in Lines, BeginTeardown(line) PROVE FALSE
      BY <3>8 DEF BeginTeardown, DeployPhases
    <3> QED BY <1>2, <3>1, <3>2, <3>3, <3>4, <3>5, <3>6, <3>7, <3>8 DEF Next
  <2>4. CASE job'.probed = job.probed
    BY <2>2, <2>4
  <2>5. ASSUME NEW r, NEW probe \in RepoRequiresAuth(r), probe[2] = 0, job'.probed = Probed(r, probe[1])
        PROVE  \A q \in DOMAIN job'.probed : job'.probed[q] = (q \in host.private)
    BY <2>2, <2>5, AnswersAreTrue
  <2> QED BY <2>3, <2>4, <2>5
<1> QED BY <1>1, <1>2

\* What is at hand after the preparation was found to open the registry (getAndVerifyCredentials), and stays.
LEMMA OpensRegistryKept == ASSUME Shape, Jobs, OpensRegistry, [Next]_vars PROVE OpensRegistry'
<1> SUFFICES ASSUME job'.pc \in {"operators", "central", "sensor"}, job'.creds # Refused
             PROVE  Registry' \in job'.creds
  BY DEF OpensRegistry
<1>0. Idle.pc = "idle" /\ (IsDeploy => DOMAIN job = JobFields) /\ job'.pc \in DeployPhases
  BY DEF Idle, Shape, IsDeploy, DeployPhases
<1>1. /\ \A line \in Lines : ~BeginDeploy(line)
      /\ \A line \in Lines : ~BeginTeardown(line)
  <2>1. ASSUME NEW line \in Lines, BeginDeploy(line) PROVE FALSE
    BY <1>0, <2>1, DeployBegins
  <2>2. ASSUME NEW line \in Lines, BeginTeardown(line) PROVE FALSE
    BY <2>2 DEF BeginTeardown
  <2> QED BY <2>1, <2>2
<1>2. IsDeploy /\ job'.config = job.config /\ Registry' = Registry
  BY <1>0, <1>1, DeployContinues DEF Continues, Registry
<1>3. CASE PrepareCredentials
  <2> DEFINE found == GetAndVerifyCredentials(host.login, Registry, host.hostOf[Registry])
  <2>1. \/ job' = Idle
        \/ \E pc, probed : \E creds \in {found, Refused} :
             job' = [job EXCEPT !.pc = pc, !.probed = probed, !.creds = creds]
    BY <1>3 DEF PrepareCredentials
  <2> HIDE DEF found
  <2>2. job'.creds = found
    BY <1>0, <1>2, <2>1 DEF JobFields
  <2>3. found # Refused => Registry \in found
    BY DEF found, GetAndVerifyCredentials
  <2> QED BY <1>2, <2>2, <2>3
<1>4. CASE EnsureOperator \/ OperatorsDeployed \/ DeployCentral \/ SkipCentral \/ UNCHANGED vars
  <2>1. job.pc \in {"operators", "central", "sensor"}
    BY <1>4 DEF EnsureOperator, OperatorsDeployed, DeployCentral, SkipCentral, vars
  <2>2. \/ job' = Idle \/ job' = job
        \/ \E i, probed, pc, n : \/ job' = [job EXCEPT !.instance = i]
                                 \/ job' = [[job EXCEPT !.instance = i] EXCEPT !.probed = probed]
                                 \/ job' = [job EXCEPT !.pc = pc]
                                 \/ job' = [job EXCEPT !.pc = pc, !.endpoint = n]
    BY <1>4 DEF EnsureOperator, OperatorsDeployed, DeployCentral, SkipCentral, vars
  <2>3. job'.creds = job.creds
    BY <1>0, <1>2, <2>2 DEF JobFields
  <2> QED BY <1>2, <2>1, <2>3 DEF OpensRegistry
<1>5. ASSUME CheckContainer \/ TryTransferLocalImages PROVE FALSE
  <2>1. \/ job' = Idle
        \/ \E probed : job' = [job EXCEPT !.pc = "images", !.probed = probed]
        \/ job' = [job EXCEPT !.pc = "images"] \/ job' = [job EXCEPT !.pc = "credentials"]
    BY <1>5 DEF CheckContainer, TryTransferLocalImages
  <2> QED BY <1>0, <1>2, <2>1 DEF JobFields
<1>6. ASSUME DeploySecuredCluster \/ SkipSecuredCluster PROVE FALSE
  <2>1. job' = Idle \/ job' = [job EXCEPT !.pc = "manifest"]
    BY <1>6 DEF DeploySecuredCluster, SkipSecuredCluster
  <2> QED BY <1>0, <1>2, <2>1 DEF JobFields
<1>7. ASSUME CreateManifestSecretOnCluster \/ DeleteManifestSecret \/ Abort PROVE FALSE
  BY <1>0, <1>7 DEF CreateManifestSecretOnCluster, DeleteManifestSecret, Abort
<1>8. ASSUME Teardown PROVE FALSE
  BY <1>2, <1>8 DEF Teardown, IsDeploy, DeployPhases
<1> QED BY <1>1, <1>3, <1>4, <1>5, <1>6, <1>7, <1>8 DEF Next

Access == Placed /\ Truthful /\ OpensRegistry

\* A deploy without faults has the credentials that its cluster does not have.
LEMMA HasCredentials ==
    ASSUME Known, Access, faults = 0, NeedsSecret(Registry), job.pc \in {"operators", "central", "sensor"},
           NEW probe \in MainProbes, probe[2] = 0
    PROVE  /\ NeedsPullSecrets(job.config, probe[1])
           /\ job.creds # Refused /\ Registry \in PullSecret(job.creds, Registry)
<1>1. IsDeploy /\ job.config.roxie.clusterType = Detected
  BY DEF Access, Placed, IsDeploy, DeployPhases
<1>2. \A r \in DOMAIN job.probed : job.probed[r] = (r \in host.private)
  BY <1>1 DEF Access, Truthful
<1>3. probe[1] = (Main \in host.private)
  BY <1>2, AnswersAreTrue DEF MainProbes, Main
<1>4. Main \in host.private
  BY DEF NeedsSecret, Main, MainRepository, Registry
<1>5. probe[1]
  BY <1>3, <1>4, Zenon
<1>6. NeedsPullSecrets(job.config, probe[1])
  BY <1>1, <1>5 DEF NeedsPullSecrets, NeedsSecret, UsesCustomRegistry, Registry, Detected
<1>7. job.creds # Refused
  BY <1>6, NeverWithout DEF Known, Decided
<1>8. Registry \in job.creds
  BY <1>7 DEF Access, OpensRegistry
<1> QED BY <1>6, <1>7, <1>8 DEF PullSecret

\* What is deployed so far can pull its images.
Opened == faults = 0 /\ NeedsSecret(Registry) =>
            /\ job.pc \in {"sensor", "manifest"} /\ "central" \in job.line.components
                 => Registry \in pullSecrets[job.config.central.namespace]
            /\ job.pc = "manifest" /\ "sensor" \in job.line.components
                 => Registry \in pullSecrets[job.config.securedCluster.namespace]

LEMMA OpenedKept ==
    ASSUME Known, Access, Opened, [Next]_vars
    PROVE  Opened'
<1> SUFFICES ASSUME faults' = 0, NeedsSecret(Registry)', job'.pc \in {"sensor", "manifest"}
             PROVE  /\ "central" \in job'.line.components
                         => Registry' \in pullSecrets'[job'.config.central.namespace]
                    /\ job'.pc = "manifest" /\ "sensor" \in job'.line.components
                         => Registry' \in pullSecrets'[job'.config.securedCluster.namespace]
  BY DEF Opened
<1>0. /\ Idle.pc = "idle" /\ (IsDeploy => DOMAIN job = JobFields) /\ job'.pc \in DeployPhases
      /\ faults = 0 /\ faults \in Nat /\ Shape /\ Jobs
  BY FaultsGrow DEF Idle, Shape, IsDeploy, DeployPhases, Known, Decided, Jobs
<1>1. /\ \A line \in Lines : ~BeginDeploy(line)
      /\ \A line \in Lines : ~BeginTeardown(line)
  <2>1. ASSUME NEW line \in Lines, BeginDeploy(line) PROVE FALSE
    BY <1>0, <2>1, DeployBegins
  <2>2. ASSUME NEW line \in Lines, BeginTeardown(line) PROVE FALSE
    BY <2>2 DEF BeginTeardown
  <2> QED BY <2>1, <2>2
<1>2. IsDeploy /\ job'.config = job.config /\ job'.line = job.line /\ Registry' = Registry
  BY <1>0, <1>1, DeployContinues DEF Continues, Registry
<1>3. NeedsSecret(Registry)
  BY <1>2, HostStays DEF NeedsSecret
<1>4. /\ job.config.central.namespace \in DOMAIN pullSecrets
      /\ job.config.securedCluster.namespace \in DOMAIN pullSecrets
  BY <1>2 DEF Access, Placed, NamespacesOf
<1> DEFINE Gets(n) == [pullSecrets EXCEPT ![n] = PullSecret(job.creds, Registry)]
<1>5. ASSUME NEW n, NEW probe \in MainProbes, NEW lost \in BOOLEAN, job.pc \in {"central", "sensor"},
             Spend(probe[2] + IF lost THEN 1 ELSE 0)
      PROVE  /\ NeedsPullSecrets(job.config, probe[1]) /\ job.creds # Refused
             /\ Registry \in PullSecret(job.creds, Registry)
             /\ WithPullSecret(pullSecrets, n, NeedsPullSecrets(job.config, probe[1]), lost) = Gets(n)
  <2>1. probe[2] \in Nat /\ (IF lost THEN 1 ELSE 0) \in Nat
    BY AnswersCost DEF MainProbes
  <2>2. probe[2] + (IF lost THEN 1 ELSE 0) \in Nat
    BY <2>1
  <2>3. probe[2] + (IF lost THEN 1 ELSE 0) = 0
    BY <1>0, <1>5, <2>2, CostsNothing
  <2>4. probe[2] = 0 /\ ~lost
    BY <2>1, <2>3
  <2>5. /\ NeedsPullSecrets(job.config, probe[1]) /\ job.creds # Refused
        /\ Registry \in PullSecret(job.creds, Registry)
    BY <1>0, <1>3, <1>5, <2>4, HasCredentials
  <2> QED BY <2>4, <2>5 DEF WithPullSecret
<1>6. CASE DeployCentral
  <2> DEFINE n == job.config.central.namespace
  <2>1. PICK probe \in MainProbes, lost \in BOOLEAN :
          /\ Spend(probe[2] + IF lost THEN 1 ELSE 0)
          /\ IF NeedsPullSecrets(job.config, probe[1]) /\ job.creds = Refused
             THEN job' = Idle
             ELSE /\ pullSecrets' = WithPullSecret(pullSecrets, n, NeedsPullSecrets(job.config, probe[1]), lost)
                  /\ job' = [job EXCEPT !.pc = "sensor", !.endpoint = n]
    BY <1>6 DEF DeployCentral
  <2>2. job.pc = "central"
    BY <1>6 DEF DeployCentral
  <2> HIDE DEF n
  <2>3. /\ pullSecrets' = Gets(n) /\ Registry \in PullSecret(job.creds, Registry)
        /\ job' = [job EXCEPT !.pc = "sensor", !.endpoint = n]
    BY <1>0, <1>5, <2>1, <2>2
  <2>4. job'.pc = "sensor"
    BY <1>0, <1>2, <2>3 DEF JobFields
  <2>5. Registry \in pullSecrets'[n]
    BY <1>4, <2>3 DEF n
  <2> QED BY <1>2, <2>4, <2>5 DEF n
<1>7. CASE DeploySecuredCluster
  <2> DEFINE n == job.config.securedCluster.namespace
  <2>1. PICK probe \in MainProbes, lost \in BOOLEAN :
          /\ Spend(probe[2] + IF lost THEN 1 ELSE 0)
          /\ pullSecrets' = IF NeedsPullSecrets(job.config, probe[1]) /\ job.creds = Refused THEN pullSecrets
                            ELSE WithPullSecret(pullSecrets, n, NeedsPullSecrets(job.config, probe[1]), lost)
    BY <1>7 DEF DeploySecuredCluster
  <2>2. job.pc = "sensor"
    BY <1>7 DEF DeploySecuredCluster
  <2> HIDE DEF n
  <2>3. pullSecrets' = Gets(n) /\ Registry \in PullSecret(job.creds, Registry)
    BY <1>0, <1>5, <2>1, <2>2
  <2>4. Registry \in pullSecrets'[n]
    BY <1>4, <2>3 DEF n
  <2>5. "central" \in job.line.components => Registry \in pullSecrets[job.config.central.namespace]
    BY <1>0, <1>3, <2>2 DEF Opened
  <2>6. "central" \in job.line.components => Registry \in pullSecrets'[job.config.central.namespace]
    BY <1>4, <2>3, <2>5
  <2> QED BY <1>2, <2>4, <2>6 DEF n
<1>8. CASE SkipCentral \/ SkipSecuredCluster \/ UNCHANGED vars
  <2>1. CASE SkipCentral
    <3>1. "central" \notin job.line.components /\ job' = [job EXCEPT !.pc = "sensor"]
      BY <2>1 DEF SkipCentral
    <3>2. job'.pc = "sensor"
      BY <1>0, <1>2, <3>1 DEF JobFields
    <3> QED BY <1>2, <3>1, <3>2
  <2>2. CASE SkipSecuredCluster
    <3>1. "sensor" \notin job.line.components /\ job.pc = "sensor" /\ pullSecrets' = pullSecrets
      BY <2>2 DEF SkipSecuredCluster, cluster
    <3> QED BY <1>0, <1>2, <1>3, <3>1 DEF Opened
  <2>3. CASE UNCHANGED vars
    <3>1. job' = job /\ pullSecrets' = pullSecrets
      BY <2>3 DEF vars, cluster
    <3> QED BY <1>0, <1>3, <3>1 DEF Opened, Registry
  <2> QED BY <1>8, <2>1, <2>2, <2>3
<1>9. ASSUME CheckContainer \/ TryTransferLocalImages \/ PrepareCredentials \/ EnsureOperator \/ OperatorsDeployed
      PROVE  FALSE
  <2>1. \/ job' = Idle
        \/ \E pc \in {"images", "credentials", "operators", "central"} : \E probed, creds :
             \/ job' = [job EXCEPT !.pc = pc] \/ job' = [job EXCEPT !.pc = pc, !.probed = probed]
             \/ job' = [job EXCEPT !.pc = pc, !.probed = probed, !.creds = creds]
        \/ /\ job.pc = "operators"
           /\ \E i, probed : \/ job' = [job EXCEPT !.instance = i]
                             \/ job' = [[job EXCEPT !.instance = i] EXCEPT !.probed = probed]
    BY <1>9 DEF CheckContainer, TryTransferLocalImages, PrepareCredentials, EnsureOperator, OperatorsDeployed
  <2> QED BY <1>0, <1>2, <2>1 DEF JobFields
<1>10. ASSUME CreateManifestSecretOnCluster \/ DeleteManifestSecret \/ Abort PROVE FALSE
  BY <1>0, <1>10 DEF CreateManifestSecretOnCluster, DeleteManifestSecret, Abort
<1>11. ASSUME Teardown PROVE FALSE
  BY <1>2, <1>11 DEF Teardown, IsDeploy, DeployPhases
<1> QED BY <1>1, <1>6, <1>7, <1>8, <1>9, <1>10, <1>11 DEF Next

\* What a deploy without faults has deployed can pull its images: if the cluster has no credentials for the
\* registry, the pull secret of the component's namespace opens it (getAndVerifyCredentials,
\* ensurePullSecretExists), for all configurations.
THEOREM PodsCanPullCorrect ==
    ASSUME LegacyIsSound, LegacyWithoutVariables, PlacesExist, TypesAreDetected
    PROVE  Spec => []PodsCanPull
<1>1. Init => Access /\ Opened
  <2>1. Init => Truthful /\ OpensRegistry /\ Opened
    BY DEF Init, Idle, Truthful, OpensRegistry, Opened, IsDeploy, DeployPhases
  <2> QED BY <2>1, PlacedFirst, PlacesExist, TypesAreDetected, LegacyIsSound DEF Access
<1>2. Known /\ Access /\ Opened /\ [Next]_vars => Access' /\ Opened'
  <2>1. ~IsConfig(Unset)
    BY LegacyIsSound DEF LegacyIsSound
  <2>2. Known => Shape /\ Jobs
    BY DEF Known, Decided
  <2> QED BY <2>1, <2>2, PlacesExist, TypesAreDetected, PlacedKept, TruthfulKept, OpensRegistryKept, OpenedKept
          DEF Access
<1>3. Opened => PodsCanPull
  BY DEF Opened, PodsCanPull
<1> QED BY <1>1, <1>2, <1>3, KnownAlways, LegacyIsSound, LegacyWithoutVariables, PTL DEF Spec

----------------------------------------------------------------------------
(* Names of clusters *)

\* Cluster names and endpoints are left to roxie; an older version has drawn other names.
NamesAreDrawn == /\ \A line \in Lines : OwnNames \cap DOMAIN line.args.securedCluster.spec = {}
                 /\ \A h \in Hosts : OwnNames \cap DOMAIN h.user.securedCluster.spec = {}
                 /\ \A m \in Legacy : m # Unset /\ "clusterName" \in DOMAIN m.securedCluster.spec
                                        => m.securedCluster.spec.clusterName \notin Nat

\* A SecuredCluster is deployed by itself or with Central.
PartsAreUsual == \A line \in Lines : line.verb = "deploy" /\ "sensor" \in line.components
                                       => line.components = {"sensor"} \/ "central" \in line.components

LEMMA OverValues ==
    ASSUME NEW f, NEW g, NEW k
    PROVE  /\ k \in DOMAIN f => Over(f, g)[k] = f[k]
           /\ k \notin DOMAIN f /\ k \in DOMAIN g => Over(f, g)[k] = g[k]
BY DEF Over

\* Feature flags change nothing but the list of variables.
LEMMA FlagsLeaveNames ==
    ASSUME NEW spec, NEW flags, NEW k, k # "envVars"
    PROVE  /\ k \in DOMAIN WithFeatureFlags(spec, flags) <=> k \in DOMAIN spec
           /\ k \in DOMAIN spec => WithFeatureFlags(spec, flags)[k] = spec[k]
<1> DEFINE given == IF "envVars" \in DOMAIN spec THEN spec.envVars ELSE << >>
           list == Entry("envVars", given \o SetToSeq({<<f, flags[f]>> : f \in DOMAIN flags}))
<1>1. WithFeatureFlags(spec, flags) = IF flags = << >> THEN spec ELSE Over(list, spec)
  BY DEF WithFeatureFlags
<1>2. DOMAIN list = {"envVars"}
  BY DEF Entry
<1> HIDE DEF list
<1>3. DOMAIN Over(list, spec) = DOMAIN list \cup DOMAIN spec
  BY OverDomain
<1>4. k \in DOMAIN spec => Over(list, spec)[k] = spec[k]
  BY <1>2, OverValues
<1> QED BY <1>1, <1>2, <1>3, <1>4

\* Where the cluster's name and the endpoint of a deploy's configuration come from.
LEMMA PreparedNames ==
    ASSUME ~IsConfig(Unset), NamesAreDrawn, host \in Hosts, NEW line \in Lines, NEW stored,
           stored # Unset => IsConfig(stored), NEW tag, NEW name
    PROVE  LET spec == PreparedConfig(line, stored, tag, name).securedCluster.spec
           IN  /\ "clusterName" \in DOMAIN spec =>
                    \/ spec.clusterName = name
                    \/ /\ stored # Unset /\ "clusterName" \in DOMAIN stored.securedCluster.spec
                       /\ spec.clusterName = stored.securedCluster.spec.clusterName
               /\ line.components = {"sensor"} =>
                    /\ spec.clusterName = name
                    /\ spec.centralEndpoint = PreparedConfig(line, stored, tag, name).central.namespace
               /\ "sensor" \in line.components => "clusterName" \in DOMAIN spec
<1> DEFINE base == Base(stored, line.components)
           p == PreparedConfig(line, stored, tag, name)
           own == base.securedCluster.spec
           merged == Over(line.args.securedCluster.spec, Over(host.user.securedCluster.spec, own))
           named == Over(merged, Entry("clusterName", name))
<1>1. PICK c : /\ Merged(base, host.user, line.args, tag, line.components, name, c)
               /\ Completed(c, line.components, DetectClusterType(host.kube), p)
  BY PreparedSettings
<1> HIDE DEF p
<1>2. IsConfig(base)
  BY BaseSettings, DefaultIsConfig DEF Base
<1>3. \A k \in OwnNames : k \in DOMAIN own =>
          /\ stored # Unset /\ k \in DOMAIN stored.securedCluster.spec /\ own[k] = stored.securedCluster.spec[k]
          /\ line.components # {"sensor"}
  <2>1. CASE stored = Unset
    <3>1. own = << >>
      BY <2>1 DEF Base, DefaultConfig, Nothing
    <3> QED BY <3>1
  <2>2. CASE stored # Unset
    <3>1. own = SpecKept(stored.securedCluster.spec, line.components)
      BY <2>2, BaseSettings
    <3> HIDE DEF own
    <3> QED BY <2>2, <3>1 DEF SpecKept
  <2> QED BY <2>1, <2>2
<1> HIDE DEF base
<1>4. \A k \in OwnNames : /\ k \in DOMAIN merged <=> k \in DOMAIN own
                          /\ k \in DOMAIN own => merged[k] = own[k]
  <2> SUFFICES ASSUME NEW k \in OwnNames
               PROVE  (k \in DOMAIN merged <=> k \in DOMAIN own) /\ (k \in DOMAIN own => merged[k] = own[k])
    OBVIOUS
  <2>1. k \notin DOMAIN line.args.securedCluster.spec /\ k \notin DOMAIN host.user.securedCluster.spec
    BY DEF NamesAreDrawn
  <2> DEFINE half == Over(host.user.securedCluster.spec, own)
  <2> HIDE DEF own
  <2>2. (k \in DOMAIN half <=> k \in DOMAIN own) /\ (k \in DOMAIN own => half[k] = own[k])
    <3>1. DOMAIN half = DOMAIN host.user.securedCluster.spec \cup DOMAIN own
      BY OverDomain
    <3>2. k \in DOMAIN own => half[k] = own[k]
      BY <2>1, OverValues
    <3> HIDE DEF half
    <3> QED BY <2>1, <3>1, <3>2
  <2> HIDE DEF half
  <2>3. (k \in DOMAIN merged <=> k \in DOMAIN half) /\ (k \in DOMAIN half => merged[k] = half[k])
    <3>1. merged = Over(line.args.securedCluster.spec, half)
      BY DEF half
    <3>2. DOMAIN Over(line.args.securedCluster.spec, half) = DOMAIN line.args.securedCluster.spec \cup DOMAIN half
      BY OverDomain
    <3>3. k \in DOMAIN half => Over(line.args.securedCluster.spec, half)[k] = half[k]
      BY <2>1, OverValues
    <3> HIDE DEF merged
    <3> QED BY <2>1, <3>1, <3>2, <3>3
  <2> QED BY <2>2, <2>3
<1>5. c.securedCluster.spec = IF "sensor" \in line.components THEN named ELSE merged
  <2>1. "spec" \in MapSettings /\ "spec" \in SettingsOf("securedCluster") /\ "securedCluster" \in Sections
    BY SettingNames DEF MapSettings
  <2>2. Patched(Patched(base, host.user), line.args).securedCluster.spec = merged
    BY <1>2, <2>1, MergedSetting
  <2> HIDE DEF merged
  <2> QED BY <1>1, <2>2 DEF Merged
<1>6. /\ DOMAIN named = DOMAIN merged \cup {"clusterName"}
      /\ named.clusterName = IF "clusterName" \in DOMAIN merged THEN merged.clusterName ELSE name
      /\ "centralEndpoint" \in DOMAIN named <=> "centralEndpoint" \in DOMAIN merged
  <2> DEFINE entry == Entry("clusterName", name)
  <2>1. DOMAIN entry = {"clusterName"} /\ entry.clusterName = name
    BY DEF Entry
  <2> HIDE DEF merged, entry
  <2>2. DOMAIN Over(merged, entry) = DOMAIN merged \cup {"clusterName"}
    BY <2>1, OverDomain
  <2>3. Over(merged, entry).clusterName = IF "clusterName" \in DOMAIN merged THEN merged.clusterName ELSE name
    BY <2>1, OverValues
  <2> QED BY <2>2, <2>3 DEF entry
<1> HIDE DEF merged, named
<1>7. "clusterName" \in OwnNames /\ "centralEndpoint" \in OwnNames
  BY DEF OwnNames
<1> DEFINE spec == c.securedCluster.spec
           flagged == WithFeatureFlags(spec, c.roxie.featureFlags)
           endpoint == Entry("centralEndpoint", c.central.namespace)
<1>8. /\ p.central.namespace = c.central.namespace
      /\ p.securedCluster.spec = IF "sensor" \in line.components THEN Over(flagged, endpoint) ELSE spec
  BY <1>1 DEF Completed
<1>9. \A k \in OwnNames : (k \in DOMAIN flagged <=> k \in DOMAIN spec) /\ (k \in DOMAIN spec => flagged[k] = spec[k])
  BY FlagsLeaveNames DEF OwnNames
<1>10. DOMAIN endpoint = {"centralEndpoint"} /\ endpoint.centralEndpoint = c.central.namespace
  BY DEF Entry
<1> HIDE DEF flagged, endpoint
<1>11. CASE "sensor" \in line.components
  <2> DEFINE final == Over(flagged, endpoint)
  <2>1. /\ DOMAIN final = DOMAIN flagged \cup {"centralEndpoint"}
        /\ "clusterName" \in DOMAIN flagged => final.clusterName = flagged.clusterName
        /\ "centralEndpoint" \notin DOMAIN flagged => final.centralEndpoint = c.central.namespace
    <3>1. DOMAIN final = DOMAIN flagged \cup DOMAIN endpoint
      BY OverDomain
    <3>2. "clusterName" \in DOMAIN flagged => final["clusterName"] = flagged["clusterName"]
      BY OverValues
    <3>3. "centralEndpoint" \notin DOMAIN flagged => final["centralEndpoint"] = endpoint["centralEndpoint"]
      BY <1>10, OverValues
    <3> HIDE DEF final
    <3> QED BY <1>10, <3>1, <3>2, <3>3
  <2> HIDE DEF final
  <2>2. spec = named
    BY <1>5, <1>11
  <2> HIDE DEF spec
  <2>3. /\ "clusterName" \in DOMAIN flagged
        /\ flagged.clusterName = IF "clusterName" \in DOMAIN merged THEN merged.clusterName ELSE name
        /\ "centralEndpoint" \in DOMAIN flagged <=> "centralEndpoint" \in DOMAIN merged
    BY <1>6, <1>7, <1>9, <2>2
  <2>4. p.securedCluster.spec = final
    BY <1>8, <1>11 DEF final
  <2> QED BY <1>3, <1>4, <1>7, <1>8, <2>1, <2>3, <2>4 DEF p
<1>12. CASE "sensor" \notin line.components
  <2>1. p.securedCluster.spec = merged
    BY <1>5, <1>8, <1>12
  <2> HIDE DEF spec
  <2> QED BY <1>3, <1>4, <1>7, <1>12, <2>1 DEF p
<1> QED BY <1>11, <1>12

\* How a deploy gets to its last phases.
LEMMA LastPhases ==
    ASSUME Shape, Jobs, [Next]_vars, job'.pc \in DeployPhases, \A line \in Lines : ~BeginDeploy(line)
    PROVE  /\ \/ job'.endpoint = job.endpoint /\ ~DeployCentral
              \/ /\ DeployCentral /\ job.pc = "central" /\ job'.pc = "sensor" /\ "central" \in job.line.components
                 /\ job'.endpoint = job.config.central.namespace
           /\ job'.pc = "sensor" => UNCHANGED vars \/ DeployCentral \/ SkipCentral
           /\ job'.pc = "manifest" => UNCHANGED vars \/ DeploySecuredCluster \/ SkipSecuredCluster
           /\ job'.pc \in {"sensor", "manifest"} => job.pc \in {"central", "sensor", "manifest"}
           /\ SkipCentral => "central" \notin job.line.components
           /\ DeploySecuredCluster => job'.pc = "manifest" /\ job.pc = "sensor" /\ "sensor" \in job.line.components
           /\ SkipSecuredCluster => "sensor" \notin job.line.components
<1>0. IsDeploy /\ DOMAIN job = JobFields /\ Idle.pc \notin DeployPhases
  BY DeployContinues DEF Continues, Shape, IsDeploy, DeployPhases, Idle
<1>1. CASE DeployCentral
  <2>1. job.pc = "central" /\ "central" \in job.line.components
    BY <1>1 DEF DeployCentral
  <2>2. job' = Idle \/ job' = [job EXCEPT !.pc = "sensor", !.endpoint = job.config.central.namespace]
    BY <1>1 DEF DeployCentral
  <2>3. job'.pc = "sensor" /\ job'.endpoint = job.config.central.namespace
    BY <1>0, <2>2 DEF JobFields
  <2>4. ~SkipCentral /\ ~DeploySecuredCluster /\ ~SkipSecuredCluster
    BY <2>1 DEF SkipCentral, DeploySecuredCluster, SkipSecuredCluster
  <2> QED BY <1>1, <2>1, <2>3, <2>4
<1>2. ASSUME SkipCentral PROVE job.pc = "central" /\ job'.pc = "sensor" /\ job'.endpoint = job.endpoint
  BY <1>0, <1>2 DEF SkipCentral, JobFields
<1>3. ASSUME DeploySecuredCluster \/ SkipSecuredCluster
      PROVE  job.pc = "sensor" /\ job'.pc = "manifest" /\ job'.endpoint = job.endpoint
  <2>1. job.pc = "sensor" /\ (job' = Idle \/ job' = [job EXCEPT !.pc = "manifest"])
    BY <1>3 DEF DeploySecuredCluster, SkipSecuredCluster
  <2> QED BY <1>0, <2>1 DEF JobFields
<1>4. ASSUME CheckContainer \/ TryTransferLocalImages \/ PrepareCredentials \/ EnsureOperator \/ OperatorsDeployed
      PROVE  job'.pc \notin {"sensor", "manifest"} /\ job'.endpoint = job.endpoint
  <2>1. \/ job' = Idle
        \/ \E pc \in {"images", "credentials", "operators", "central"} : \E probed, creds :
             \/ job' = [job EXCEPT !.pc = pc] \/ job' = [job EXCEPT !.pc = pc, !.probed = probed]
             \/ job' = [job EXCEPT !.pc = pc, !.probed = probed, !.creds = creds]
        \/ /\ job.pc = "operators"
           /\ \E i, probed : \/ job' = [job EXCEPT !.instance = i]
                             \/ job' = [[job EXCEPT !.instance = i] EXCEPT !.probed = probed]
    BY <1>4 DEF CheckContainer, TryTransferLocalImages, PrepareCredentials, EnsureOperator, OperatorsDeployed
  <2> QED BY <1>0, <2>1 DEF JobFields
<1>5. ASSUME CreateManifestSecretOnCluster \/ DeleteManifestSecret \/ Abort PROVE FALSE
  BY <1>0, <1>5 DEF CreateManifestSecretOnCluster, DeleteManifestSecret, Abort
<1>6. ASSUME Teardown PROVE FALSE
  BY <1>0, <1>6 DEF Teardown, IsDeploy, DeployPhases
<1>7. ASSUME NEW line \in Lines, BeginTeardown(line) PROVE FALSE
  BY <1>7 DEF BeginTeardown, DeployPhases
<1>8. ASSUME UNCHANGED vars PROVE job' = job
  BY <1>8 DEF vars
<1>9. \/ CheckContainer \/ TryTransferLocalImages \/ PrepareCredentials \/ EnsureOperator \/ OperatorsDeployed
      \/ DeployCentral \/ SkipCentral \/ DeploySecuredCluster \/ SkipSecuredCluster \/ UNCHANGED vars
  BY <1>5, <1>6, <1>7 DEF Next
<1>12. /\ SkipCentral => "central" \notin job.line.components
       /\ DeploySecuredCluster => "sensor" \in job.line.components
       /\ SkipSecuredCluster => "sensor" \notin job.line.components
  BY DEF SkipCentral, DeploySecuredCluster, SkipSecuredCluster
<1>10. CASE ~DeployCentral
  <2>1. CASE SkipCentral \/ DeploySecuredCluster \/ SkipSecuredCluster
    <3>1. CASE SkipCentral
      BY <1>2, <1>3, <1>10, <1>12, <3>1
    <3>2. CASE DeploySecuredCluster \/ SkipSecuredCluster
      BY <1>2, <1>3, <1>10, <1>12, <3>2
    <3> QED BY <2>1, <3>1, <3>2
  <2>2. CASE ~(SkipCentral \/ DeploySecuredCluster \/ SkipSecuredCluster)
    BY <1>4, <1>8, <1>9, <1>10, <2>2
  <2> QED BY <2>1, <2>2
<1>11. ASSUME DeployCentral PROVE ~DeploySecuredCluster
  BY <1>11 DEF DeployCentral, DeploySecuredCluster
<1> QED BY <1>1, <1>3, <1>10, <1>11, <1>12

\* Centrals are where there are namespaces, and so are the endpoints.
Wired == /\ DOMAIN centrals = Namespaces /\ DOMAIN sensors = Namespaces
         /\ \A n \in Namespaces : centrals[n] # Unset => "clusters" \in DOMAIN centrals[n]
         /\ terminal \in Namespaces \cup {Unset}
         /\ IsDeploy => job.endpoint \in Namespaces \cup {Unset}

NameOf(c) == c.securedCluster.spec.clusterName

\* A Central is deployed without clusters, and gets them by registration only.
LEMMA CentralsChange ==
    ASSUME Wired, [Next]_vars
    PROVE  /\ DOMAIN centrals' = Namespaces /\ DOMAIN sensors' = Namespaces
           /\ \A n \in Namespaces : centrals'[n] # Unset =>
                \/ centrals'[n] = centrals[n] /\ ~(DeployCentral /\ n = job.config.central.namespace)
                \/ /\ DeployCentral /\ n = job.config.central.namespace
                   /\ "clusters" \in DOMAIN centrals'[n] /\ centrals'[n].clusters = {}
                \/ /\ DeploySecuredCluster /\ n = job.endpoint /\ n # Unset /\ centrals[n] # Unset
                   /\ "clusters" \in DOMAIN centrals'[n]
                   /\ centrals'[n].clusters = centrals[n].clusters \cup {NameOf(job.config)}
<1> DEFINE Goal == /\ DOMAIN centrals' = Namespaces /\ DOMAIN sensors' = Namespaces
                   /\ \A n \in Namespaces : centrals'[n] # Unset =>
                        \/ centrals'[n] = centrals[n] /\ ~(DeployCentral /\ n = job.config.central.namespace)
                        \/ /\ DeployCentral /\ n = job.config.central.namespace
                           /\ "clusters" \in DOMAIN centrals'[n] /\ centrals'[n].clusters = {}
                        \/ /\ DeploySecuredCluster /\ n = job.endpoint /\ n # Unset /\ centrals[n] # Unset
                           /\ "clusters" \in DOMAIN centrals'[n]
                           /\ centrals'[n].clusters = centrals[n].clusters \cup {NameOf(job.config)}
<1>0. DOMAIN centrals = Namespaces /\ DOMAIN sensors = Namespaces
  BY DEF Wired
<1>1. ASSUME DeployCentral PROVE Goal
  <2>1. \E c \in {Unset, [registry |-> Registry, clusters |-> {}]} :
          centrals' = [centrals EXCEPT ![job.config.central.namespace] = c]
    BY <1>1 DEF DeployCentral
  <2>3. ~DeploySecuredCluster
    BY <1>1 DEF DeployCentral, DeploySecuredCluster
  <2>2. sensors' = sensors
    BY <1>1 DEF DeployCentral
  <2> QED BY <1>0, <1>1, <2>1, <2>2, <2>3
<1>2. ASSUME DeploySecuredCluster PROVE Goal
  <2>0. ~DeployCentral
    BY <1>2 DEF DeployCentral, DeploySecuredCluster
  <2>1. /\ \/ centrals' = centrals
           \/ /\ job.endpoint # Unset /\ centrals[job.endpoint] # Unset
              /\ centrals' = [centrals EXCEPT ![job.endpoint].clusters = @ \cup {NameOf(job.config)}]
        /\ \E s : sensors' = [sensors EXCEPT ![job.config.securedCluster.namespace] = s]
    BY <1>2 DEF DeploySecuredCluster, NameOf
  <2>2. DOMAIN centrals' = Namespaces /\ DOMAIN sensors' = Namespaces
    BY <1>0, <2>1
  <2>3. ASSUME NEW n \in Namespaces, centrals'[n] # Unset, centrals'[n] # centrals[n]
        PROVE  /\ n = job.endpoint /\ n # Unset /\ centrals[n] # Unset
               /\ "clusters" \in DOMAIN centrals'[n]
               /\ centrals'[n].clusters = centrals[n].clusters \cup {NameOf(job.config)}
    <3>1. /\ n = job.endpoint /\ n # Unset /\ centrals[n] # Unset
          /\ centrals'[n] = [centrals[n] EXCEPT !.clusters = @ \cup {NameOf(job.config)}]
      BY <1>0, <2>1, <2>3
    <3>2. "clusters" \in DOMAIN centrals[n]
      BY <3>1 DEF Wired
    <3> QED BY <3>1, <3>2
  <2> QED BY <1>2, <2>0, <2>2, <2>3
<1>3. ASSUME Teardown PROVE Goal
  <2>0. ~DeployCentral \/ job.pc = "central"
    BY DEF DeployCentral
  <2>1. /\ \/ centrals' = centrals \/ centrals' = [centrals EXCEPT ![job.config.central.namespace] = Unset]
        /\ \/ sensors' = sensors \/ sensors' = [sensors EXCEPT ![job.config.securedCluster.namespace] = Unset]
    BY <1>3 DEF Teardown
  <2>2. job.pc = "teardown"
    BY <1>3 DEF Teardown
  <2> QED BY <1>0, <2>0, <2>1, <2>2
<1>4. ASSUME ~DeployCentral, ~DeploySecuredCluster, ~Teardown PROVE Goal
  <2>1. centrals' = centrals /\ sensors' = sensors
    BY <1>4 DEF Next, BeginDeploy, BeginTeardown, CheckContainer, PrepareCredentials, TryTransferLocalImages,
       EnsureOperator, OperatorsDeployed, SkipCentral, SkipSecuredCluster, CreateManifestSecretOnCluster,
       DeleteManifestSecret, Abort, vars, cluster
  <2> QED BY <1>0, <1>4, <2>1
<1> QED BY <1>1, <1>2, <1>3, <1>4

LEMMA WiredKept == ASSUME Known, Placed, Wired, [Next]_vars PROVE Wired'
<1>known. Shape /\ Jobs
  BY DEF Known, Decided
<1>1. \A n \in Namespaces : centrals'[n] # Unset => "clusters" \in DOMAIN centrals'[n]
  BY CentralsChange DEF Wired
<1>2. terminal' \in Namespaces \cup {Unset}
  <2>1. CASE CreateManifestSecretOnCluster
    BY <2>1 DEF CreateManifestSecretOnCluster, IsDeploy, DeployPhases, Wired
  <2>2. CASE DeleteManifestSecret
    BY <2>2 DEF DeleteManifestSecret, Wired
  <2>3. CASE ~CreateManifestSecretOnCluster /\ ~DeleteManifestSecret
    BY <1>known, <2>3, ManifestKept DEF Wired
  <2> QED BY <2>1, <2>2, <2>3
<1>3. ASSUME job'.pc \in DeployPhases PROVE job'.endpoint \in Namespaces \cup {Unset}
  <2>1. ASSUME NEW line \in Lines, BeginDeploy(line) PROVE job'.endpoint \in Namespaces \cup {Unset}
    <3>1. job' # Idle
      BY <1>3 DEF Idle, DeployPhases
    <3> QED BY <2>1, <3>1, DeployBegins DEF Wired
  <2>2. CASE \A line \in Lines : ~BeginDeploy(line)
    <3>1. IsDeploy
      BY <1>known, <1>3, <2>2, DeployContinues DEF Continues
    <3>2. job.config.central.namespace \in Namespaces
      BY <3>1 DEF Placed, NamespacesOf
    <3> QED BY <1>known, <1>3, <2>2, <3>1, <3>2, LastPhases DEF Wired
  <2> QED BY <2>1, <2>2
<1> QED BY <1>1, <1>2, <1>3, CentralsChange DEF Wired, IsDeploy

\* The manifest comes last.
LEMMA ManifestEnds ==
    ASSUME Shape, Jobs, [Next]_vars, job.pc = "manifest", job'.pc \in DeployPhases
    PROVE  UNCHANGED vars
<1>1. job # Idle /\ Idle.pc \notin DeployPhases
  BY DEF Idle, DeployPhases
<1>2. ~CreateManifestSecretOnCluster /\ ~DeleteManifestSecret /\ ~Abort
  BY <1>1 DEF CreateManifestSecretOnCluster, DeleteManifestSecret, Abort
<1> QED BY <1>1, <1>2
   DEF Next, BeginDeploy, BeginTeardown, CheckContainer, TryTransferLocalImages, PrepareCredentials, EnsureOperator,
       OperatorsDeployed, DeployCentral, SkipCentral, DeploySecuredCluster, SkipSecuredCluster, Teardown

\* No Central and no configuration has a name that is still to be drawn.
Drawn == /\ IsDeploy /\ "sensor" \in job.line.components => "clusterName" \in DOMAIN job.config.securedCluster.spec
         /\ \A k \in Nat : k > names =>
              /\ \A n \in Namespaces : centrals[n] # Unset => k \notin centrals[n].clusters
              /\ manifest # Unset /\ "clusterName" \in DOMAIN manifest.securedCluster.spec => NameOf(manifest) # k
              /\ IsDeploy /\ "clusterName" \in DOMAIN job.config.securedCluster.spec => NameOf(job.config) # k

LEMMA DrawnKept ==
    ASSUME ~IsConfig(Unset), NamesAreDrawn, Known, Wired, Drawn, [Next]_vars
    PROVE  Drawn'
<1>known. Shape /\ Jobs /\ Explained /\ names \in Nat /\ host \in Hosts
  BY DEF Known, Decided, Jobs
<1>1. names' \in Nat /\ names' >= names
  <2>1. ASSUME NEW line \in Lines, BeginDeploy(line) PROVE names' = names + 1
    BY <2>1 DEF BeginDeploy
  <2>2. CASE \A line \in Lines : ~BeginDeploy(line)
    <3>1. ASSUME NEW line \in Lines, BeginTeardown(line) PROVE names' = names
      BY <3>1 DEF BeginTeardown
    <3>2. ASSUME CheckContainer \/ PrepareCredentials \/ TryTransferLocalImages \/ EnsureOperator \/ OperatorsDeployed
          PROVE  names' = names
      BY <3>2 DEF CheckContainer, PrepareCredentials, TryTransferLocalImages, EnsureOperator, OperatorsDeployed
    <3>3. ASSUME SkipCentral \/ SkipSecuredCluster \/ DeployCentral \/ DeploySecuredCluster PROVE names' = names
      BY <3>3 DEF SkipCentral, SkipSecuredCluster, DeployCentral, DeploySecuredCluster
    <3>4. ASSUME \/ CreateManifestSecretOnCluster \/ Teardown \/ DeleteManifestSecret \/ Abort \/ UNCHANGED vars
          PROVE  names' = names
      BY <3>4 DEF CreateManifestSecretOnCluster, Teardown, DeleteManifestSecret, Abort, vars
    <3>5. names' = names
      BY <2>2, <3>1, <3>2, <3>3, <3>4 DEF Next
    <3> QED BY <1>known, <3>5
  <2> QED BY <1>known, <2>1, <2>2
<1>2. ASSUME job'.pc \in DeployPhases
      PROVE  /\ "sensor" \in job'.line.components => "clusterName" \in DOMAIN job'.config.securedCluster.spec
             /\ \A k \in Nat : k > names' /\ "clusterName" \in DOMAIN job'.config.securedCluster.spec
                                 => NameOf(job'.config) # k
  <2>1. CASE \A line \in Lines : ~BeginDeploy(line)
    <3>1. Continues
      BY <1>known, <1>2, <2>1, DeployContinues
    <3>2. IsDeploy /\ job'.line = job.line /\ job'.config = job.config /\ names' = names
      BY <3>1 DEF Continues
    <3> QED BY <3>2 DEF Drawn
  <2>2. ASSUME NEW line \in Lines, BeginDeploy(line)
        PROVE  /\ "sensor" \in job'.line.components => "clusterName" \in DOMAIN job'.config.securedCluster.spec
               /\ \A k \in Nat : k > names' /\ "clusterName" \in DOMAIN job'.config.securedCluster.spec
                                   => NameOf(job'.config) # k
    <3>1. job' # Idle
      BY <1>2 DEF Idle, DeployPhases
    <3>2. PICK source \in Sources : job'.config = PreparedConfig(line, job'.stored, LookupMainImageTag(source), names')
      BY <2>2, <3>1, DeployBegins
    <3>3. (job'.stored = Unset \/ job'.stored = manifest) /\ job'.line = line
      BY <2>2, <3>1, DeployBegins DEF LoadManifestSecret
    <3>4. job'.stored # Unset => IsConfig(job'.stored)
      BY <1>known, <3>3 DEF Explained
    <3>5. /\ "clusterName" \in DOMAIN job'.config.securedCluster.spec =>
               \/ NameOf(job'.config) = names'
               \/ /\ job'.stored # Unset /\ "clusterName" \in DOMAIN job'.stored.securedCluster.spec
                  /\ NameOf(job'.config) = NameOf(job'.stored)
          /\ "sensor" \in line.components => "clusterName" \in DOMAIN job'.config.securedCluster.spec
      BY <1>known, <3>2, <3>4, PreparedNames DEF NameOf
    <3>6. \A k \in Nat : k > names' => k > names
      BY <1>known, <1>1
    <3>7. \A k \in Nat : k > names' /\ job'.stored # Unset /\ "clusterName" \in DOMAIN job'.stored.securedCluster.spec
                           => NameOf(job'.stored) # k
      BY <3>3, <3>6 DEF Drawn
    <3>8. \A k \in Nat : k > names' => k # names'
      BY <1>1
    <3> QED BY <3>3, <3>5, <3>7, <3>8
  <2> QED BY <2>1, <2>2
<1>3. ASSUME NEW k \in Nat, k > names'
      PROVE  /\ \A n \in Namespaces : centrals'[n] # Unset => k \notin centrals'[n].clusters
             /\ manifest' # Unset /\ "clusterName" \in DOMAIN manifest'.securedCluster.spec => NameOf(manifest') # k
  <2>0. k > names
    BY <1>known, <1>1, <1>3
  <2>1. ASSUME NEW n \in Namespaces, centrals'[n] # Unset PROVE k \notin centrals'[n].clusters
    <3>1. CASE centrals'[n] = centrals[n]
      BY <2>0, <2>1, <3>1 DEF Drawn
    <3>2. CASE centrals'[n].clusters = {}
      BY <3>2
    <3>3. CASE /\ DeploySecuredCluster /\ centrals[n] # Unset
               /\ centrals'[n].clusters = centrals[n].clusters \cup {NameOf(job.config)}
      <4>1. IsDeploy /\ "sensor" \in job.line.components
        BY <3>3 DEF DeploySecuredCluster, IsDeploy, DeployPhases
      <4>2. NameOf(job.config) # k
        BY <2>0, <4>1 DEF Drawn
      <4>3. k \notin centrals[n].clusters
        BY <2>0, <3>3 DEF Drawn
      <4> QED BY <3>3, <4>2, <4>3
    <3> QED BY <2>1, <3>1, <3>2, <3>3, CentralsChange
  <2>2. manifest' # Unset /\ "clusterName" \in DOMAIN manifest'.securedCluster.spec => NameOf(manifest') # k
    <3>1. CASE CreateManifestSecretOnCluster
      <4>1. IsDeploy /\ (manifest' = ManifestConfig \/ manifest' = manifest)
        BY <3>1 DEF CreateManifestSecretOnCluster, IsDeploy, DeployPhases
      <4>2. ManifestConfig.securedCluster = job.config.securedCluster
        BY <1>known, <4>1, ManifestWritten, SettingNames DEF Explained
      <4> QED BY <2>0, <4>1, <4>2 DEF Drawn, NameOf
    <3>2. CASE DeleteManifestSecret
      BY <2>0, <3>2 DEF DeleteManifestSecret, Drawn
    <3>3. CASE ~CreateManifestSecretOnCluster /\ ~DeleteManifestSecret
      <4>1. manifest' = manifest
        BY <1>known, <3>3, ManifestKept
      <4> QED BY <2>0, <4>1 DEF Drawn
    <3> QED BY <3>1, <3>2, <3>3
  <2> QED BY <2>1, <2>2
<1> QED BY <1>2, <1>3 DEF Drawn, IsDeploy

\* A SecuredCluster by itself has a new name, and one that comes with a Central has a new Central.
Fresh == /\ past.reused = FALSE
         /\ IsDeploy /\ job.pc # "manifest" /\ "sensor" \in job.line.components =>
              /\ job.line.components = {"sensor"} =>
                   /\ NameOf(job.config) = names
                   /\ \A n \in Namespaces : centrals[n] # Unset => names \notin centrals[n].clusters
              /\ "central" \in job.line.components /\ job.pc = "sensor" /\ job.endpoint \in Namespaces
                  /\ centrals[job.endpoint] # Unset => centrals[job.endpoint].clusters = {}

LEMMA FreshKept ==
    ASSUME ~IsConfig(Unset), NamesAreDrawn, PartsAreUsual, Known, Placed, Wired, Drawn, Fresh, [Next]_vars
    PROVE  Fresh'
<1>known. Shape /\ Jobs /\ Explained /\ names \in Nat /\ host \in Hosts /\ DOMAIN past = PastFields
  BY DEF Known, Decided, Jobs, Shape
<1>1. past'.reused = FALSE
  <2>0. past.reused = FALSE
    BY DEF Fresh
  <2>1. ASSUME NEW line \in Lines, BeginDeploy(line) PROVE past'.reused = FALSE
    <3>1. past' = past \/ past' = Remember(line)
      BY <2>1 DEF BeginDeploy
    <3> QED BY <1>known, <2>0, <3>1, Remembered
  <2>2. ASSUME DeploySecuredCluster PROVE past'.reused = FALSE
    <3>1. \/ \E l : past' = [past EXCEPT !.late = l]
          \/ /\ job.endpoint # Unset /\ centrals[job.endpoint] # Unset
             /\ past' = [past EXCEPT !.reused = @ \/ NameOf(job.config) \in centrals[job.endpoint].clusters]
      BY <2>2 DEF DeploySecuredCluster, NameOf
    <3>2. /\ IsDeploy /\ job.pc = "sensor" /\ "sensor" \in job.line.components
          /\ job.line \in Lines /\ job.line.verb = "deploy"
      BY <1>known, <2>2 DEF DeploySecuredCluster, IsDeploy, DeployPhases, Jobs
    <3>3. job.endpoint # Unset /\ centrals[job.endpoint] # Unset => NameOf(job.config) \notin centrals[job.endpoint].clusters
      <4> SUFFICES ASSUME job.endpoint # Unset, centrals[job.endpoint] # Unset
                   PROVE  NameOf(job.config) \notin centrals[job.endpoint].clusters
        OBVIOUS
      <4>1. job.endpoint \in Namespaces
        BY <3>2 DEF Wired
      <4>2. job.line.components = {"sensor"} \/ "central" \in job.line.components
        BY <3>2 DEF PartsAreUsual
      <4> QED BY <3>2, <4>1, <4>2 DEF Fresh
    <3>4. CASE \E l : past' = [past EXCEPT !.late = l]
      BY <1>known, <2>0, <3>4 DEF PastFields
    <3>5. CASE /\ job.endpoint # Unset /\ centrals[job.endpoint] # Unset
               /\ past' = [past EXCEPT !.reused = @ \/ NameOf(job.config) \in centrals[job.endpoint].clusters]
      <4>1. past'.reused = (past.reused \/ NameOf(job.config) \in centrals[job.endpoint].clusters)
        BY <1>known, <3>5 DEF PastFields
      <4>2. NameOf(job.config) \notin centrals[job.endpoint].clusters
        BY <3>3, <3>5
      <4> QED BY <2>0, <4>1, <4>2, Zenon
    <3> QED BY <3>1, <3>4, <3>5
  <2>3. ASSUME CreateManifestSecretOnCluster \/ DeleteManifestSecret \/ DeployCentral PROVE past'.reused = FALSE
    <3>1. \/ past' = past
          \/ \E r : past' = [past EXCEPT !.resolved = r]
          \/ \E l : past' = [past EXCEPT !.late = l]
          \/ past' = [NoPast EXCEPT !.reused = past.reused, !.late = past.late]
      BY <2>3 DEF CreateManifestSecretOnCluster, DeleteManifestSecret, DeployCentral
    <3> QED BY <1>known, <2>0, <3>1 DEF PastFields, NoPast
  <2>4. CASE /\ \A line \in Lines : ~BeginDeploy(line)
             /\ ~DeploySecuredCluster /\ ~CreateManifestSecretOnCluster /\ ~DeleteManifestSecret /\ ~DeployCentral
    <3>1. past' = past
      BY <2>4 DEF Next, BeginTeardown, CheckContainer, PrepareCredentials, TryTransferLocalImages,
         EnsureOperator, OperatorsDeployed, SkipCentral, SkipSecuredCluster, Teardown, Abort, vars
    <3> QED BY <2>0, <3>1
  <2> QED BY <2>1, <2>2, <2>3, <2>4
<1>2. ASSUME job'.pc \in DeployPhases, job'.pc # "manifest", "sensor" \in job'.line.components
      PROVE  /\ job'.line.components = {"sensor"} =>
                  /\ NameOf(job'.config) = names'
                  /\ \A n \in Namespaces : centrals'[n] # Unset => names' \notin centrals'[n].clusters
             /\ "central" \in job'.line.components /\ job'.pc = "sensor" /\ job'.endpoint \in Namespaces
                 /\ centrals'[job'.endpoint] # Unset => centrals'[job'.endpoint].clusters = {}
  <2>1. ASSUME NEW line \in Lines, BeginDeploy(line)
        PROVE  /\ job'.line.components = {"sensor"} =>
                    /\ NameOf(job'.config) = names'
                    /\ \A n \in Namespaces : centrals'[n] # Unset => names' \notin centrals'[n].clusters
               /\ job'.pc = "container"
    <3>1. job' # Idle
      BY <1>2 DEF Idle, DeployPhases
    <3>2. PICK source \in Sources : job'.config = PreparedConfig(line, job'.stored, LookupMainImageTag(source), names')
      BY <2>1, <3>1, DeployBegins
    <3>3. /\ job'.stored = Unset \/ job'.stored = manifest
          /\ job'.line = line /\ job'.pc = "container" /\ names' = names + 1 /\ centrals' = centrals
      BY <2>1, <3>1, DeployBegins DEF LoadManifestSecret, cluster
    <3>4. job'.stored # Unset => IsConfig(job'.stored)
      BY <1>known, <3>3 DEF Explained
    <3>5. line.components = {"sensor"} => NameOf(job'.config) = names'
      BY <1>known, <3>2, <3>4, PreparedNames DEF NameOf
    <3>6. names' \in Nat /\ names' > names
      BY <1>known, <3>3
    <3>7. \A n \in Namespaces : centrals'[n] # Unset => names' \notin centrals'[n].clusters
      BY <3>3, <3>6 DEF Drawn
    <3> QED BY <3>3, <3>5, <3>7
  <2>2. CASE \A line \in Lines : ~BeginDeploy(line)
    <3>1. IsDeploy /\ job'.line = job.line /\ job'.config = job.config /\ names' = names
      BY <1>known, <1>2, <2>2, DeployContinues DEF Continues
    <3>2. job.pc # "manifest" /\ ~DeploySecuredCluster
      BY <1>known, <1>2, <2>2, <3>1, LastPhases, ManifestEnds DEF vars
    <3>3. CASE job.line.components = {"sensor"}
      <4>1. ~DeployCentral
        BY <3>3 DEF DeployCentral
      <4>2. \A n \in Namespaces : centrals'[n] # Unset => centrals'[n] = centrals[n]
        BY <3>2, <4>1, CentralsChange
      <4> QED BY <1>2, <3>1, <3>2, <3>3, <4>2 DEF Fresh
    <3>4. ASSUME "central" \in job.line.components, job'.pc = "sensor", job'.endpoint \in Namespaces,
                 centrals'[job'.endpoint] # Unset
          PROVE  centrals'[job'.endpoint].clusters = {}
      <4>1. CASE DeployCentral
        <5>1. job'.endpoint = job.config.central.namespace
          BY <1>known, <1>2, <2>2, <4>1, LastPhases
        <5> QED BY <3>2, <3>4, <4>1, <5>1, CentralsChange
      <4>2. CASE ~DeployCentral
        <5>1. UNCHANGED vars
          BY <1>known, <1>2, <2>2, <3>4, <4>2, LastPhases
        <5>2. job' = job /\ centrals' = centrals
          BY <5>1 DEF vars, cluster
        <5> QED BY <1>2, <3>1, <3>4, <5>2 DEF Fresh
      <4> QED BY <4>1, <4>2
    <3>5. "central" \in job.line.components => job.line.components # {"sensor"}
      OBVIOUS
    <3> QED BY <3>1, <3>3, <3>4, <3>5
  <2> QED BY <2>1, <2>2
<1> QED BY <1>1, <1>2 DEF Fresh, IsDeploy

\* Only a deploy of Central says where it is; for all else the manifest does.
OnlyDeploysPlaceCentral ==
    /\ \A h \in Hosts : h.user.central.namespace = Unset
    /\ \A line \in Lines : line.args.central.namespace # Unset => line.verb = "deploy" /\ "central" \in line.components

\* Without a word on it, Central's namespace is the manifest's.
LEMMA NamespaceIsKept ==
    ASSUME ~IsConfig(Unset), OnlyDeploysPlaceCentral, host \in Hosts, NEW line \in Lines,
           line.args.central.namespace = Unset, NEW stored, IsConfig(stored), NEW tag, NEW name
    PROVE  /\ PreparedConfig(line, stored, tag, name).central.namespace = stored.central.namespace
           /\ AssembleConfigForCommand(stored, host.user, line.args).central.namespace = stored.central.namespace
<1> DEFINE merged(base) == Patched(Patched(base, host.user), line.args)
<1>0. host.user.central.namespace = Unset /\ stored # Unset
  BY DEF OnlyDeploysPlaceCentral
<1>1. ASSUME NEW base, IsConfig(base), base.central = stored.central
      PROVE  merged(base).central.namespace = stored.central.namespace
  <2>1. "central" \in Sections /\ "namespace" \in SettingsOf("central") /\ "namespace" \notin MapSettings
    BY SettingNames DEF MapSettings
  <2>2. merged(base).central.namespace
          = FirstSet(line.args.central.namespace, FirstSet(host.user.central.namespace, base.central.namespace))
    BY <1>1, <2>1, MergedSetting
  <2> HIDE DEF merged
  <2> QED BY <1>0, <1>1, <2>2 DEF FirstSet
<1>2. ASSUME NEW components
      PROVE  IsConfig(Base(stored, components)) /\ Base(stored, components).central = stored.central
  <2>1. /\ IsConfig(Base(stored, components))
        /\ \A s \in Sections : s \notin {"operator", "securedCluster"} => Base(stored, components)[s] = stored[s]
    BY <1>0, BaseSettings
  <2> QED BY <2>1, SettingNames
<1>3. PreparedConfig(line, stored, tag, name).central.namespace = stored.central.namespace
  <2> DEFINE base == Base(stored, line.components)
  <2>1. PICK c : /\ Merged(base, host.user, line.args, tag, line.components, name, c)
                 /\ Completed(c, line.components, DetectClusterType(host.kube), PreparedConfig(line, stored, tag, name))
    BY <1>0, PreparedSettings
  <2>2. PreparedConfig(line, stored, tag, name).central.namespace = c.central.namespace
    BY <2>1 DEF Completed
  <2>3. c.central = merged(base).central
    BY <2>1, SettingNames DEF Merged
  <2>4. merged(base).central.namespace = stored.central.namespace
    BY <1>1, <1>2
  <2> HIDE DEF base, merged
  <2> QED BY <2>2, <2>3, <2>4
<1>4. AssembleConfigForCommand(stored, host.user, line.args) = merged(Base(stored, {}))
  BY <1>0 DEF AssembleConfigForCommand, Base, RetrieveClusterConfigForComponents
<1>5. merged(Base(stored, {})).central.namespace = stored.central.namespace
  BY <1>1, <1>2
<1> HIDE DEF merged
<1> QED BY <1>3, <1>4, <1>5

\* A deploy's endpoint: its own Central's, once there is one, or the one of the shell that it is called from.
Endpoints ==
    IsDeploy =>
      /\ "central" \in job.line.components /\ job.pc \in {"sensor", "manifest"}
           => job.endpoint = job.config.central.namespace
      /\ "central" \notin job.line.components => job.endpoint = terminal
      /\ job.line.components = {"sensor"}
           => job.config.securedCluster.spec.centralEndpoint = job.config.central.namespace

LEMMA EndpointsKept ==
    ASSUME ~IsConfig(Unset), NamesAreDrawn, Known, Endpoints, [Next]_vars
    PROVE  Endpoints'
<1>known. Shape /\ Jobs /\ Explained /\ host \in Hosts
  BY DEF Known, Decided, Jobs
<1> SUFFICES ASSUME job'.pc \in DeployPhases
             PROVE  /\ "central" \in job'.line.components /\ job'.pc \in {"sensor", "manifest"}
                         => job'.endpoint = job'.config.central.namespace
                    /\ "central" \notin job'.line.components => job'.endpoint = terminal'
                    /\ job'.line.components = {"sensor"}
                         => job'.config.securedCluster.spec.centralEndpoint = job'.config.central.namespace
  BY DEF Endpoints, IsDeploy
<1>1. ASSUME NEW line \in Lines, BeginDeploy(line)
      PROVE  /\ job'.pc = "container" /\ job'.endpoint = terminal'
             /\ job'.line.components = {"sensor"}
                  => job'.config.securedCluster.spec.centralEndpoint = job'.config.central.namespace
  <2>1. job' # Idle
    BY DEF Idle, DeployPhases
  <2>2. PICK source \in Sources : job'.config = PreparedConfig(line, job'.stored, LookupMainImageTag(source), names')
    BY <1>1, <2>1, DeployBegins
  <2>3. /\ job'.stored = Unset \/ job'.stored = manifest
        /\ job'.line = line /\ job'.pc = "container" /\ job'.endpoint = terminal /\ terminal' = terminal
    BY <1>1, <2>1, DeployBegins DEF LoadManifestSecret
  <2>4. job'.stored # Unset => IsConfig(job'.stored)
    BY <1>known, <2>3 DEF Explained
  <2> QED BY <1>known, <2>2, <2>3, <2>4, PreparedNames
<1>2. CASE \A line \in Lines : ~BeginDeploy(line)
  <2>1. IsDeploy /\ job'.line = job.line /\ job'.config = job.config /\ terminal' = terminal
    BY <1>known, <1>2, DeployContinues DEF Continues
  <2>2. CASE DeployCentral
    <3>1. job'.endpoint = job.config.central.namespace /\ "central" \in job.line.components
      BY <1>known, <1>2, <2>2, LastPhases
    <3> QED BY <2>1, <3>1 DEF Endpoints
  <2>3. CASE ~DeployCentral
    <3>1. job'.endpoint = job.endpoint
      BY <1>known, <1>2, <2>3, LastPhases
    <3>2. ASSUME "central" \in job.line.components, job'.pc \in {"sensor", "manifest"}
          PROVE  job.pc \in {"sensor", "manifest"}
      <4>1. UNCHANGED vars \/ DeploySecuredCluster \/ SkipSecuredCluster
        BY <1>known, <1>2, <2>3, <3>2, LastPhases
      <4> QED BY <3>2, <4>1 DEF vars, DeploySecuredCluster, SkipSecuredCluster
    <3> QED BY <2>1, <3>1, <3>2 DEF Endpoints
  <2> QED BY <2>2, <2>3
<1> QED BY <1>1, <1>2

\* Without a fault, the Central that API_ENDPOINT leads to is the manifest's, and the running command's,
\* but for a deploy that is just replacing it.
Leads == terminal # Unset /\ centrals[terminal] # Unset
Replacing == job.pc \in {"sensor", "manifest"} /\ "central" \in job.line.components /\ job.endpoint = terminal
ManifestLeads ==
    /\ manifest # Unset /\ manifest.central.namespace = terminal
    /\ IsDeploy /\ "central" \notin job.line.components => job.config.central.namespace = terminal
    /\ job.pc = "teardown" => job.config.central.namespace = terminal
    /\ ~(job.pc = "forget" /\ "central" \in job.line.components)
Led == faults = 0 /\ Leads => Replacing \/ ManifestLeads

\* A prepared deploy is not refused for want of credentials.
LEMMA NeverRefused ==
    ASSUME Known
    PROVE  /\ DeployCentral => job'.pc = "sensor"
           /\ DeploySecuredCluster => \/ job'.pc = "manifest"
                                      \/ /\ job' = Idle /\ centrals' = centrals
                                         /\ job.endpoint = Unset \/ centrals[job.endpoint] = Unset
<1>0. Prepared /\ (IsDeploy => DOMAIN job = JobFields)
  BY DEF Known, Decided, Shape, IsDeploy, DeployPhases
<1>1. ASSUME DeployCentral PROVE job'.pc = "sensor"
  <2>1. IsDeploy /\ job.pc = "central"
    BY <1>1 DEF DeployCentral, IsDeploy, DeployPhases
  <2>2. PICK probe \in MainProbes :
          \/ NeedsPullSecrets(job.config, probe[1]) /\ job.creds = Refused
          \/ \E n : job' = [job EXCEPT !.pc = "sensor", !.endpoint = n]
    BY <1>1 DEF DeployCentral
  <2>3. \E n : job' = [job EXCEPT !.pc = "sensor", !.endpoint = n]
    BY <1>0, <2>1, <2>2, NeverWithout
  <2> QED BY <1>0, <2>1, <2>3 DEF JobFields
<1>2. ASSUME DeploySecuredCluster
      PROVE  \/ job'.pc = "manifest"
             \/ /\ job' = Idle /\ centrals' = centrals
                /\ job.endpoint = Unset \/ centrals[job.endpoint] = Unset
  <2>1. IsDeploy /\ job.pc = "sensor"
    BY <1>2 DEF DeploySecuredCluster, IsDeploy, DeployPhases
  <2>2. PICK probe \in MainProbes :
          \/ NeedsPullSecrets(job.config, probe[1]) /\ job.creds = Refused
          \/ job' = [job EXCEPT !.pc = "manifest"]
          \/ /\ ~(job.endpoint # Unset /\ centrals[job.endpoint] # Unset)
             /\ job' = Idle /\ centrals' = centrals
    BY <1>2 DEF DeploySecuredCluster
  <2>3. \/ job' = [job EXCEPT !.pc = "manifest"]
        \/ /\ ~(job.endpoint # Unset /\ centrals[job.endpoint] # Unset)
           /\ job' = Idle /\ centrals' = centrals
    BY <1>0, <2>1, <2>2, NeverWithout
  <2>4. CASE job' = [job EXCEPT !.pc = "manifest"]
    BY <1>0, <2>1, <2>4 DEF JobFields
  <2> QED BY <2>3, <2>4
<1> QED BY <1>1, <1>2

LEMMA LedKept ==
    ASSUME ~IsConfig(Unset), OnlyDeploysPlaceCentral, Known, Placed, Wired, Endpoints, Led, [Next]_vars
    PROVE  Led'
<1>known. /\ Shape /\ Jobs /\ Explained /\ host \in Hosts /\ faults \in Nat
          /\ IsDeploy => DOMAIN job = JobFields
  BY DEF Known, Decided, Jobs, Shape, IsDeploy, DeployPhases
<1>idle. Idle.pc = "idle"
  BY DEF Idle
<1> SUFFICES ASSUME faults' = 0, Leads' PROVE Replacing' \/ ManifestLeads'
  BY DEF Led
<1>faults. faults = 0
  BY <1>known, FaultsGrow
<1>places. IsDeploy => job.config.central.namespace \in Namespaces
  BY DEF Placed, NamespacesOf
<1>1. ASSUME NEW line \in Lines, BeginDeploy(line) PROVE ManifestLeads'
  <2>1. job = Idle /\ manifest' = manifest /\ centrals' = centrals /\ terminal' = terminal
    BY <1>1 DEF BeginDeploy, cluster
  <2>2. Leads /\ ~Replacing
    BY <1>idle, <2>1 DEF Leads, Replacing
  <2>3. manifest # Unset /\ manifest.central.namespace = terminal
    BY <1>faults, <2>2 DEF Led, ManifestLeads
  <2>4. CASE job' = Idle
    BY <1>idle, <2>1, <2>3, <2>4 DEF ManifestLeads, IsDeploy, DeployPhases
  <2>5. CASE job' # Idle
    <3>1. job'.pc = "container" /\ job'.line = line /\ line.verb = "deploy"
      BY <1>1, <2>5, DeployBegins
    <3>2. PICK source \in Sources : job'.config = PreparedConfig(line, job'.stored, LookupMainImageTag(source), names')
      BY <1>1, <2>5, DeployBegins
    <3>3. job'.stored = manifest
      <4>1. job'.stored = manifest \/ Spend(1)
        BY <1>1, <2>5, DeployBegins DEF LoadManifestSecret
      <4> QED BY <1>known, <4>1, CostsNothing
    <3>4. "central" \notin line.components => job'.config.central.namespace = terminal
      <4>1. IsConfig(manifest)
        BY <1>known, <2>3 DEF Explained
      <4>2. "central" \notin line.components => line.args.central.namespace = Unset
        BY DEF OnlyDeploysPlaceCentral
      <4> QED BY <1>known, <2>3, <3>2, <3>3, <4>1, <4>2, NamespaceIsKept
    <3> QED BY <2>1, <2>3, <3>1, <3>4 DEF ManifestLeads
  <2> QED BY <2>4, <2>5
<1>2. ASSUME NEW line \in Lines, BeginTeardown(line) PROVE ManifestLeads'
  <2>1. /\ job = Idle /\ manifest' = manifest /\ centrals' = centrals /\ terminal' = terminal
        /\ line.verb = "teardown"
    BY <1>2 DEF BeginTeardown, cluster
  <2>2. Leads /\ ~Replacing
    BY <1>idle, <2>1 DEF Leads, Replacing
  <2>3. manifest # Unset /\ manifest.central.namespace = terminal
    BY <1>faults, <2>2 DEF Led, ManifestLeads
  <2>4. PICK stored \in {manifest, Unset} :
          /\ LoadManifestSecret(stored)
          /\ job' = [pc |-> "teardown", line |-> line, stored |-> stored,
                     config |-> AssembleConfigForCommand(stored, host.user, line.args)]
    BY <1>2 DEF BeginTeardown
  <2>5. stored = manifest
    <3>1. stored = manifest \/ Spend(1)
      BY <2>4 DEF LoadManifestSecret
    <3> QED BY <1>known, <3>1, CostsNothing
  <2>6. job'.pc = "teardown" /\ job'.config = AssembleConfigForCommand(manifest, host.user, line.args)
    BY <2>4, <2>5
  <2>7. job'.config.central.namespace = terminal
    <3>1. IsConfig(manifest) /\ line.args.central.namespace = Unset
      BY <1>known, <2>1, <2>3 DEF Explained, OnlyDeploysPlaceCentral
    <3> QED BY <1>known, <2>3, <2>6, <3>1, NamespaceIsKept
  <2> QED BY <2>1, <2>3, <2>6, <2>7 DEF ManifestLeads, DeployPhases, IsDeploy
\* The steps of a deploy up to its manifest, but for that of Central.
<1>3. ASSUME IsDeploy, ~DeployCentral, ~CreateManifestSecretOnCluster PROVE Replacing' \/ ManifestLeads'
  <2>1. ~Abort /\ ~DeleteManifestSecret /\ ~Teardown /\ job # Idle
    <3>1. ~Abort
      BY <1>known, CostsNothing DEF Abort
    <3>2. ~DeleteManifestSecret /\ ~Teardown /\ job # Idle
      BY <1>3, <1>idle DEF DeleteManifestSecret, Teardown, IsDeploy, DeployPhases
    <3> QED BY <3>1, <3>2
  <2>2. \A line \in Lines : ~BeginDeploy(line) /\ ~BeginTeardown(line)
    BY <2>1 DEF BeginDeploy, BeginTeardown
  <2>3. manifest' = manifest /\ terminal' = terminal
    BY <1>known, <1>3, <2>1, ManifestKept
  <2>4. centrals[terminal] # Unset /\ Leads
    <3>1. terminal \in Namespaces /\ terminal # Unset /\ centrals'[terminal] # Unset
      BY <2>3 DEF Leads, Wired
    <3> QED BY <1>3, <3>1, CentralsChange DEF Leads
  <2>5. Replacing \/ ManifestLeads
    BY <1>faults, <2>4 DEF Led
  <2>6. job'.pc \in DeployPhases \/ (job' = Idle /\ ~Replacing)
    <3>1. CASE job' = Idle
      <4>1. CASE DeploySecuredCluster
        <5>1. job.endpoint # terminal
          BY <1>idle, <2>4, <3>1, <4>1, NeverRefused DEF Leads
        <5> QED BY <3>1, <5>1 DEF Replacing
      <4>2. CASE ~DeploySecuredCluster
        <5>1. job.pc \notin {"sensor", "manifest"}
          <6>1. ~SkipSecuredCluster /\ ~UNCHANGED vars
            <7>1. ASSUME SkipSecuredCluster PROVE job'.pc = "manifest"
              BY <1>known, <1>3, <7>1 DEF SkipSecuredCluster, JobFields
            <7> QED BY <1>idle, <2>1, <3>1, <7>1 DEF vars
          <6> QED BY <1>3, <2>1, <2>2, <4>2, <6>1
                  DEF Next, CheckContainer, TryTransferLocalImages, PrepareCredentials, EnsureOperator,
                      OperatorsDeployed, SkipCentral
        <5> QED BY <3>1, <5>1 DEF Replacing
      <4> QED BY <4>1, <4>2
    <3>2. CASE job' # Idle
      <4>1. \/ \E pc \in DeployPhases : \E probed, creds :
                 \/ job' = [job EXCEPT !.pc = pc] \/ job' = [job EXCEPT !.pc = pc, !.probed = probed]
                 \/ job' = [job EXCEPT !.pc = pc, !.probed = probed, !.creds = creds]
            \/ \E i, probed : \/ job' = [job EXCEPT !.instance = i]
                              \/ job' = [[job EXCEPT !.instance = i] EXCEPT !.probed = probed]
            \/ job' = job
        BY <1>3, <2>1, <2>2, <3>2
           DEF Next, CheckContainer, TryTransferLocalImages, PrepareCredentials, EnsureOperator, OperatorsDeployed,
               SkipCentral, DeploySecuredCluster, SkipSecuredCluster, vars, DeployPhases
      <4> QED BY <1>known, <1>3, <4>1 DEF JobFields, IsDeploy
    <3> QED BY <3>1, <3>2
  <2>7. CASE job' = Idle /\ ~Replacing
    BY <1>idle, <2>3, <2>5, <2>7 DEF ManifestLeads, IsDeploy, DeployPhases
  <2>8. CASE job'.pc \in DeployPhases
    <3>1. job'.line = job.line /\ job'.config = job.config
      BY <1>known, <2>2, <2>8, DeployContinues DEF Continues
    <3>2. CASE ManifestLeads
      BY <1>3, <2>3, <2>8, <3>1, <3>2 DEF ManifestLeads, IsDeploy, DeployPhases
    <3>3. CASE Replacing
      <4>1. job'.endpoint = job.endpoint
        BY <1>known, <1>3, <2>2, <2>8, LastPhases
      <4>2. job'.pc \in {"sensor", "manifest"}
        <5>1. UNCHANGED vars \/ DeploySecuredCluster \/ SkipSecuredCluster
          BY <1>3, <2>1, <2>2, <3>3 DEF Replacing, Next, CheckContainer, TryTransferLocalImages, PrepareCredentials,
             EnsureOperator, OperatorsDeployed, SkipCentral
        <5>2. CASE UNCHANGED vars
          BY <3>3, <5>2 DEF vars, Replacing
        <5>3. CASE DeploySecuredCluster
          BY <1>idle, <2>8, <5>3, NeverRefused DEF DeployPhases
        <5>4. CASE SkipSecuredCluster
          BY <1>known, <1>3, <5>4 DEF SkipSecuredCluster, JobFields
        <5> QED BY <5>1, <5>2, <5>3, <5>4
      <4> QED BY <2>3, <3>1, <3>3, <4>1, <4>2 DEF Replacing
    <3> QED BY <2>5, <3>2, <3>3
  <2> QED BY <2>6, <2>7, <2>8
<1>4. ASSUME DeployCentral PROVE Replacing' \/ ManifestLeads'
  <2> DEFINE n == job.config.central.namespace
  <2>1. /\ IsDeploy /\ job.pc = "central" /\ "central" \in job.line.components
        /\ manifest' = manifest /\ terminal' = terminal
    BY <1>4 DEF DeployCentral, IsDeploy, DeployPhases
  <2>2. job'.pc = "sensor"
    BY <1>4, NeverRefused
  <2>3. \A line \in Lines : ~BeginDeploy(line)
    BY <1>idle, <2>1 DEF BeginDeploy
  <2>4. job'.endpoint = n /\ job'.line = job.line /\ job'.config = job.config
    BY <1>known, <1>4, <2>2, <2>3, LastPhases, DeployContinues DEF Continues, DeployPhases
  <2>5. CASE n = terminal
    BY <2>1, <2>2, <2>4, <2>5 DEF Replacing
  <2>6. CASE n # terminal
    <3>1. terminal \in Namespaces /\ centrals'[terminal] # Unset
      BY <2>1 DEF Leads, Wired
    <3>2. centrals'[terminal] = centrals[terminal]
      <4>1. ~DeploySecuredCluster
        BY <2>1 DEF DeploySecuredCluster
      <4> QED BY <2>6, <3>1, <4>1, CentralsChange
    <3>3. Leads /\ ~Replacing
      BY <2>1, <3>2 DEF Leads, Replacing
    <3> QED BY <1>faults, <2>1, <2>2, <2>4, <3>3 DEF Led, ManifestLeads
  <2> QED BY <2>5, <2>6
<1>5. ASSUME CreateManifestSecretOnCluster PROVE ManifestLeads'
  <2>1. /\ IsDeploy /\ job.pc = "manifest" /\ job' = Idle /\ centrals' = centrals /\ terminal' = job.endpoint
        /\ manifest' = ManifestConfig \/ Spend(1)
    BY <1>5 DEF CreateManifestSecretOnCluster, IsDeploy, DeployPhases, cluster
  <2>2. manifest' = ManifestConfig
    BY <1>known, <2>1, CostsNothing
  <2>3. IsConfig(ManifestConfig) /\ ManifestConfig.central = job.config.central
    BY <1>known, <2>1, ManifestWritten, SettingNames DEF Explained
  <2>4. job.config.central.namespace = job.endpoint
    <3>1. CASE "central" \in job.line.components
      BY <2>1, <3>1 DEF Endpoints
    <3>2. CASE "central" \notin job.line.components
      <4>1. job.endpoint = terminal
        BY <2>1, <3>2 DEF Endpoints
      <4>2. Leads /\ ~Replacing
        BY <2>1, <3>2, <4>1 DEF Leads, Replacing
      <4> QED BY <1>faults, <2>1, <3>2, <4>1, <4>2 DEF Led, ManifestLeads
    <3> QED BY <3>1, <3>2
  <2> QED BY <1>idle, <2>1, <2>2, <2>3, <2>4 DEF ManifestLeads, IsDeploy, DeployPhases
<1>6. ASSUME Teardown PROVE ManifestLeads'
  <2>1. /\ job.pc = "teardown" /\ manifest' = manifest /\ terminal' = terminal
        /\ job' = [job EXCEPT !.pc = "forget"]
    BY <1>6 DEF Teardown
  <2>2. job'.pc = "forget" /\ job'.line = job.line
    BY <1>known, <2>1 DEF Jobs, TeardownPhases
  <2>3. PICK spared \in {{}} \cup {{k} : k \in job.line.components} :
          /\ Spend(Cardinality(spared))
          /\ centrals' = IF "central" \in job.line.components \ spared
                         THEN [centrals EXCEPT ![job.config.central.namespace] = Unset] ELSE centrals
    BY <1>6 DEF Teardown
  <2>4. spared = {}
    <3>1. spared = {} \/ Cardinality(spared) = 1
      BY FS_Singleton
    <3>2. CASE Cardinality(spared) = 1
      <4>1. Spend(1)
        BY <2>3, <3>2
      <4> QED BY <1>known, <4>1, CostsNothing
    <3> QED BY <3>1, <3>2
  <2>5. terminal \in Namespaces /\ centrals'[terminal] # Unset /\ DOMAIN centrals = Namespaces
    BY <2>1 DEF Leads, Wired
  <2>6. Leads /\ ~Replacing
    BY <2>1, <2>3, <2>5 DEF Leads, Replacing
  <2>7. ManifestLeads /\ job.config.central.namespace = terminal
    BY <1>faults, <2>1, <2>6 DEF Led, ManifestLeads
  <2>8. "central" \notin job.line.components
    BY <2>3, <2>4, <2>5, <2>7
  <2> QED BY <2>1, <2>2, <2>7, <2>8 DEF ManifestLeads, IsDeploy, DeployPhases
<1>7. ASSUME DeleteManifestSecret PROVE ManifestLeads'
  <2>1. /\ job.pc = "forget" /\ job' = Idle /\ centrals' = centrals /\ terminal' = terminal
        /\ "central" \notin job.line.components => manifest' = manifest
    BY <1>7 DEF DeleteManifestSecret, cluster
  <2>2. Leads /\ ~Replacing
    BY <2>1 DEF Leads, Replacing
  <2>3. ManifestLeads
    BY <1>faults, <2>2 DEF Led
  <2> QED BY <1>idle, <2>1, <2>3 DEF ManifestLeads, IsDeploy, DeployPhases
<1>8. ASSUME UNCHANGED vars PROVE Replacing' \/ ManifestLeads'
  <2>1. manifest' = manifest /\ job' = job /\ centrals' = centrals /\ terminal' = terminal
    BY <1>8 DEF vars, cluster
  <2>2. Leads /\ (Replacing \/ ManifestLeads)
    BY <1>faults, <2>1 DEF Leads, Led
  <2> QED BY <2>1, <2>2 DEF Replacing, ManifestLeads, IsDeploy
<1>9. ~Abort
  BY <1>known, CostsNothing DEF Abort
<1>10. CASE IsDeploy
  BY <1>3, <1>4, <1>5, <1>10
<1>11. CASE ~IsDeploy
  BY <1>1, <1>2, <1>6, <1>7, <1>8, <1>9, <1>11
     DEF Next, IsDeploy, DeployPhases, CheckContainer, TryTransferLocalImages, PrepareCredentials, EnsureOperator,
         OperatorsDeployed, DeployCentral, SkipCentral, DeploySecuredCluster, SkipSecuredCluster,
         CreateManifestSecretOnCluster
<1> QED BY <1>10, <1>11

\* A SecuredCluster that was deployed by itself has the endpoint that it was registered at.
Registered ==
    job.pc = "manifest" /\ job.line.components = {"sensor"} /\ faults = 0
        => sensors[job.config.securedCluster.namespace].endpoint = job.endpoint

LEMMA RegisteredKept ==
    ASSUME Known, Placed, Wired, Endpoints, Led, Registered, [Next]_vars
    PROVE  Registered'
<1>known. /\ Shape /\ Jobs /\ faults \in Nat /\ (IsDeploy => DOMAIN job = JobFields)
  BY DEF Known, Decided, Jobs, Shape, IsDeploy, DeployPhases
<1> SUFFICES ASSUME job'.pc = "manifest", job'.line.components = {"sensor"}, faults' = 0
             PROVE  sensors'[job'.config.securedCluster.namespace].endpoint = job'.endpoint
  BY DEF Registered
<1>1. faults = 0 /\ job'.pc \in DeployPhases
  BY <1>known, FaultsGrow DEF DeployPhases
<1>2. \A line \in Lines : ~BeginDeploy(line)
  BY DeployBegins DEF Idle
<1>3. IsDeploy /\ job'.line = job.line /\ job'.config = job.config
  BY <1>known, <1>1, <1>2, DeployContinues DEF Continues
<1>4. UNCHANGED vars \/ DeploySecuredCluster
  <2>1. UNCHANGED vars \/ DeploySecuredCluster \/ SkipSecuredCluster
    BY <1>known, <1>1, <1>2, LastPhases
  <2>2. ~SkipSecuredCluster
    BY <1>3 DEF SkipSecuredCluster
  <2> QED BY <2>1, <2>2
<1>5. CASE UNCHANGED vars
  BY <1>1, <1>5 DEF vars, cluster, Registered
<1>6. CASE DeploySecuredCluster
  <2> DEFINE n == job.config.securedCluster.namespace
             endpoint == job.config.securedCluster.spec.centralEndpoint
  <2>1. job' # Idle /\ job.pc = "sensor"
    BY <1>6 DEF Idle, DeploySecuredCluster
  <2>2. /\ job.endpoint # Unset /\ centrals[job.endpoint] # Unset
        /\ sensors' = [sensors EXCEPT ![n] = [registry |-> Registry, endpoint |-> endpoint]]
        /\ job' = [job EXCEPT !.pc = "manifest"]
    BY <1>6, <2>1 DEF DeploySecuredCluster
  <2> HIDE DEF n, endpoint
  <2>3. n \in DOMAIN sensors
    BY <1>3 DEF Placed, Wired, NamespacesOf, n
  <2>4. sensors'[n].endpoint = endpoint
    BY <2>2, <2>3
  <2>5. job.endpoint = terminal /\ endpoint = job.config.central.namespace
    BY <1>3 DEF Endpoints, endpoint
  <2>6. Leads /\ ~Replacing
    BY <1>3, <2>2, <2>5 DEF Leads, Replacing
  <2>7. job.config.central.namespace = terminal
    BY <1>1, <1>3, <2>6 DEF Led, ManifestLeads
  <2>8. job'.endpoint = job.endpoint
    BY <1>known, <1>3, <2>2 DEF JobFields
  <2> QED BY <1>3, <2>4, <2>5, <2>7, <2>8 DEF n
<1> QED BY <1>4, <1>5, <1>6

Wiring == Placed /\ Wired /\ Drawn /\ Fresh /\ Endpoints /\ Led /\ Registered

\* A SecuredCluster never registers under a name that its Central has seen, and one that is deployed by itself
\* talks to the Central that it is registered with (retrieveClusterConfigForComponents,
\* applySecuredClusterDefaults, configureSpecs), through any deploys, teardowns and manifests.
THEOREM SensorWiredAnewCorrect ==
    ASSUME LegacyIsSound, LegacyWithoutVariables, PlacesExist, TypesAreDetected, NamesAreDrawn, PartsAreUsual,
           OnlyDeploysPlaceCentral
    PROVE  Spec => []SensorWiredAnew
<1>0. ~IsConfig(Unset)
  BY LegacyIsSound DEF LegacyIsSound
<1>1. Init => Wiring
  <2> SUFFICES ASSUME Init PROVE Wiring
    OBVIOUS
  <2>1. Placed
    BY PlacedFirst, PlacesExist, TypesAreDetected, LegacyIsSound
  <2>2. /\ job = Idle /\ Idle.pc = "idle" /\ manifest \in Legacy /\ names = 0 /\ terminal = Unset
        /\ centrals = [n \in Namespaces |-> Unset] /\ sensors = [n \in Namespaces |-> Unset]
        /\ past.reused = FALSE
    BY DEF Init, Idle, NoPast
  <2>3. Wired /\ Fresh /\ Endpoints /\ Led /\ Registered
    BY <2>2 DEF Wired, Fresh, Endpoints, Led, Leads, Registered, IsDeploy, DeployPhases
  <2>4. Drawn
    BY <2>2, NamesAreDrawn DEF NamesAreDrawn, Drawn, NameOf, IsDeploy, DeployPhases
  <2> QED BY <2>1, <2>3, <2>4 DEF Wiring
<1>2. Known /\ Wiring /\ [Next]_vars => Wiring'
  <2> SUFFICES ASSUME Known, Wiring, [Next]_vars PROVE Wiring'
    OBVIOUS
  <2> USE DEF Wiring
  <2>1. Placed'
    BY <1>0, PlacesExist, TypesAreDetected, PlacedKept
  <2>2. Wired'
    BY WiredKept
  <2>3. Drawn'
    BY <1>0, NamesAreDrawn, DrawnKept
  <2>4. Fresh'
    BY <1>0, NamesAreDrawn, PartsAreUsual, FreshKept
  <2>5. Endpoints'
    BY <1>0, NamesAreDrawn, EndpointsKept
  <2>6. Led'
    BY <1>0, OnlyDeploysPlaceCentral, LedKept
  <2>7. Registered'
    BY RegisteredKept
  <2> QED BY <2>1, <2>2, <2>3, <2>4, <2>5, <2>6, <2>7
<1>3. Wiring => SensorWiredAnew
  BY DEF Wiring, Fresh, Registered, SensorWiredAnew
<1> QED BY <1>0, <1>1, <1>2, <1>3, KnownAlways, LegacyIsSound, LegacyWithoutVariables, PTL DEF Spec

----------------------------------------------------------------------------
(* Reproducing a deploy *)

\* There is always a tag to be found, or the lookup is refused.
TagsAreGiven == \A source \in Sources : LookupMainImageTag(source) # Unset

IsMap(f) == f = [k \in DOMAIN f |-> f[k]]
MapsOf(c) == {c.roxie.featureFlags} \cup {c[s].envVars : s \in OperatorSections}
                                    \cup {c[s].operandTagOverrides : s \in OperatorSections}

UnlessExposed(forwarding, exposure, yes) ==
    IF forwarding = Unset /\ exposure \in {Unset, "none"} THEN yes ELSE forwarding
ForwardingOf(t, forwarding, exposure) == UnlessExposed(ForwardingFor(t, forwarding), exposure, TRUE)

\* A configuration that would be completed to itself.
CompleteFor(c, detected) ==
    LET t == c.roxie.clusterType
    IN  /\ c.roxie.version # Unset
        /\ FirstSet(t, detected) = t
        /\ ResolveAutoResourceProfile(c.central.resourceProfile, t) = c.central.resourceProfile
        /\ ResolveAutoResourceProfile(c.securedCluster.resourceProfile, t) = c.securedCluster.resourceProfile
        /\ ExposureFor(t, c.central.exposure) = c.central.exposure
        /\ ForwardingOf(t, c.central.portForwarding, c.central.exposure) = c.central.portForwarding
        /\ \A f \in MapsOf(c) : IsMap(f)
Complete(c) == CompleteFor(c, Detected)

\* Nothing is completed twice.
LEMMA FilledOnce == \A a, b : FirstSet(FirstSet(a, b), b) = FirstSet(a, b)
BY DEF FirstSet

LEMMA ProfileResolvedOnce ==
    ASSUME NEW profile, NEW t
    PROVE  ResolveAutoResourceProfile(ResolveAutoResourceProfile(profile, t), t) = ResolveAutoResourceProfile(profile, t)
BY DEF ResolveAutoResourceProfile

LEMMA ExposureFilledOnce ==
    ASSUME NEW t, NEW e
    PROVE  ExposureFor(t, ExposureFor(t, e)) = ExposureFor(t, e)
BY FilledOnce DEF ExposureFor

\* The same for any settings in the place of TRUE and FALSE.
LEMMA EitherFilledOnce ==
    ASSUME NEW yes, NEW x, NEW forwarding, NEW exposure
    PROVE  /\ UnlessExposed(FirstSet(UnlessExposed(FirstSet(forwarding, x), exposure, yes), x), exposure, yes)
                = UnlessExposed(FirstSet(forwarding, x), exposure, yes)
           /\ UnlessExposed(UnlessExposed(forwarding, exposure, yes), exposure, yes)
                = UnlessExposed(forwarding, exposure, yes)
BY DEF FirstSet, UnlessExposed

LEMMA ForwardingFilledOnce ==
    ASSUME NEW t, NEW forwarding, NEW exposure
    PROVE  ForwardingOf(t, ForwardingOf(t, forwarding, exposure), exposure) = ForwardingOf(t, forwarding, exposure)
<1> DEFINE once == ForwardingOf(t, forwarding, exposure)
<1>0. /\ once = UnlessExposed(ForwardingFor(t, forwarding), exposure, TRUE)
      /\ ForwardingOf(t, once, exposure) = UnlessExposed(ForwardingFor(t, once), exposure, TRUE)
  BY Zenon DEF ForwardingOf
<1> HIDE DEF once
<1>1. CASE IsLocal(t)
  <2>1. \A f : ForwardingFor(t, f) = FirstSet(f, TRUE)
    BY <1>1, Zenon DEF ForwardingFor
  <2>2. UnlessExposed(FirstSet(UnlessExposed(FirstSet(forwarding, TRUE), exposure, TRUE), TRUE), exposure, TRUE)
          = UnlessExposed(FirstSet(forwarding, TRUE), exposure, TRUE)
    BY EitherFilledOnce, Zenon
  <2>3. ForwardingFor(t, forwarding) = FirstSet(forwarding, TRUE) /\ ForwardingFor(t, once) = FirstSet(once, TRUE)
    BY <2>1, Zenon
  <2>4. once = UnlessExposed(FirstSet(forwarding, TRUE), exposure, TRUE)
    BY <1>0, <2>3, Zenon
  <2>5. ForwardingOf(t, once, exposure) = UnlessExposed(FirstSet(once, TRUE), exposure, TRUE)
    BY <1>0, <2>3, Zenon
  <2> QED BY <2>2, <2>4, <2>5, Zenon DEF once
<1>2. CASE ~IsLocal(t) /\ SupportsLoadBalancer(t)
  <2>1. \A f : ForwardingFor(t, f) = FirstSet(f, FALSE)
    BY <1>2, Zenon DEF ForwardingFor
  <2>2. UnlessExposed(FirstSet(UnlessExposed(FirstSet(forwarding, FALSE), exposure, TRUE), FALSE), exposure, TRUE)
          = UnlessExposed(FirstSet(forwarding, FALSE), exposure, TRUE)
    BY EitherFilledOnce, Zenon
  <2>3. ForwardingFor(t, forwarding) = FirstSet(forwarding, FALSE) /\ ForwardingFor(t, once) = FirstSet(once, FALSE)
    BY <2>1, Zenon
  <2>4. once = UnlessExposed(FirstSet(forwarding, FALSE), exposure, TRUE)
    BY <1>0, <2>3, Zenon
  <2>5. ForwardingOf(t, once, exposure) = UnlessExposed(FirstSet(once, FALSE), exposure, TRUE)
    BY <1>0, <2>3, Zenon
  <2> QED BY <2>2, <2>4, <2>5, Zenon DEF once
<1>3. CASE ~IsLocal(t) /\ ~SupportsLoadBalancer(t)
  <2>1. \A f : ForwardingFor(t, f) = f
    BY <1>3, Zenon DEF ForwardingFor
  <2>2. UnlessExposed(UnlessExposed(forwarding, exposure, TRUE), exposure, TRUE)
          = UnlessExposed(forwarding, exposure, TRUE)
    BY EitherFilledOnce, Zenon
  <2>3. ForwardingFor(t, forwarding) = forwarding /\ ForwardingFor(t, once) = once
    BY <2>1, Zenon
  <2>4. once = UnlessExposed(forwarding, exposure, TRUE)
    BY <1>0, <2>3, Zenon
  <2>5. ForwardingOf(t, once, exposure) = UnlessExposed(once, exposure, TRUE)
    BY <1>0, <2>3, Zenon
  <2> QED BY <2>2, <2>4, <2>5, Zenon DEF once
<1> QED BY <1>1, <1>2, <1>3

LEMMA MergedMaps == ASSUME NEW f, NEW g PROVE IsMap(Over(f, g))
BY DEF IsMap, Over

LEMMA OverNothing == ASSUME NEW f, IsMap(f) PROVE Over(<< >>, f) = f
<1>1. DOMAIN << >> = {}
  OBVIOUS
<1>2. Over(<< >>, f) = [k \in DOMAIN f |-> f[k]]
  BY <1>1 DEF Over
<1> QED BY <1>2 DEF IsMap

\* The configuration of a deploy is complete.
LEMMA PreparedIsComplete ==
    ASSUME ~IsConfig(Unset), NEW line, NEW stored, stored # Unset => IsConfig(stored), NEW tag, tag # Unset, NEW name
    PROVE  Complete(PreparedConfig(line, stored, tag, name))
<1> DEFINE base == Base(stored, line.components)
           a == Patched(Patched(base, host.user), line.args)
           p == PreparedConfig(line, stored, tag, name)
<1>1. PICK c : /\ Merged(base, host.user, line.args, tag, line.components, name, c)
               /\ Completed(c, line.components, Detected, p)
  BY PreparedSettings DEF Detected
<1> HIDE DEF p
<1>2. IsConfig(base)
  BY BaseSettings, DefaultIsConfig DEF Base
<1> HIDE DEF base
<1> DEFINE t == FirstSet(c.roxie.clusterType, Detected)
<1>3. p.roxie.clusterType = t /\ FirstSet(t, Detected) = t
  BY <1>1, FilledOnce DEF Completed
<1>4. p.roxie.version # Unset
  <2>1. "version" \in SettingsOf("roxie")
    BY SettingNames
  <2>2. p.roxie.version = c.roxie.version
    BY <1>1, <2>1 DEF Completed
  <2>3. c.roxie.version = FirstSet(a.roxie.version, tag)
    BY <1>1 DEF Merged
  <2> HIDE DEF a
  <2> QED BY <2>2, <2>3 DEF FirstSet
<1>5. /\ p.central.resourceProfile = ResolveAutoResourceProfile(c.central.resourceProfile, t)
      /\ p.securedCluster.resourceProfile = ResolveAutoResourceProfile(c.securedCluster.resourceProfile, t)
      /\ p.central.exposure = ExposureFor(t, c.central.exposure)
  BY <1>1 DEF Completed
<1>6. p.central.portForwarding = ForwardingOf(t, c.central.portForwarding, p.central.exposure)
  <2>1. p.central.portForwarding = UnlessExposed(ForwardingFor(t, c.central.portForwarding),
                                                 ExposureFor(t, c.central.exposure), TRUE)
    BY <1>1, Zenon DEF Completed, UnlessExposed
  <2> HIDE DEF t
  <2> QED BY <1>5, <2>1, Zenon DEF ForwardingOf
<1>7. \A f \in MapsOf(p) : IsMap(f)
  <2>1. ASSUME NEW s \in OperatorSections, NEW f \in {"envVars", "operandTagOverrides"} PROVE IsMap(p[s][f])
    <3>1. s \in Sections /\ f \in SettingsOf(s) /\ f \in MapSettings /\ s \notin {"roxie", "securedCluster"}
      BY SettingNames DEF InstanceSettings, MapSettings, OperatorSections
    <3>2. p[s] = c[s] /\ c[s] = a[s]
      BY <1>1, <3>1 DEF Completed, Merged
    <3>3. a[s][f] = Over(line.args[s][f], Over(host.user[s][f], base[s][f]))
      BY <1>2, <3>1, MergedSetting
    <3> HIDE DEF a
    <3> QED BY <3>2, <3>3, MergedMaps
  <2>2. IsMap(p.roxie.featureFlags)
    <3>1. "roxie" \in Sections /\ "featureFlags" \in SettingsOf("roxie") /\ "featureFlags" \in MapSettings
      BY SettingNames DEF MapSettings
    <3>2. p.roxie.featureFlags = c.roxie.featureFlags
      BY <1>1, <3>1 DEF Completed
    <3>3. c.roxie.featureFlags = a.roxie.featureFlags
      BY <1>1, <3>1 DEF Merged
    <3>4. a.roxie.featureFlags
            = Over(line.args.roxie.featureFlags, Over(host.user.roxie.featureFlags, base.roxie.featureFlags))
      BY <1>2, <3>1, MergedSetting
    <3> HIDE DEF a
    <3> QED BY <3>2, <3>3, <3>4, MergedMaps
  <2>3. \A s \in OperatorSections : IsMap(p[s]["envVars"]) /\ IsMap(p[s]["operandTagOverrides"])
    BY <2>1
  <2> QED BY <2>2, <2>3 DEF MapsOf
<1> HIDE DEF t
<1>8. ForwardingOf(t, p.central.portForwarding, p.central.exposure) = p.central.portForwarding
  BY <1>6, ForwardingFilledOnce, Zenon
<1>9. ExposureFor(t, p.central.exposure) = p.central.exposure
  BY <1>5, ExposureFilledOnce
<1>10. /\ ResolveAutoResourceProfile(p.central.resourceProfile, t) = p.central.resourceProfile
       /\ ResolveAutoResourceProfile(p.securedCluster.resourceProfile, t) = p.securedCluster.resourceProfile
  BY <1>5, ProfileResolvedOnce
<1>11. CompleteFor(p, Detected)
  BY <1>3, <1>4, <1>7, <1>8, <1>9, <1>10, Zenon DEF CompleteFor
<1> QED BY <1>11 DEF Complete, p

\* What counts for the operators of a configuration.
SameForOperators(c, d) ==
    /\ \A s \in {"centralOperator", "sensorOperator"} : \A f \in InstanceSettings : d[s][f] = c[s][f]
    /\ \A f \in {"operandTag", "operandTagOverrides", "envVars"} : d.operator[f] = c.operator[f]
    /\ FirstSet(d.operator.version, d.roxie.version) = FirstSet(c.operator.version, c.roxie.version)
    /\ FirstSet(d.operator.konfluxImages, d.roxie.konfluxImages)
         = FirstSet(c.operator.konfluxImages, c.roxie.konfluxImages)
    /\ d.roxie.imageRegistry = c.roxie.imageRegistry

LEMMA SameOperators ==
    ASSUME NEW c, NEW d, SameForOperators(c, d)
    PROVE  OperatorInstances(d) = OperatorInstances(c)
<1>1. /\ d.centralOperator.version = c.centralOperator.version
      /\ d.centralOperator.konfluxImages = c.centralOperator.konfluxImages
      /\ d.centralOperator.operandTag = c.centralOperator.operandTag
      /\ d.centralOperator.operandTagOverrides = c.centralOperator.operandTagOverrides
      /\ d.centralOperator.envVars = c.centralOperator.envVars
      /\ d.sensorOperator.version = c.sensorOperator.version
      /\ d.sensorOperator.konfluxImages = c.sensorOperator.konfluxImages
      /\ d.sensorOperator.operandTag = c.sensorOperator.operandTag
      /\ d.sensorOperator.operandTagOverrides = c.sensorOperator.operandTagOverrides
      /\ d.sensorOperator.envVars = c.sensorOperator.envVars
  BY DEF SameForOperators, InstanceSettings
<1>2. /\ d.operator.operandTag = c.operator.operandTag /\ d.operator.envVars = c.operator.envVars
      /\ d.operator.operandTagOverrides = c.operator.operandTagOverrides
      /\ d.roxie.imageRegistry = c.roxie.imageRegistry
      /\ FirstSet(d.operator.version, d.roxie.version) = FirstSet(c.operator.version, c.roxie.version)
      /\ FirstSet(d.operator.konfluxImages, d.roxie.konfluxImages)
           = FirstSet(c.operator.konfluxImages, c.roxie.konfluxImages)
  BY DEF SameForOperators
<1>3. CentralVersion(d) = CentralVersion(c) /\ SecuredClusterVersion(d) = SecuredClusterVersion(c)
  BY <1>1, <1>2, Zenon DEF CentralVersion, SecuredClusterVersion
<1>4. HasMixedVersions(d) = HasMixedVersions(c)
  BY <1>3, Zenon DEF HasMixedVersions
<1>5. /\ ResolveKonfluxImages(d, d.centralOperator) = ResolveKonfluxImages(c, c.centralOperator)
      /\ ResolveKonfluxImages(d, d.sensorOperator) = ResolveKonfluxImages(c, c.sensorOperator)
  BY <1>1, <1>2, Zenon DEF ResolveKonfluxImages
<1>6. ResolveKonfluxImages(d, d.operator) = ResolveKonfluxImages(c, c.operator)
  <2>1. \A x, y : FirstSet(x, FirstSet(x, y)) = FirstSet(x, y)
    BY DEF FirstSet
  <2> QED BY <1>2, <2>1, Zenon DEF ResolveKonfluxImages
<1>7. \A namespace, version, envVars :
        /\ Instance(d, namespace, version, d.centralOperator, envVars)
             = Instance(c, namespace, version, c.centralOperator, envVars)
        /\ Instance(d, namespace, version, d.sensorOperator, envVars)
             = Instance(c, namespace, version, c.sensorOperator, envVars)
        /\ Instance(d, namespace, version, d.operator, envVars) = Instance(c, namespace, version, c.operator, envVars)
  BY <1>1, <1>2, <1>5, <1>6, Zenon DEF Instance
<1>8. CASE HasMixedVersions(c)
  <2>1. HasMixedVersions(d)
    BY <1>4, <1>8, Zenon
  <2> QED BY <1>1, <1>3, <1>7, <1>8, <2>1, Zenon DEF OperatorInstances
<1>9. CASE ~HasMixedVersions(c)
  <2>1. ~HasMixedVersions(d)
    BY <1>4, <1>9, Zenon
  <2> QED BY <1>2, <1>3, <1>7, <1>9, <2>1, Zenon DEF OperatorInstances
<1> QED BY <1>8, <1>9

\* What else a configuration resolves to.
SameOtherwise(c, d) ==
    /\ d.central.namespace = c.central.namespace /\ d.securedCluster.namespace = c.securedCluster.namespace
    /\ d.central.resourceProfile = c.central.resourceProfile
    /\ d.securedCluster.resourceProfile = c.securedCluster.resourceProfile
    /\ d.central.exposure = c.central.exposure /\ d.central.portForwarding = c.central.portForwarding
    /\ d.roxie.featureFlags = c.roxie.featureFlags
    /\ d.central.earlyReadiness = c.central.earlyReadiness
    /\ d.securedCluster.earlyReadiness = c.securedCluster.earlyReadiness

LEMMA SameResolution ==
    ASSUME NEW c, NEW d, SameForOperators(c, d), SameOtherwise(c, d)
    PROVE  Resolution(d) = Resolution(c)
<1>1. OperatorInstances(d) = OperatorInstances(c)
  BY SameOperators
<1> QED BY <1>1, Zenon DEF Resolution, SameOtherwise

\* Nothing gives nothing.
LEMMA NothingGiven ==
    ASSUME NEW s \in Sections, NEW f \in SettingsOf(s)
    PROVE  Nothing[s][f] = IF f \in MapSettings THEN << >> ELSE Unset
<1>1. CASE s \in OperatorSections
  <2>1. Nothing[s] = NoInstanceSettings
    BY <1>1 DEF Nothing, OperatorSections
  <2>2. f \in InstanceSettings
    BY <1>1, SettingNames
  <2> QED BY <2>1, <2>2 DEF NoInstanceSettings, InstanceSettings, MapSettings
<1>2. CASE s = "roxie"
  <2>1. f \in {"version", "imageRegistry", "konfluxImages", "featureFlags", "clusterType", "envrc"}
    BY <1>2, SettingNames
  <2>2. Nothing[s] = [version |-> Unset, imageRegistry |-> Unset, konfluxImages |-> Unset,
                      featureFlags |-> << >>, clusterType |-> Unset, envrc |-> Unset]
    BY <1>2 DEF Nothing
  <2> QED BY <2>1, <2>2 DEF MapSettings
<1>3. CASE s = "mode"
  <2>1. f \in {"skipDeployment", "deployViaOlm"}
    BY <1>3, SettingNames
  <2>2. Nothing[s] = [skipDeployment |-> Unset, deployViaOlm |-> Unset]
    BY <1>3 DEF Nothing
  <2> QED BY <2>1, <2>2 DEF MapSettings
<1>4. CASE s = "central"
  <2>1. f \in {"namespace", "resourceProfile", "exposure", "portForwarding", "earlyReadiness", "spec"}
    BY <1>4, SettingNames
  <2>2. Nothing[s] = [namespace |-> Unset, resourceProfile |-> Unset, exposure |-> Unset,
                      portForwarding |-> Unset, earlyReadiness |-> Unset, spec |-> << >>]
    BY <1>4 DEF Nothing
  <2> QED BY <2>1, <2>2 DEF MapSettings
<1>5. CASE s = "securedCluster"
  <2>1. f \in {"namespace", "resourceProfile", "earlyReadiness", "spec"}
    BY <1>5, SettingNames
  <2>2. Nothing[s] = [namespace |-> Unset, resourceProfile |-> Unset, earlyReadiness |-> Unset, spec |-> << >>]
    BY <1>5 DEF Nothing
  <2> QED BY <2>1, <2>2 DEF MapSettings
<1> QED BY <1>1, <1>2, <1>3, <1>4, <1>5 DEF Sections

\* To merge nothing changes nothing.
LEMMA NothingMerged ==
    ASSUME NEW base, IsConfig(base), NEW s \in Sections, NEW f \in SettingsOf(s), f \in MapSettings => IsMap(base[s][f])
    PROVE  Patched(Patched(base, Nothing), Nothing)[s][f] = base[s][f]
<1> DEFINE x == base[s][f]
           y == Nothing[s][f]
<1>1. Patched(Patched(base, Nothing), Nothing)[s][f] = IF f \in MapSettings THEN Over(y, Over(y, x))
                                                       ELSE FirstSet(y, FirstSet(y, x))
  BY MergedSetting
<1>2. y = IF f \in MapSettings THEN << >> ELSE Unset
  BY NothingGiven
<1>3. CASE f \in MapSettings
  <2>1. Over(<< >>, x) = x
    BY <1>3, OverNothing
  <2> HIDE DEF x, y
  <2> QED BY <1>1, <1>2, <1>3, <2>1 DEF x
<1>4. CASE f \notin MapSettings
  <2>1. FirstSet(Unset, FirstSet(Unset, x)) = x
    BY DEF FirstSet
  <2> HIDE DEF x, y
  <2> QED BY <1>1, <1>2, <1>4, <2>1, Zenon DEF x
<1> QED BY <1>3, <1>4

\* A deploy that is told nothing resolves to what the manifest resolves to.
LEMMA ManifestReproduced ==
    ASSUME ~IsConfig(Unset), NEW line, line.args = Nothing, host.user = Nothing,
           NEW stored, IsConfig(stored), Complete(stored), NEW tag, NEW name
    PROVE  Resolution(PreparedConfig(line, stored, tag, name)) = Resolution(stored)
<1> DEFINE base == Base(stored, line.components)
           a == Patched(Patched(base, Nothing), Nothing)
           p == PreparedConfig(line, stored, tag, name)
<1>0. stored # Unset
  OBVIOUS
<1>1. PICK c : /\ Merged(base, Nothing, Nothing, tag, line.components, name, c)
               /\ Completed(c, line.components, Detected, p)
  BY <1>0, PreparedSettings DEF Detected
<1> HIDE DEF p
<1>2. /\ IsConfig(base)
      /\ \A s \in Sections : s \notin {"operator", "securedCluster"} => base[s] = stored[s]
      /\ \A f \in InstanceSettings : f \notin {"version", "konfluxImages"} => base.operator[f] = stored.operator[f]
      /\ base.operator.version = UnlessSame(stored.operator.version, stored.roxie.version)
      /\ base.operator.konfluxImages = UnlessSame(stored.operator.konfluxImages, stored.roxie.konfluxImages)
      /\ \A f \in SettingsOf("securedCluster") : f # "spec" => base.securedCluster[f] = stored.securedCluster[f]
  BY <1>0, BaseSettings
<1> HIDE DEF base
<1>3. \A s \in Sections : \A f \in SettingsOf(s) : (f \in MapSettings => IsMap(base[s][f])) => a[s][f] = base[s][f]
  BY <1>2, NothingMerged
<1> HIDE DEF a
<1>maps. /\ IsMap(stored.roxie.featureFlags)
         /\ \A s \in OperatorSections : IsMap(stored[s].envVars) /\ IsMap(stored[s].operandTagOverrides)
  <2>1. \A f \in MapsOf(stored) : IsMap(f)
    BY DEF Complete, CompleteFor
  <2> QED BY <2>1 DEF MapsOf
<1>names. /\ \A s \in OperatorSections : s \in Sections /\ SettingsOf(s) = InstanceSettings
          /\ \A s \in OperatorSections : s \notin {"roxie", "securedCluster"}
          /\ {"operator", "centralOperator", "sensorOperator"} = OperatorSections
          /\ "roxie" \in Sections /\ "central" \in Sections /\ "securedCluster" \in Sections
          /\ \A f \in InstanceSettings : f \in MapSettings => f \in {"envVars", "operandTagOverrides"}
          /\ {"operandTag", "operandTagOverrides", "envVars", "version", "konfluxImages"} \subseteq InstanceSettings
          /\ {"version", "konfluxImages", "operandTag", "imageRegistry", "clusterType", "namespace", "resourceProfile",
              "exposure", "portForwarding", "earlyReadiness"} \cap MapSettings = {}
          /\ {"version", "imageRegistry", "konfluxImages", "featureFlags", "clusterType"} \subseteq SettingsOf("roxie")
          /\ {"namespace", "resourceProfile", "exposure", "portForwarding", "earlyReadiness"} \subseteq SettingsOf("central")
          /\ {"namespace", "resourceProfile", "earlyReadiness"} \subseteq SettingsOf("securedCluster")
  BY SettingNames DEF OperatorSections, InstanceSettings, MapSettings
<1>4. \A s \in OperatorSections : p[s] = a[s]
  BY <1>1, <1>names DEF Completed, Merged, a
<1>5. /\ p.roxie.version = FirstSet(a.roxie.version, tag)
      /\ p.roxie.imageRegistry = a.roxie.imageRegistry /\ p.roxie.konfluxImages = a.roxie.konfluxImages
      /\ p.roxie.featureFlags = a.roxie.featureFlags
      /\ p.roxie.clusterType = FirstSet(a.roxie.clusterType, Detected)
  <2>1. \A f \in SettingsOf("roxie") : f # "version" => c.roxie[f] = a.roxie[f]
    BY <1>1 DEF Merged, a
  <2>2. c.roxie.version = FirstSet(a.roxie.version, tag)
    BY <1>1 DEF Merged, a
  <2>3. \A f \in SettingsOf("roxie") : f # "clusterType" => p.roxie[f] = c.roxie[f]
    BY <1>1 DEF Completed
  <2>4. p.roxie.clusterType = FirstSet(c.roxie.clusterType, Detected)
    BY <1>1 DEF Completed
  <2> QED BY <1>names, <2>1, <2>2, <2>3, <2>4
<1>6. \A f \in SettingsOf("roxie") : f \in {"version", "imageRegistry", "konfluxImages", "featureFlags", "clusterType"}
        => a.roxie[f] = stored.roxie[f]
  <2> SUFFICES ASSUME NEW f \in {"version", "imageRegistry", "konfluxImages", "featureFlags", "clusterType"}
               PROVE  a.roxie[f] = stored.roxie[f]
    OBVIOUS
  <2>1. base.roxie = stored.roxie
    BY <1>2, <1>names
  <2>2. f \in MapSettings => IsMap(base.roxie[f])
    BY <1>maps, <1>names, <2>1
  <2> QED BY <1>3, <1>names, <2>1, <2>2
<1>7. /\ p.roxie.version = stored.roxie.version /\ p.roxie.imageRegistry = stored.roxie.imageRegistry
      /\ p.roxie.konfluxImages = stored.roxie.konfluxImages /\ p.roxie.featureFlags = stored.roxie.featureFlags
      /\ p.roxie.clusterType = stored.roxie.clusterType
  <2>1. /\ a.roxie.version = stored.roxie.version /\ a.roxie.imageRegistry = stored.roxie.imageRegistry
        /\ a.roxie.konfluxImages = stored.roxie.konfluxImages /\ a.roxie.featureFlags = stored.roxie.featureFlags
        /\ a.roxie.clusterType = stored.roxie.clusterType
    BY <1>6, <1>names
  <2>2. FirstSet(stored.roxie.version, tag) = stored.roxie.version
        /\ FirstSet(stored.roxie.clusterType, Detected) = stored.roxie.clusterType
    BY DEF Complete, CompleteFor, FirstSet
  <2> QED BY <1>5, <2>1, <2>2, Zenon
<1>8. ASSUME NEW s \in OperatorSections, NEW f \in InstanceSettings,
             s = "operator" => f \notin {"version", "konfluxImages"}
      PROVE  p[s][f] = stored[s][f]
  <2>1. base[s][f] = stored[s][f]
    <3>1. CASE s = "operator"
      BY <1>2, <1>8, <3>1
    <3>2. CASE s # "operator"
      BY <1>2, <1>names, <3>2
    <3> QED BY <3>1, <3>2
  <2>2. f \in MapSettings => IsMap(base[s][f])
    BY <1>maps, <1>names, <2>1
  <2>3. a[s][f] = base[s][f]
    BY <1>3, <1>names, <2>2
  <2> QED BY <1>4, <2>1, <2>3
<1>9. /\ p.operator.version = UnlessSame(stored.operator.version, stored.roxie.version)
      /\ p.operator.konfluxImages = UnlessSame(stored.operator.konfluxImages, stored.roxie.konfluxImages)
  <2>1. a.operator.version = base.operator.version /\ a.operator.konfluxImages = base.operator.konfluxImages
    BY <1>3, <1>names
  <2> QED BY <1>2, <1>4, <1>names, <2>1
<1>10. SameForOperators(stored, p)
  <2>1. \A x, y : FirstSet(UnlessSame(x, y), y) = FirstSet(x, y)
    BY DEF FirstSet, UnlessSame
  <2>2. FirstSet(p.operator.version, p.roxie.version) = FirstSet(stored.operator.version, stored.roxie.version)
    BY <1>7, <1>9, <2>1, Zenon
  <2>3. FirstSet(p.operator.konfluxImages, p.roxie.konfluxImages)
          = FirstSet(stored.operator.konfluxImages, stored.roxie.konfluxImages)
    BY <1>7, <1>9, <2>1, Zenon
  <2>4. \A s \in {"centralOperator", "sensorOperator"} : \A f \in InstanceSettings : p[s][f] = stored[s][f]
    BY <1>8, <1>names
  <2>5. \A f \in {"operandTag", "operandTagOverrides", "envVars"} : p.operator[f] = stored.operator[f]
    BY <1>8, <1>names
  <2> QED BY <1>7, <2>2, <2>3, <2>4, <2>5 DEF SameForOperators
<1>11. /\ \A f \in {"namespace", "resourceProfile", "exposure", "portForwarding", "earlyReadiness"} :
            c.central[f] = stored.central[f]
       /\ \A f \in {"namespace", "resourceProfile", "earlyReadiness"} : c.securedCluster[f] = stored.securedCluster[f]
  <2>1. \A f \in {"namespace", "resourceProfile", "exposure", "portForwarding", "earlyReadiness"} :
          a.central[f] = stored.central[f]
    BY <1>2, <1>3, <1>names
  <2>2. c.central = a.central
    BY <1>1, <1>names DEF Merged, a
  <2>3. \A f \in {"namespace", "resourceProfile", "earlyReadiness"} : a.securedCluster[f] = stored.securedCluster[f]
    BY <1>2, <1>3, <1>names
  <2>4. \A f \in {"namespace", "resourceProfile", "earlyReadiness"} : c.securedCluster[f] = a.securedCluster[f]
    BY <1>1, <1>names DEF Merged, a
  <2> QED BY <2>1, <2>2, <2>3, <2>4
<1> DEFINE t == stored.roxie.clusterType
<1>12. FirstSet(c.roxie.clusterType, Detected) = t
  <2>1. c.roxie.clusterType = a.roxie.clusterType
    BY <1>1, <1>names DEF Merged, a
  <2>2. a.roxie.clusterType = t
    BY <1>6, <1>names
  <2>3. FirstSet(t, Detected) = t
    BY DEF Complete, CompleteFor
  <2> QED BY <2>1, <2>2, <2>3, Zenon
<1>13. /\ p.central.namespace = stored.central.namespace
       /\ p.securedCluster.namespace = stored.securedCluster.namespace
       /\ p.central.earlyReadiness = stored.central.earlyReadiness
       /\ p.securedCluster.earlyReadiness = stored.securedCluster.earlyReadiness
  <2>1. /\ p.central.namespace = c.central.namespace /\ p.central.earlyReadiness = c.central.earlyReadiness
        /\ p.securedCluster.namespace = c.securedCluster.namespace
        /\ p.securedCluster.earlyReadiness = c.securedCluster.earlyReadiness
    BY <1>1 DEF Completed
  <2> QED BY <1>11, <2>1
<1>14. /\ p.central.resourceProfile = stored.central.resourceProfile
       /\ p.securedCluster.resourceProfile = stored.securedCluster.resourceProfile
       /\ p.central.exposure = stored.central.exposure
  <2>1. /\ p.central.resourceProfile = ResolveAutoResourceProfile(c.central.resourceProfile, t)
        /\ p.securedCluster.resourceProfile = ResolveAutoResourceProfile(c.securedCluster.resourceProfile, t)
        /\ p.central.exposure = ExposureFor(t, c.central.exposure)
    BY <1>1, <1>12 DEF Completed
  <2>2. /\ c.central.resourceProfile = stored.central.resourceProfile
        /\ c.securedCluster.resourceProfile = stored.securedCluster.resourceProfile
        /\ c.central.exposure = stored.central.exposure
    BY <1>11
  <2>3. /\ ResolveAutoResourceProfile(stored.central.resourceProfile, t) = stored.central.resourceProfile
        /\ ResolveAutoResourceProfile(stored.securedCluster.resourceProfile, t) = stored.securedCluster.resourceProfile
        /\ ExposureFor(t, stored.central.exposure) = stored.central.exposure
    BY DEF Complete, CompleteFor
  <2> QED BY <2>1, <2>2, <2>3, Zenon
<1>15. p.central.portForwarding = stored.central.portForwarding
  <2>1. p.central.portForwarding = UnlessExposed(ForwardingFor(t, c.central.portForwarding), p.central.exposure, TRUE)
    BY <1>1, <1>12, Zenon DEF Completed, UnlessExposed
  <2>2. c.central.portForwarding = stored.central.portForwarding
    BY <1>11
  <2>3. ForwardingOf(t, stored.central.portForwarding, stored.central.exposure) = stored.central.portForwarding
    BY DEF Complete, CompleteFor
  <2>4. ForwardingOf(t, stored.central.portForwarding, stored.central.exposure)
          = UnlessExposed(ForwardingFor(t, stored.central.portForwarding), stored.central.exposure, TRUE)
    BY Zenon DEF ForwardingOf
  <2> QED BY <1>14, <2>1, <2>2, <2>3, <2>4, Zenon
<1>16. SameOtherwise(stored, p)
  BY <1>7, <1>13, <1>14, <1>15, Zenon DEF SameOtherwise
<1> QED BY <1>10, <1>16, SameResolution DEF p

\* A manifest is as complete as the deploy that writes it, and resolves to the same.
LEMMA ManifestResolves ==
    ASSUME IsConfig(job.config), Complete(job.config)
    PROVE  Complete(ManifestConfig) /\ Resolution(ManifestConfig) = Resolution(job.config)
<1> DEFINE c == job.config
           d == ManifestConfig
<1>1. /\ \A s \in OperatorSections \cup {"central", "securedCluster"} : d[s] = c[s]
      /\ \A f \in {"version", "imageRegistry", "konfluxImages", "featureFlags", "clusterType"} : d.roxie[f] = c.roxie[f]
  BY ManifestWritten, SettingNames DEF OperatorSections
<1> HIDE DEF c, d
<1>2. /\ d.operator = c.operator /\ d.centralOperator = c.centralOperator /\ d.sensorOperator = c.sensorOperator
      /\ d.central = c.central /\ d.securedCluster = c.securedCluster
      /\ d.roxie.version = c.roxie.version /\ d.roxie.imageRegistry = c.roxie.imageRegistry
      /\ d.roxie.konfluxImages = c.roxie.konfluxImages /\ d.roxie.featureFlags = c.roxie.featureFlags
      /\ d.roxie.clusterType = c.roxie.clusterType
  BY <1>1 DEF OperatorSections
<1>3. MapsOf(d) = MapsOf(c)
  BY <1>1, <1>2 DEF MapsOf
<1>4. Complete(d)
  <2>1. Complete(c)
    BY DEF c
  <2> QED BY <1>2, <1>3, <2>1, Zenon DEF Complete, CompleteFor
<1>5. SameForOperators(c, d) /\ SameOtherwise(c, d)
  <2>1. \A s \in {"centralOperator", "sensorOperator"} : \A f \in InstanceSettings : d[s][f] = c[s][f]
    BY <1>1 DEF OperatorSections
  <2>2. SameForOperators(c, d)
    BY <1>2, <2>1 DEF SameForOperators
  <2>3. SameOtherwise(c, d)
    BY <1>2, Zenon DEF SameOtherwise
  <2> QED BY <2>2, <2>3
<1> QED BY <1>4, <1>5, SameResolution DEF c, d

Reproducing == IsDeploy /\ job.stored # Unset /\ past.resolved # Unset
                        /\ job.line.args = Nothing /\ host.user = Nothing

\* The manifest of a deploy is complete and resolves to what that deploy resolved to; a deploy that is told
\* nothing resolves to the same.
Whole == /\ manifest # Unset /\ past.resolved # Unset => Complete(manifest) /\ past.resolved = Resolution(manifest)
         /\ IsDeploy => Complete(job.config) /\ job.stored \in {Unset, manifest}
         /\ Reproducing => Resolution(job.config) = past.resolved

LEMMA WholeKept ==
    ASSUME ~IsConfig(Unset), TagsAreGiven, Known, Whole, [Next]_vars
    PROVE  Whole'
<1>known. Shape /\ Jobs /\ Explained /\ host \in Hosts /\ DOMAIN past = PastFields
  BY DEF Known, Decided, Shape, Jobs
<1>host. host' = host /\ Detected' = Detected
  BY HostStays DEF Detected
<1>1. manifest' # Unset /\ past'.resolved # Unset
        => CompleteFor(manifest', Detected) /\ past'.resolved = Resolution(manifest')
  <2>1. CASE CreateManifestSecretOnCluster
    <3>1. IsDeploy
      BY <2>1 DEF CreateManifestSecretOnCluster, IsDeploy, DeployPhases
    <3>2. \/ manifest' = ManifestConfig /\ past' = [past EXCEPT !.resolved = Resolution(job.config)]
          \/ manifest' = manifest /\ past' = past
      BY <2>1 DEF CreateManifestSecretOnCluster
    <3>3. CASE manifest' = ManifestConfig /\ past' = [past EXCEPT !.resolved = Resolution(job.config)]
      <4>1. past'.resolved = Resolution(job.config)
        BY <1>known, <3>3 DEF PastFields
      <4>2. Complete(ManifestConfig) /\ Resolution(ManifestConfig) = Resolution(job.config)
        BY <1>known, <3>1, ManifestResolves DEF Whole, Explained
      <4>3. Complete(ManifestConfig) = CompleteFor(ManifestConfig, Detected)
        BY DEF Complete
      <4> QED BY <3>3, <4>1, <4>2, <4>3
    <3>4. CASE manifest' = manifest /\ past' = past
      BY <3>4 DEF Whole, Complete
    <3> QED BY <3>2, <3>3, <3>4
  <2>2. CASE DeleteManifestSecret
    <3>1. CASE manifest' = manifest /\ past' = past
      BY <3>1 DEF Whole, Complete
    <3>2. CASE manifest' = Unset
      BY <3>2
    <3> QED BY <2>2, <3>1, <3>2 DEF DeleteManifestSecret
  <2>3. CASE ~CreateManifestSecretOnCluster /\ ~DeleteManifestSecret
    <3>1. manifest' = manifest /\ past'.resolved = past.resolved
      BY <1>known, <2>3, ManifestKept
    <3> QED BY <3>1 DEF Whole, Complete
  <2> QED BY <2>1, <2>2, <2>3
<1>2. job'.pc \in DeployPhases
        => /\ CompleteFor(job'.config, Detected) /\ job'.stored \in {Unset, manifest'}
           /\ job'.stored # Unset /\ past'.resolved # Unset /\ job'.line.args = Nothing /\ host.user = Nothing
                => Resolution(job'.config) = past'.resolved
  <2> SUFFICES ASSUME job'.pc \in DeployPhases
               PROVE  /\ CompleteFor(job'.config, Detected) /\ job'.stored \in {Unset, manifest'}
                      /\ job'.stored # Unset /\ past'.resolved # Unset /\ job'.line.args = Nothing /\ host.user = Nothing
                            => Resolution(job'.config) = past'.resolved
    OBVIOUS
  <2>1. CASE \A line \in Lines : ~BeginDeploy(line)
    <3>1. Continues
      BY <1>known, <2>1, DeployContinues
    <3>2. /\ job'.line = job.line /\ job'.config = job.config /\ job'.stored = job.stored /\ manifest' = manifest
          /\ past'.resolved = past.resolved /\ IsDeploy
      BY <3>1 DEF Continues
    <3> QED BY <3>2 DEF Whole, Complete, Reproducing
  <2>2. ASSUME NEW line \in Lines, BeginDeploy(line)
        PROVE  /\ CompleteFor(job'.config, Detected) /\ job'.stored \in {Unset, manifest'}
               /\ job'.stored # Unset /\ past'.resolved # Unset /\ job'.line.args = Nothing /\ host.user = Nothing
                     => Resolution(job'.config) = past'.resolved
    <3>1. job' # Idle
      BY DEF Idle, DeployPhases
    <3>2. PICK source \in Sources : job'.config = PreparedConfig(line, job'.stored, LookupMainImageTag(source), names')
      BY <2>2, <3>1, DeployBegins
    <3>3. job'.stored \in {Unset, manifest} /\ manifest' = manifest /\ job'.line = line
      BY <2>2, <3>1, DeployBegins DEF LoadManifestSecret
    <3>4. past'.resolved = past.resolved
      BY <1>known, <2>2, <3>1, DeployBegins, Remembered
    <3>5. job'.stored # Unset => IsConfig(job'.stored)
      BY <1>known, <3>3 DEF Explained
    <3> DEFINE tag == LookupMainImageTag(source)
    <3>6. tag # Unset
      BY DEF TagsAreGiven
    <3> HIDE DEF tag
    <3>7. Complete(PreparedConfig(line, job'.stored, tag, names'))
      BY <3>5, <3>6, PreparedIsComplete
    <3>8. job'.config = PreparedConfig(line, job'.stored, tag, names')
      BY <3>2 DEF tag
    <3>9. CompleteFor(job'.config, Detected)
      BY <3>7, <3>8 DEF Complete
    <3>10. ASSUME job'.stored # Unset, past'.resolved # Unset, job'.line.args = Nothing, host.user = Nothing
           PROVE  Resolution(job'.config) = past'.resolved
      <4>1. /\ job'.stored = manifest /\ IsConfig(manifest) /\ Complete(manifest)
            /\ past'.resolved = Resolution(manifest) /\ line.args = Nothing
        BY <3>3, <3>4, <3>5, <3>10 DEF Whole
      <4>2. Resolution(PreparedConfig(line, manifest, tag, names')) = Resolution(manifest)
        BY <3>10, <4>1, ManifestReproduced
      <4> QED BY <3>8, <4>1, <4>2
    <3> QED BY <3>3, <3>9, <3>10
  <2> QED BY <2>1, <2>2
<1> QED BY <1>host, <1>1, <1>2 DEF Whole, IsDeploy, Complete, Reproducing

\* A deploy without settings of its own reproduces the last deploy whose manifest it reads (createManifestSecret,
\* assembleConfigForCommand, configureConfig), whatever its components and whatever was removed in between:
\* nothing is completed twice, and what is computed on the way does not get into the manifest.
THEOREM RedeployKeepsConfigCorrect ==
    ASSUME LegacyIsSound, LegacyWithoutVariables, TagsAreGiven
    PROVE  Spec => []RedeployKeepsConfig
<1>0. ~IsConfig(Unset)
  BY LegacyIsSound DEF LegacyIsSound
<1>1. Init => Whole
  BY DEF Init, Whole, Reproducing, IsDeploy, DeployPhases, Idle, NoPast
<1>2. Known /\ Whole /\ [Next]_vars => Whole'
  BY <1>0, TagsAreGiven, WholeKept
<1>3. Known /\ Whole => RedeployKeepsConfig
  <2> SUFFICES ASSUME Known, Whole, Deploying, job.stored # Unset, past.resolved # Unset,
                      job.line.args = Nothing, host.user = Nothing
               PROVE  Resolution(job.config) = past.resolved
    BY DEF RedeployKeepsConfig
  <2>1. IsDeploy
    BY DEF Deploying, Known, Jobs, IsDeploy, TeardownPhases
  <2> QED BY <2>1 DEF Whole, Reproducing
<1> QED BY <1>1, <1>2, <1>3, KnownAlways, LegacyIsSound, LegacyWithoutVariables, PTL DEF Spec

----------------------------------------------------------------------------
(* What a line says *)

\* Old manifests have no versions of their own for operators.
LegacyIsUnpinned == \A m \in Legacy : m # Unset => /\ m.operator.version \in {Unset, m.roxie.version}
                                                   /\ m.centralOperator.version = Unset
                                                   /\ m.sensorOperator.version = Unset

IsList(s) == \E S : s \in Seq(S)
Listed(spec) == "envVars" \in DOMAIN spec => IsList(spec.envVars)

\* The variables of custom resources are lists, and there are finitely many feature flags.
Finite(c) == /\ IsFiniteSet(DOMAIN c.roxie.featureFlags)
             /\ Listed(c.central.spec) /\ Listed(c.securedCluster.spec)
SettingsAreFinite == /\ \A line \in Lines : Finite(line.args)
                     /\ \A h \in Hosts : Finite(h.user)
                     /\ \A m \in Legacy : m # Unset => Finite(m)

\* A finite set has a list of its members without repetition.
LEMMA ListOfSet ==
    ASSUME NEW S, IsFiniteSet(S)
    PROVE  /\ SetToSeq(S) \in Seq(S)
           /\ \A x \in S : \E i \in 1 .. Len(SetToSeq(S)) : SetToSeq(S)[i] = x
           /\ \A i, j \in 1 .. Len(SetToSeq(S)) : SetToSeq(S)[i] = SetToSeq(S)[j] => i = j
<1> DEFINE n == Cardinality(S)
<1>1. n \in Nat /\ ExistsBijection(1 .. n, S)
  BY FS_CardinalityType
<1> HIDE DEF n
<1>2. PICK g \in Bijection(1 .. n, S) : TRUE
  BY <1>1 DEF ExistsBijection
<1>3. g \in [1 .. n -> S] /\ IsInjective(g)
  BY <1>2 DEF Bijection, Injection, IsInjective
<1>4. SetToSeq(S) = CHOOSE f \in [1 .. n -> S] : IsInjective(f)
  BY DEF SetToSeq, n
<1>5. SetToSeq(S) \in [1 .. n -> S] /\ IsInjective(SetToSeq(S))
  BY <1>3, <1>4
<1> DEFINE list == SetToSeq(S)
<1>6. list \in [1 .. n -> S] /\ IsInjective(list)
  BY <1>5
<1> HIDE DEF list
<1>7. list \in Seq(S) /\ Len(list) = n
  BY <1>1, <1>6
<1>8. \A i, j \in 1 .. n : list[i] = list[j] => i = j
  BY <1>6 DEF IsInjective
<1>9. list \in Surjection(1 .. n, S)
  <2>1. list \in Injection(1 .. n, S)
    BY <1>6, <1>8 DEF Injection, IsInjective
  <2>2. IsFiniteSet(1 .. n) /\ Cardinality(1 .. n) = n
    BY <1>1, FS_Interval
  <2> QED BY <2>1, <2>2, FS_Injection DEF n
<1>10. \A x \in S : \E i \in 1 .. n : list[i] = x
  BY <1>6, <1>9 DEF Surjection
<1> QED BY <1>7, <1>8, <1>10 DEF list

\* ... and so have the flags of a configuration.
LEMMA FlagsAreFinite ==
    ASSUME NEW flags, IsFiniteSet(DOMAIN flags)
    PROVE  IsFiniteSet({<<f, flags[f]>> : f \in DOMAIN flags})
<1> DEFINE S == {<<f, flags[f]>> : f \in DOMAIN flags}
           g == [f \in DOMAIN flags |-> <<f, flags[f]>>]
<1>1. g \in Surjection(DOMAIN flags, S)
  BY DEF Surjection
<1> QED BY <1>1, FS_Surjection

\* What the flags append to a list of variables, is a list.
LEMMA FlagsListed ==
    ASSUME NEW spec, Listed(spec), NEW flags, IsFiniteSet(DOMAIN flags)
    PROVE  Listed(WithFeatureFlags(spec, flags))
<1> DEFINE given == IF "envVars" \in DOMAIN spec THEN spec.envVars ELSE << >>
           S == {<<f, flags[f]>> : f \in DOMAIN flags}
           list == given \o SetToSeq(S)
<1>1. WithFeatureFlags(spec, flags) = IF flags = << >> THEN spec ELSE Over(Entry("envVars", list), spec)
  BY DEF WithFeatureFlags
<1>2. CASE flags = << >>
  BY <1>1, <1>2
<1>3. CASE flags # << >>
  <2>1. IsList(given)
    <3>1. << >> \in Seq({})
      OBVIOUS
    <3> QED BY <3>1 DEF Listed, IsList
  <2>2. SetToSeq(S) \in Seq(S)
    BY FlagsAreFinite, ListOfSet
  <2> HIDE DEF given, S
  <2>3. PICK T : given \in Seq(T)
    BY <2>1 DEF IsList
  <2>4. list \in Seq(T \cup S)
    BY <2>2, <2>3
  <2> HIDE DEF list
  <2>5. "envVars" \in DOMAIN Entry("envVars", list) /\ Entry("envVars", list).envVars = list
    BY DEF Entry
  <2>6. WithFeatureFlags(spec, flags).envVars = list
    BY <1>1, <1>3, <2>5, OverValues
  <2> QED BY <2>4, <2>6 DEF Listed, IsList
<1> QED BY <1>2, <1>3

\* The value that a flag is given is the one that counts.
LEMMA LastValueCounts ==
    ASSUME NEW spec, Listed(spec), NEW flags, IsFiniteSet(DOMAIN flags), NEW f \in DOMAIN flags
    PROVE  EffectiveValue(WithFeatureFlags(spec, flags), f) = flags[f]
<1> DEFINE given == IF "envVars" \in DOMAIN spec THEN spec.envVars ELSE << >>
           S == {<<g, flags[g]>> : g \in DOMAIN flags}
           added == SetToSeq(S)
           list == given \o added
<1>1. WithFeatureFlags(spec, flags).envVars = list
  <2>1. flags # << >>
    OBVIOUS
  <2>2. WithFeatureFlags(spec, flags) = Over(Entry("envVars", list), spec)
    BY <2>1 DEF WithFeatureFlags
  <2> HIDE DEF list
  <2>3. "envVars" \in DOMAIN Entry("envVars", list) /\ Entry("envVars", list).envVars = list
    BY DEF Entry
  <2> QED BY <2>2, <2>3, OverValues
<1>2. PICK T : given \in Seq(T)
  <2>1. << >> \in Seq({})
    OBVIOUS
  <2> QED BY <2>1 DEF Listed, IsList
<1>3. /\ added \in Seq(S)
      /\ \A x \in S : \E i \in 1 .. Len(added) : added[i] = x
      /\ \A i, j \in 1 .. Len(added) : added[i] = added[j] => i = j
  <2>1. IsFiniteSet(S)
    BY FlagsAreFinite
  <2> HIDE DEF S
  <2> QED BY <2>1, ListOfSet
<1>4. <<f, flags[f]>> \in S /\ \A x \in S : x[1] = f => x = <<f, flags[f]>>
  OBVIOUS
<1>5. PICK k \in 1 .. Len(added) : added[k] = <<f, flags[f]>>
  BY <1>3, <1>4
<1>6. \A i \in 1 .. Len(added) : added[i][1] = f => i = k
  <2> HIDE DEF S, added
  <2>1. \A i \in 1 .. Len(added) : added[i] \in S
    BY <1>3
  <2> QED BY <1>3, <1>4, <1>5, <2>1
<1> HIDE DEF given, added, S
<1> DEFINE n == Len(given)
           last == n + k
<1>7. /\ n \in Nat /\ Len(added) \in Nat /\ Len(list) = n + Len(added)
      /\ \A i \in 1 .. Len(added) : list[n + i] = added[i]
  BY <1>2, <1>3
<1> HIDE DEF list
<1>8. last \in 1 .. Len(list) /\ list[last][1] = f
  BY <1>5, <1>7
<1>9. \A i \in 1 .. Len(list) : list[i][1] = f => last >= i
  <2> SUFFICES ASSUME NEW i \in 1 .. Len(list), list[i][1] = f, i > last PROVE FALSE
    BY <1>7
  <2>1. i - n \in 1 .. Len(added) /\ i = n + (i - n)
    BY <1>7
  <2>2. list[i] = added[i - n]
    BY <1>7, <2>1
  <2>3. i - n = k
    BY <1>6, <2>1, <2>2
  <2> QED BY <1>7, <2>3
<1> DEFINE I == {i \in 1 .. Len(list) : list[i][1] = f}
<1>10. last \in I /\ \A i \in I : last >= i /\ i \in Int
  BY <1>7, <1>8, <1>9
<1>11. SelectLastInSeq(list, LAMBDA e : e[1] = f) = IF I # {} THEN Max(I) ELSE 0
  BY DEF SelectLastInSeq
<1> HIDE DEF I
<1>12. Max(I) = last
  <2>1. Max(I) = CHOOSE x \in I : \A y \in I : x >= y
    BY DEF Max
  <2> HIDE DEF last
  <2>2. Max(I) \in I /\ Max(I) >= last
    BY <1>10, <2>1
  <2> QED BY <1>10, <2>2
<1>13. EffectiveValue(WithFeatureFlags(spec, flags), f) = list[last][2]
  BY <1>1, <1>10, <1>11, <1>12 DEF EffectiveValue
<1> QED BY <1>5, <1>7, <1>13

\* A list of two merged specs is that of one of them.
LEMMA MergedListed ==
    ASSUME NEW f, Listed(f), NEW g, Listed(g)
    PROVE  Listed(Over(f, g))
<1> SUFFICES ASSUME "envVars" \in DOMAIN Over(f, g) PROVE IsList(Over(f, g).envVars)
  BY DEF Listed
<1>1. "envVars" \in DOMAIN f \/ "envVars" \in DOMAIN g
  BY OverDomain
<1> QED BY <1>1, OverValues DEF Listed

LEMMA EntryListed == ASSUME NEW k, k # "envVars", NEW v PROVE Listed(Entry(k, v))
BY DEF Listed, Entry

\* What a line says about versions and flags is found in a configuration.
Shows(spec, flags) == \A f \in DOMAIN flags : EffectiveValue(spec, f) = flags[f]
Follows(c, line) ==
    /\ line.args.roxie.version # Unset => c.roxie.version = line.args.roxie.version
    /\ "central" \in line.components => Shows(c.central.spec, line.args.roxie.featureFlags)
    /\ "sensor" \in line.components => Shows(c.securedCluster.spec, line.args.roxie.featureFlags)

LEMMA PreparedFollows ==
    ASSUME ~IsConfig(Unset), SettingsAreFinite, host \in Hosts, NEW line \in Lines, NEW stored,
           stored # Unset => IsConfig(stored) /\ Finite(stored), NEW tag, NEW name
    PROVE  LET p == PreparedConfig(line, stored, tag, name)
           IN  Finite(p) /\ Follows(p, line)
<1> DEFINE base == Base(stored, line.components)
           a == Patched(Patched(base, host.user), line.args)
           p == PreparedConfig(line, stored, tag, name)
           given == line.args.roxie.featureFlags
<1>1. PICK c : /\ Merged(base, host.user, line.args, tag, line.components, name, c)
               /\ Completed(c, line.components, DetectClusterType(host.kube), p)
  BY PreparedSettings
<1> HIDE DEF p
<1>2. IsConfig(base)
  BY BaseSettings, DefaultIsConfig DEF Base
<1>names. /\ "roxie" \in Sections /\ "central" \in Sections /\ "securedCluster" \in Sections
          /\ "version" \in SettingsOf("roxie") /\ "featureFlags" \in SettingsOf("roxie")
          /\ "spec" \in SettingsOf("central") /\ "spec" \in SettingsOf("securedCluster")
          /\ "featureFlags" \in MapSettings /\ "spec" \in MapSettings /\ "version" \notin MapSettings
  BY SettingNames DEF MapSettings
<1>3. Finite(base)
  <2>1. CASE stored = Unset
    <3>1. /\ DefaultConfig.roxie.featureFlags = << >> /\ DefaultConfig.central.spec = << >>
          /\ DefaultConfig.securedCluster.spec = << >>
      BY DEF DefaultConfig, Nothing
    <3>2. DOMAIN << >> = {} /\ IsFiniteSet({})
      BY FS_EmptySet
    <3> QED BY <2>1, <3>1, <3>2 DEF Base, Finite, Listed
  <2>2. CASE stored # Unset
    <3>1. base.roxie = stored.roxie /\ base.central = stored.central
      BY <2>2, <1>names, BaseSettings
    <3>2. base.securedCluster.spec = SpecKept(stored.securedCluster.spec, line.components)
      BY <2>2, BaseSettings
    <3>3. \A spec : Listed(spec) => Listed(SpecKept(spec, line.components))
      BY DEF Listed, SpecKept, OwnNames
    <3> HIDE DEF base
    <3> QED BY <2>2, <3>1, <3>2, <3>3 DEF Finite
  <2> QED BY <2>1, <2>2
<1> HIDE DEF base
<1>4. /\ a.roxie.featureFlags = Over(given, Over(host.user.roxie.featureFlags, base.roxie.featureFlags))
      /\ a.central.spec = Over(line.args.central.spec, Over(host.user.central.spec, base.central.spec))
      /\ a.securedCluster.spec
           = Over(line.args.securedCluster.spec, Over(host.user.securedCluster.spec, base.securedCluster.spec))
      /\ a.roxie.version = FirstSet(line.args.roxie.version, FirstSet(host.user.roxie.version, base.roxie.version))
  BY <1>2, <1>names, MergedSetting
<1>5. /\ c.roxie.featureFlags = a.roxie.featureFlags /\ c.roxie.version = FirstSet(a.roxie.version, tag)
      /\ c.central.spec = a.central.spec
      /\ c.securedCluster.spec = IF "sensor" \in line.components THEN Over(a.securedCluster.spec, Entry("clusterName", name))
                                 ELSE a.securedCluster.spec
  BY <1>1, <1>names DEF Merged
<1> HIDE DEF a
<1> DEFINE flags == c.roxie.featureFlags
<1>6. /\ IsFiniteSet(DOMAIN flags) /\ DOMAIN given \subseteq DOMAIN flags
      /\ \A f \in DOMAIN given : flags[f] = given[f]
  <2>1. /\ DOMAIN flags = DOMAIN given \cup (DOMAIN host.user.roxie.featureFlags \cup DOMAIN base.roxie.featureFlags)
        /\ \A f \in DOMAIN given : flags[f] = given[f]
    <3> DEFINE rest == Over(host.user.roxie.featureFlags, base.roxie.featureFlags)
    <3>1. flags = Over(given, rest)
      BY <1>4, <1>5 DEF flags
    <3>2. DOMAIN rest = DOMAIN host.user.roxie.featureFlags \cup DOMAIN base.roxie.featureFlags
      BY OverDomain
    <3> HIDE DEF rest, given
    <3>3. DOMAIN Over(given, rest) = DOMAIN given \cup DOMAIN rest
      BY OverDomain
    <3>4. \A f \in DOMAIN given : Over(given, rest)[f] = given[f]
      BY OverValues
    <3> QED BY <3>1, <3>2, <3>3, <3>4
  <2>2. /\ IsFiniteSet(DOMAIN given) /\ IsFiniteSet(DOMAIN host.user.roxie.featureFlags)
        /\ IsFiniteSet(DOMAIN base.roxie.featureFlags)
    BY <1>3 DEF SettingsAreFinite, Finite
  <2> HIDE DEF flags, given
  <2> QED BY <2>1, <2>2, FS_Union
<1> HIDE DEF flags
<1>7. Listed(c.central.spec) /\ Listed(c.securedCluster.spec)
  <2>1. /\ Listed(base.central.spec) /\ Listed(host.user.central.spec) /\ Listed(line.args.central.spec)
        /\ Listed(base.securedCluster.spec) /\ Listed(host.user.securedCluster.spec)
        /\ Listed(line.args.securedCluster.spec)
    BY <1>3 DEF SettingsAreFinite, Finite
  <2>2. Listed(a.central.spec) /\ Listed(a.securedCluster.spec)
    BY <1>4, <2>1, MergedListed
  <2> QED BY <1>5, <2>2, EntryListed, MergedListed
<1>8. /\ p.roxie.featureFlags = flags /\ p.roxie.version = c.roxie.version
      /\ p.central.spec = IF "central" \in line.components THEN WithFeatureFlags(c.central.spec, flags)
                          ELSE c.central.spec
      /\ p.securedCluster.spec = IF "sensor" \in line.components
                                 THEN Over(WithFeatureFlags(c.securedCluster.spec, flags),
                                           Entry("centralEndpoint", c.central.namespace))
                                 ELSE c.securedCluster.spec
  BY <1>1, <1>names DEF Completed, flags
<1>9. Listed(WithFeatureFlags(c.central.spec, flags)) /\ Listed(WithFeatureFlags(c.securedCluster.spec, flags))
  BY <1>6, <1>7, FlagsListed
<1>10. Finite(p)
  BY <1>6, <1>7, <1>8, <1>9, EntryListed, MergedListed DEF Finite
<1>11. /\ Shows(WithFeatureFlags(c.central.spec, flags), given)
       /\ Shows(WithFeatureFlags(c.securedCluster.spec, flags), given)
  BY <1>6, <1>7, LastValueCounts DEF Shows
<1>12. "sensor" \in line.components => Shows(p.securedCluster.spec, given)
  <2> SUFFICES ASSUME "sensor" \in line.components, NEW f \in DOMAIN given
               PROVE  EffectiveValue(p.securedCluster.spec, f) = given[f]
    BY DEF Shows
  <2> DEFINE spec == WithFeatureFlags(c.securedCluster.spec, flags)
  <2>1. EffectiveValue(spec, f) = given[f]
    BY <1>11 DEF Shows
  <2>2. "envVars" \in DOMAIN spec
    <3>1. flags # << >>
      BY <1>6
    <3> DEFINE before == IF "envVars" \in DOMAIN c.securedCluster.spec THEN c.securedCluster.spec.envVars ELSE << >>
               list == Entry("envVars", before \o SetToSeq({<<g, flags[g]>> : g \in DOMAIN flags}))
    <3>2. spec = Over(list, c.securedCluster.spec)
      BY <3>1 DEF WithFeatureFlags
    <3>3. DOMAIN list = {"envVars"}
      BY DEF Entry
    <3> HIDE DEF spec, list
    <3>4. DOMAIN Over(list, c.securedCluster.spec) = DOMAIN list \cup DOMAIN c.securedCluster.spec
      BY OverDomain
    <3> QED BY <3>2, <3>3, <3>4
  <2>3. p.securedCluster.spec.envVars = spec.envVars
    BY <1>8, <2>2, OverValues
  <2> HIDE DEF spec
  <2> QED BY <2>1, <2>3 DEF EffectiveValue
<1>13. line.args.roxie.version # Unset => p.roxie.version = line.args.roxie.version
  BY <1>4, <1>5, <1>8 DEF FirstSet
<1> QED BY <1>8, <1>10, <1>11, <1>12, <1>13 DEF Follows, p

\* No operator has a version of its own, apart from what older versions have baked in.
Free(c) == /\ c.operator.version \in {Unset, c.roxie.version}
           /\ c.centralOperator.version = Unset /\ c.sensorOperator.version = Unset

LEMMA PreparedIsFree ==
    ASSUME ~IsConfig(Unset), NEW line, NEW stored, stored # Unset => IsConfig(stored) /\ Free(stored), NEW tag, NEW name,
           \A g \in {line.args, host.user}, s \in OperatorSections : g[s].version = Unset
    PROVE  \A s \in OperatorSections : PreparedConfig(line, stored, tag, name)[s].version = Unset
<1> DEFINE base == Base(stored, line.components)
           p == PreparedConfig(line, stored, tag, name)
<1>1. PICK c : /\ Merged(base, host.user, line.args, tag, line.components, name, c)
               /\ Completed(c, line.components, DetectClusterType(host.kube), p)
  BY PreparedSettings
<1> HIDE DEF p
<1>2. IsConfig(base)
  BY BaseSettings, DefaultIsConfig DEF Base
<1>3. \A s \in OperatorSections : base[s].version = Unset
  <2>1. CASE stored = Unset
    <3>1. \A s \in OperatorSections : DefaultConfig[s].version = Unset
      <4>1. Nothing.operator = NoInstanceSettings /\ Nothing.centralOperator = NoInstanceSettings
            /\ Nothing.sensorOperator = NoInstanceSettings
        BY DEF Nothing
      <4>2. DOMAIN Nothing = Sections
        BY DefaultIsConfig DEF IsConfig
      <4>3. \A s \in OperatorSections : DefaultConfig[s] = Nothing[s]
        BY <4>2, SettingNames DEF DefaultConfig, OperatorSections
      <4>4. NoInstanceSettings.version = Unset
        BY DEF NoInstanceSettings
      <4> QED BY <4>1, <4>3, <4>4 DEF OperatorSections
    <3> QED BY <2>1, <3>1 DEF Base
  <2>2. CASE stored # Unset
    <3>1. base.operator.version = UnlessSame(stored.operator.version, stored.roxie.version)
      BY <2>2, BaseSettings
    <3>2. base.centralOperator = stored.centralOperator /\ base.sensorOperator = stored.sensorOperator
      BY <2>2, BaseSettings, SettingNames DEF OperatorSections
    <3> HIDE DEF base
    <3> QED BY <2>2, <3>1, <3>2 DEF Free, UnlessSame, OperatorSections
  <2> QED BY <2>1, <2>2
<1> HIDE DEF base
<1>4. ASSUME NEW s \in OperatorSections PROVE p[s].version = Unset
  <2>1. s \in Sections /\ "version" \in SettingsOf(s) /\ "version" \notin MapSettings /\ s \notin {"roxie", "securedCluster"}
    BY SettingNames DEF MapSettings, InstanceSettings, OperatorSections
  <2>2. Patched(Patched(base, host.user), line.args)[s].version
          = FirstSet(line.args[s].version, FirstSet(host.user[s].version, base[s].version))
    BY <1>2, <2>1, MergedSetting
  <2>3. p[s] = Patched(Patched(base, host.user), line.args)[s]
    BY <1>1, <2>1 DEF Merged, Completed
  <2>4. line.args[s].version = Unset /\ host.user[s].version = Unset
    OBVIOUS
  <2> QED BY <1>3, <2>2, <2>3, <2>4 DEF FirstSet
<1> QED BY <1>4 DEF p

\* A configuration follows its line; without versions given to operators there are none.
Followed == /\ manifest # Unset => Finite(manifest)
            /\ IsDeploy => Finite(job.config) /\ Follows(job.config, job.line)
Unpinned == past.pinned # TRUE =>
                /\ manifest # Unset => Free(manifest)
                /\ IsDeploy => \A s \in OperatorSections : job.config[s].version = Unset

\* What has been given is remembered as such.
LEMMA NotPinned ==
    ASSUME Shape, NEW line, Remember(line).pinned # TRUE
    PROVE  past.pinned # TRUE /\ \A g \in {line.args, host.user}, s \in OperatorSections : g[s].version = Unset
<1> DEFINE given == \E g \in {line.args, host.user}, s \in OperatorSections : g[s].version # Unset
<1>1. Remember(line).pinned = (past.pinned \/ given)
  BY Remembered
<1> HIDE DEF given
<1>2. past.pinned # TRUE /\ ~given
  BY <1>1, Zenon
<1> QED BY <1>2 DEF given

LEMMA FollowedKept ==
    ASSUME ~IsConfig(Unset), SettingsAreFinite, Known, Followed, Unpinned, [Next]_vars
    PROVE  Followed' /\ Unpinned'
<1>known. Shape /\ Jobs /\ Explained /\ host \in Hosts /\ DOMAIN past = PastFields
  BY DEF Known, Decided, Shape, Jobs
<1>1. /\ manifest' # Unset => Finite(manifest')
      /\ past'.pinned # TRUE /\ manifest' # Unset => Free(manifest')
  <2>1. CASE CreateManifestSecretOnCluster
    <3>1. /\ IsDeploy /\ past'.pinned = past.pinned /\ (manifest' = ManifestConfig \/ manifest' = manifest)
      BY <1>known, <2>1 DEF CreateManifestSecretOnCluster, IsDeploy, DeployPhases, PastFields
    <3>2. /\ ManifestConfig.central = job.config.central /\ ManifestConfig.securedCluster = job.config.securedCluster
          /\ ManifestConfig.roxie.featureFlags = job.config.roxie.featureFlags
          /\ \A s \in OperatorSections : ManifestConfig[s] = job.config[s]
      BY <1>known, <3>1, ManifestWritten, SettingNames DEF Explained, OperatorSections
    <3>3. Finite(ManifestConfig)
      BY <3>1, <3>2 DEF Followed, Finite
    <3>4. past'.pinned # TRUE => Free(ManifestConfig)
      BY <3>1, <3>2 DEF Unpinned, Free, OperatorSections
    <3> QED BY <3>1, <3>3, <3>4 DEF Followed, Unpinned
  <2>2. CASE DeleteManifestSecret
    BY <2>2 DEF DeleteManifestSecret, Followed, Unpinned
  <2>3. CASE ~CreateManifestSecretOnCluster /\ ~DeleteManifestSecret
    <3>1. manifest' = manifest
      BY <1>known, <2>3, ManifestKept
    <3>2. past'.pinned # TRUE => past.pinned # TRUE
      <4>1. CASE past'.pinned = past.pinned
        BY <4>1
      <4>2. CASE past'.pinned # past.pinned
        <5>1. PICK line \in Lines : BeginDeploy(line) /\ job' # Idle
          BY <1>known, <2>3, <4>2, ManifestKept
        <5> QED BY <1>known, <5>1, DeployBegins, NotPinned
      <4> QED BY <4>1, <4>2
    <3> QED BY <3>1, <3>2 DEF Followed, Unpinned
  <2> QED BY <2>1, <2>2, <2>3
<1>2. job'.pc \in DeployPhases => /\ Finite(job'.config) /\ Follows(job'.config, job'.line)
                                  /\ past'.pinned # TRUE => \A s \in OperatorSections : job'.config[s].version = Unset
  <2> SUFFICES ASSUME job'.pc \in DeployPhases
               PROVE  /\ Finite(job'.config) /\ Follows(job'.config, job'.line)
                      /\ past'.pinned # TRUE => \A s \in OperatorSections : job'.config[s].version = Unset
    OBVIOUS
  <2>1. CASE \A line \in Lines : ~BeginDeploy(line)
    <3>1. /\ job'.line = job.line /\ job'.config = job.config /\ past'.pinned = past.pinned /\ IsDeploy
      BY <1>known, <2>1, DeployContinues DEF Continues
    <3> QED BY <3>1 DEF Followed, Unpinned
  <2>2. ASSUME NEW line \in Lines, BeginDeploy(line)
        PROVE  /\ Finite(job'.config) /\ Follows(job'.config, job'.line)
               /\ past'.pinned # TRUE => \A s \in OperatorSections : job'.config[s].version = Unset
    <3>1. job' # Idle
      BY DEF Idle, DeployPhases
    <3>2. PICK source \in Sources : job'.config = PreparedConfig(line, job'.stored, LookupMainImageTag(source), names')
      BY <2>2, <3>1, DeployBegins
    <3>3. job'.stored \in {Unset, manifest} /\ job'.line = line /\ past' = Remember(line)
      BY <2>2, <3>1, DeployBegins DEF LoadManifestSecret
    <3>4. job'.stored # Unset => IsConfig(job'.stored) /\ Finite(job'.stored)
      BY <1>known, <3>3 DEF Explained, Followed
    <3>5. Finite(job'.config) /\ Follows(job'.config, line)
      BY <1>known, <3>2, <3>4, PreparedFollows
    <3>6. ASSUME past'.pinned # TRUE PROVE \A s \in OperatorSections : job'.config[s].version = Unset
      <4>1. past.pinned # TRUE /\ \A g \in {line.args, host.user}, s \in OperatorSections : g[s].version = Unset
        BY <1>known, <3>3, <3>6, NotPinned
      <4>2. job'.stored # Unset => IsConfig(job'.stored) /\ Free(job'.stored)
        BY <3>3, <3>4, <4>1 DEF Unpinned
      <4> QED BY <3>2, <4>1, <4>2, PreparedIsFree
    <3> QED BY <3>3, <3>5, <3>6
  <2> QED BY <2>1, <2>2
<1> QED BY <1>1, <1>2 DEF Followed, Unpinned, IsDeploy

\* A tag of the command line rules over the versions that earlier deploys have left, also over those that old
\* manifests have in the operator's section (dropBakedOperatorDefaults), unless some line has given an operator
\* a version of its own; a feature flag of the command line rules over its earlier values in the
\* custom resources (DeepMerge of featureFlagsToOverrides).
THEOREM LineTakesEffectCorrect ==
    ASSUME LegacyIsSound, LegacyWithoutVariables, LegacyIsUnpinned, SettingsAreFinite
    PROVE  Spec => []LineTakesEffect
<1>0. ~IsConfig(Unset)
  BY LegacyIsSound DEF LegacyIsSound
<1>1. Init => Followed /\ Unpinned
  <2> SUFFICES ASSUME Init PROVE Followed /\ Unpinned
    OBVIOUS
  <2>1. manifest \in Legacy /\ ~IsDeploy
    BY DEF Init, Idle, IsDeploy, DeployPhases
  <2> QED BY <2>1, SettingsAreFinite, LegacyIsUnpinned DEF SettingsAreFinite, LegacyIsUnpinned, Followed, Unpinned, Free
<1>2. Known /\ Followed /\ Unpinned /\ [Next]_vars => Followed' /\ Unpinned'
  BY <1>0, SettingsAreFinite, FollowedKept
<1>3. Known /\ Followed /\ Unpinned => LineTakesEffect
  <2> SUFFICES ASSUME Known, Followed, Unpinned, Deploying
               PROVE  /\ job.line.args.roxie.version # Unset /\ ~past.pinned
                           => {CentralVersion(job.config), SecuredClusterVersion(job.config)} = {job.line.args.roxie.version}
                      /\ "central" \in job.line.components
                           => \A f \in DOMAIN job.line.args.roxie.featureFlags :
                                EffectiveValue(job.config.central.spec, f) = job.line.args.roxie.featureFlags[f]
                      /\ "sensor" \in job.line.components
                           => \A f \in DOMAIN job.line.args.roxie.featureFlags :
                                EffectiveValue(job.config.securedCluster.spec, f) = job.line.args.roxie.featureFlags[f]
    BY DEF LineTakesEffect
  <2>1. IsDeploy
    BY DEF Deploying, Known, Jobs, IsDeploy, TeardownPhases
  <2>2. Follows(job.config, job.line)
    BY <2>1 DEF Followed
  <2>3. ASSUME job.line.args.roxie.version # Unset, ~past.pinned
        PROVE  {CentralVersion(job.config), SecuredClusterVersion(job.config)} = {job.line.args.roxie.version}
    <3>1. past.pinned # TRUE
      BY <2>3, Zenon
    <3>2. /\ job.config.operator.version = Unset /\ job.config.centralOperator.version = Unset
          /\ job.config.sensorOperator.version = Unset
      BY <2>1, <3>1 DEF Unpinned, OperatorSections
    <3>3. job.config.roxie.version = job.line.args.roxie.version
      BY <2>2, <2>3 DEF Follows
    <3> QED BY <3>2, <3>3 DEF CentralVersion, SecuredClusterVersion, FirstSet
  <2> QED BY <2>2, <2>3 DEF Follows, Shows
<1> QED BY <1>0, <1>1, <1>2, <1>3, KnownAlways, LegacyIsSound, LegacyWithoutVariables, PTL DEF Spec
====
