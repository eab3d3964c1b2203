---- MODULE RegistryAccess ----
(* Where the main image's tag comes from when none is given, and where the credentials for a registry come
   from. No state: DeployCommands uses the answers.

   A credential is the set of registries it opens. A place that cannot give one (a half-set environment, a
   file that cannot be read, a helper that fails) gives Refused. *)
EXTENDS Configuration

CONSTANT Refused

----------------------------------------------------------------------------
(* helpers.LookupMainImageTag *)

AtMost == 5   \* how many of the newest releases are tried

\* releases: newest first, with what the registry answers to their main image
LookupLatestTag(releases) ==
    LET tried == SubSeq(releases, 1, IF Len(releases) < AtMost THEN Len(releases) ELSE AtMost)
        first == SelectInSeq(tried, LAMBDA r : r.answer # "not found")
    IN  IF first # 0 /\ tried[first].answer = "found" THEN tried[first].tag ELSE Refused

\* source: MAIN_IMAGE_TAG, a checkout of stackrox/stackrox with its tag, the releases on GitHub
LookupMainImageTag(source) ==
    IF source.environment # Unset THEN source.environment
    ELSE IF source.checkout = Unset THEN LookupLatestTag(source.releases)
    ELSE IF source.checkout.dirty THEN Refused
    ELSE source.checkout

----------------------------------------------------------------------------
(* dockerauth *)

\* a file of docker's: entries per host, helpers per host, and a helper for every host
CredentialsFromDockerConfig(file, host) ==
    IF file.state # "readable" THEN Refused
    ELSE IF host \in DOMAIN file.auths THEN file.auths[host]
    ELSE IF host \in DOMAIN file.credHelpers THEN file.credHelpers[host]
    ELSE file.credsStore

\* the first file that there is, also when it cannot be used
CredentialsFromFiles(files, host) ==
    LET found == SelectInSeq(files, LAMBDA f : f.state # "missing")
    IN  IF found = 0 THEN Refused ELSE CredentialsFromDockerConfig(files[found], host)

\* login: the two environment variables, what they open together, and the files in their order
GetAndVerifyCredentials(login, registry, host) ==
    LET found == CASE login.username /\ login.password -> login.opens
                   [] login.username # login.password  -> Refused
                   [] OTHER                            -> CredentialsFromFiles(login.files, host)
    IN  IF found # Refused /\ registry \in found THEN found ELSE Refused

----------------------------------------------------------------------------
(* Pull secrets *)

\* the cluster has credentials of its own only for the default registry, and only on some types
NeedsPullSecrets(c, requiresAuth) ==
    requiresAuth /\ (UsesCustomRegistry(c) \/ NeedsDefaultRegistryPullSecrets(c.roxie.clusterType))

MainRepository(c) == <<c.roxie.imageRegistry, "main">>
OperatorRepository(instance) ==
    <<instance.registry, IF instance.konflux THEN "release-operator" ELSE "operator">>
====
