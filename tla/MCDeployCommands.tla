---- MODULE MCDeployCommands ----
EXTENDS DeployCommands, TLC

Tag(r) == [release |-> r, dirty |-> FALSE]
Dirty(r) == [release |-> r, dirty |-> TRUE]
Outside == [shell |-> FALSE, terminal |-> TRUE, container |-> FALSE]
Subshell == [Outside EXCEPT !.shell = TRUE]
Container == [Outside EXCEPT !.container = TRUE]

Both == {"central", "sensor"}
All == {"central", "sensor", "operator"}
Deploy(components, args) ==
    [verb |-> "deploy", components |-> components, args |-> args, place |-> Outside]
TearDown(components) == [verb |-> "teardown", components |-> components, args |-> Nothing, place |-> Outside]

Image(n, tag) == [registry |-> "default", konflux |-> FALSE, name |-> n, tag |-> tag]
SingleNamespace == [Nothing EXCEPT !.central.namespace = "stackrox", !.securedCluster.namespace = "stackrox"]
Tagged(r) == [Nothing EXCEPT !.roxie.version = Tag(r)]
Flag(b) == [Nothing EXCEPT !.roxie.featureFlags = [f \in {"ROX_FLAG"} |-> b]]

MCLines ==
    {Deploy(All, Nothing), Deploy({}, Nothing), Deploy(Both, SingleNamespace), Deploy({"central"}, Tagged(2)),
     [Deploy({"sensor"}, Nothing) EXCEPT !.place = Subshell],
     [Deploy({"sensor"}, Flag(FALSE)) EXCEPT !.place = Subshell],
     Deploy(Both, [Flag(TRUE) EXCEPT !.operator.operandTag = Dirty(2),
                                     !.operator.envVars = [v \in {"collector"} |-> Image("collector", Tag(9))]]),
     Deploy(Both, [Tagged(1) EXCEPT !.operator.operandTag = Tag(1),
                                    !.operator.operandTagOverrides = [i \in {"main"} |-> Dirty(2)]]),
     Deploy(Both, [Nothing EXCEPT !.roxie.version = Dirty(2), !.sensorOperator.version = Tag(1)]),
     Deploy({"operator"}, [Nothing EXCEPT !.roxie.konfluxImages = TRUE]),
     Deploy({"central"}, [Nothing EXCEPT !.roxie.imageRegistry = "mine"]),
     Deploy({"central"}, [Nothing EXCEPT !.mode.deployViaOlm = TRUE, !.central.earlyReadiness = FALSE]),
     [Deploy({"central"}, [Nothing EXCEPT !.central.resourceProfile = "auto"]) EXCEPT !.place = Container],
     TearDown({"central"}), TearDown({"sensor"}), TearDown(All)}

NoFile == [state |-> "missing"]
File(auths, credHelpers, credsStore) ==
    [state |-> "readable", auths |-> auths, credHelpers |-> credHelpers, credsStore |-> credsStore]
FileLogin(files) == [username |-> FALSE, password |-> FALSE, opens |-> {}, files |-> files]
EnvironmentLogin(opens) == [username |-> TRUE, password |-> TRUE, opens |-> opens, files |-> << >>]

MCHosts ==
    LET hostOf == [r \in {"default", "mine"} |-> IF r = "default" THEN "quay.io" ELSE "ghcr.io"]
        Host(context, server, openShift, login, private, user) ==
            [kube |-> [context |-> context, server |-> server, openShift |-> openShift], login |-> login, private |-> private, user |-> user, hostOf |-> hostOf,
             preloadCommand |-> FALSE,
             images |-> {Image("main", Dirty(2)), Image("main", Tag(1)), Image("collector", Tag(1))}]
        everything == {"default", "mine"} \X {"main", "operator", "release-operator"}
    IN  {Host({"kind"}, "other", FALSE, EnvironmentLogin({"default", "mine"}), everything, Nothing),
         Host({"gke_"}, "other", FALSE, FileLogin(<<NoFile, File([h \in {"quay.io"} |-> {"default"}],
                                              [h \in {"ghcr.io"} |-> {"mine"}], {"default"})>>),
              everything, [Nothing EXCEPT !.securedCluster.resourceProfile = "small"]),
         Host({"other"}, "ocp.infra.rox.systems", TRUE, FileLogin(<< >>),
              {<<"default", "main">>, <<"default", "operator">>}, Nothing),
         Host({"other"}, "other", FALSE, EnvironmentLogin({}), {}, Nothing)}

MCSources ==
    {[environment |-> Tag(1), checkout |-> Unset, releases |-> << >>],
     [environment |-> Unset, checkout |-> Unset,
      releases |-> <<[tag |-> Tag(3), answer |-> "not found"], [tag |-> Tag(2), answer |-> "found"]>>]}

\* an older roxie wrote the operator's version, too
MCLegacy ==
    {Unset, [DefaultConfig EXCEPT !.roxie.version = Tag(1), !.operator.version = Tag(1),
                                  !.roxie.konfluxImages = FALSE, !.operator.konfluxImages = FALSE,
                                  !.central.exposure = "none", !.central.portForwarding = TRUE]}
====
