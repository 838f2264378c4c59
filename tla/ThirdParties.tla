----------------------------- MODULE ThirdParties -----------------------------
(***************************************************************************)
(* What the platform asks of third parties and tells them: the inventories *)
(* of providers and the syncs that read them, registries, hosts, and the   *)
(* forges that are told a verdict.  The parts share no variable; a         *)
(* behaviour is one of one part, and the others have nothing to do.        *)
(***************************************************************************)
EXTENDS Discovery, ConnectorTrials, ImageTrials, SurfaceTrials, GateTrials, Publication

NoTrial == Given([of |-> "nothing"])
NoDiscovery ==
    /\ rows = {}
    /\ inventory = [a \in Assets |-> NoAsset]
    /\ held = [i \in Integrations |-> <<>>]
    /\ sync = [p \in Processes |-> Idle]
    /\ post = NoPost
    /\ events = MaxEvents
NoPublication ==
    /\ target = Known /\ backlog = {} /\ told = <<>> /\ buried = FALSE
    /\ call = [p \in Callers |-> Resting]
    /\ calls = MaxCalls /\ changes = MaxChanges

SomeTrial == ConnectorInit \/ ImageInit \/ SurfaceInit \/ GateInit
TrialNext == RunDiscover \/ RunRef \/ RunImage \/ RunSurface \/ RunGates
TrialSpec(x) == Given(x) /\ [][TrialNext]_trialVars

ThirdPartiesInit ==
    \/ Init /\ NoTrial /\ NoPublication
    \/ SomeTrial /\ NoDiscovery /\ NoPublication
    \/ PublicationInit /\ NoDiscovery /\ NoTrial
ThirdPartiesNext ==
    \/ Next /\ UNCHANGED trialVars /\ UNCHANGED publicationVars
    \/ TrialNext /\ UNCHANGED vars /\ UNCHANGED publicationVars
    \/ PublicationNext /\ UNCHANGED vars /\ UNCHANGED trialVars
ThirdPartiesSpec ==
    ThirdPartiesInit /\ [][ThirdPartiesNext]_<<vars, trialVars, publicationVars>> /\ Fairness

\* The credentials of connectors and of registries.
SecretsStayHome == CredentialStaysHome /\ TokenStaysHome
=============================================================================
