-------------------------------- MODULE NodeOps --------------------------------
(***************************************************************************)
(* The operations of the Go packages that work on a tenant node: services,  *)
(* install, deploy, agentcli, metaldb, networks, sessions, cicd, connector,  *)
(* cloud, marketplace, observability, agents, workspace, billing,            *)
(* webscraper, vxcomputer, vxchrono, workflow and chat.  Restart, which is   *)
(* two operations, is in Operations; the two chat streams are in            *)
(* ChatStream as well.                                                     *)
(***************************************************************************)
EXTENDS OperationTypes

\* An operation over SSH names the vault path of the key: SSH.Host, SSH.User
\* and SSH.KeyPairName are required, the username is WorkspaceUser or the one
\* of the handle, and the organization defaults to the username.
OverSSH(S) ==
  NamesUser(Needing({"SSH.Host", "SSH.User", "SSH.KeyPairName"}, S))

-----------------------------------------------------------------------------
(* services/services.go                                                    *)

ContainerOps ==
  Under(<<"container">>, OverSSH(SoftFailing({
    Row("services", "Start", "POST", <<"start">>, {"containerName"}, "up"),
    Row("services", "Stop", "POST", <<"stop">>, {"containerName"}, "down"),
    Row("services", "Remove", "POST", <<"remove">>, {"containerName"}, "drop")})))

ContainerQueries == Under(<<"services", "action">>,
  By("multipart", OverSSH(SoftFailing({
    Row("services", "List", "POST", <<"list_docker_containers">>, {}, "read"),
    Row("services", "Logs", "POST", <<"tail_logs">>, {"unit"}, "read")}))))
  \cup OverSSH(SoftFailing({
    Row("services", "Status", "POST", <<"docker", "container", "status">>,
        {}, "read")}))

\* Every action of a virtual machine is a form posted to one address, which
\* names the action; each is retried like any other request.
VMOps == Under(<<"services", "action">>,
  By("multipart", OverSSH(SoftFailing({
    Row("services.VM", "Reboot", "POST", <<"reboot">>, {}, "act"),
    Row("services.VM", "Shutdown", "POST", <<"shutdown">>, {}, "down"),
    Row("services.VM", "DiskCleanup", "POST", <<"disk_cleanup">>, {}, "act"),
    Row("services.VM", "DockerCleanup", "POST", <<"docker_cleanup">>, {}, "act"),
    Row("services.VM", "RestartDocker", "POST", <<"restart_docker">>, {}, "act"),
    Row("services.VM", "Memory", "POST", <<"check_memory">>, {}, "read"),
    Row("services.VM", "Disk", "POST", <<"check_disk_detailed">>, {}, "read"),
    Row("services.VM", "ListServices", "POST", <<"list_running_services">>, {}, "read"),
    Row("services.VM", "ListContainers", "POST", <<"list_docker_containers">>, {}, "read"),
    Row("services.VM", "KillPort", "POST", <<"kill_port">>, {"port"}, "act"),
    Row("services.VM", "StopService", "POST", <<"stop_service">>, {"unit"}, "act")}))))

-----------------------------------------------------------------------------
(* install, deploy, agentcli, metaldb, networks                            *)

InstallOps == By("multipart", OverSSH({
  Row("install", "Script", "POST", <<"install", "script">>, {"Script"}, "act"),
  Row("install", "Compose", "POST", <<"provision", "docker-compose", "custom">>,
      {"StackName", "Compose"}, "make")}))

DeployContainer == By("multipart", OverSSH({
  Row("deploy", "Container", "POST", <<"container", "deploy">>, {"Image"}, "make")}))

\* stackTargets: the address of each kind of stack.
StackTargets == {"reactjs", "nextjs", "nodejs", "fastapi", "python", "django",
                 "golang", "rust", "cpp", "php", "staticwebsite"}

\* A kind that has no target is refused.
DeployStack == Under(<<"infrastructure", "services">>, By("multipart", OverSSH(
  {Row("deploy.Stack", t, "POST", <<t, "deploy">>, {"known kind", "RepoURL"},
       "make") : t \in StackTargets})))

\* The agent is a segment of the address and is not checked.  Health carries an
\* action, which may be to restart the agent.
AgentCLIOps == Under(<<"infrastructure", "services">>, By("multipart", OverSSH({
  Row("agentcli", "Install", "POST", <<":id", "install">>, {}, "act"),
  Row("agentcli", "Configure", "POST", <<":id", "configure">>, {}, "set"),
  Row("agentcli", "Health", "POST", <<":id", "health">>, {}, "act"),
  Row("agentcli", "TestConnection", "POST", <<":id", "test-connection">>, {}, "read")})))

MetalDBOps == OverSSH({
  Row("metaldb", "Provision", "POST", <<"provision", "metaldb">>, {}, "make")})
  \cup By("multipart", OverSSH({
  Row("metaldb", "TestConnection", "POST", <<"provision", "metaldb", "test-connection">>, {}, "read")}))

NetworkOps == {Row("networks", "List", "GET", <<"networks", "scripts">>, {}, "read")}
  \cup By("multipart", OverSSH({
  Row("networks", "RunRemote", "POST", <<"install", "script">>, {"Script"}, "act")}))

-----------------------------------------------------------------------------
(* sessions, cicd                                                          *)

SessionOps == Under(<<"sessions">>, Guarded({
  Row("sessions", "List", "GET", <<"list">>, {}, "read"),
  Row("sessions", "Show", "GET", <<":id">>, {}, "read"),
  Row("sessions", "Apply", "POST", <<"apply">>, {"SessionID"}, "up"),
  Row("sessions", "Pull", "POST", <<"pull">>, {"SessionID"}, "read"),
  Row("sessions", "Delete", "POST", <<"delete">>, {"SessionID"}, "drop")}))

\* The ids are escaped but never checked.
PipelineQueries == Under(<<"cicd">>, {
  Row("cicd.Pipelines", "List", "GET", <<"pipelines">>, {}, "read"),
  Row("cicd.Pipelines", "Show", "GET", <<"pipelines", ":id">>, {}, "read")})

PipelineOps == Under(<<"cicd">>, {
  Row("cicd.Pipelines", "Create", "POST", <<"pipelines">>, {}, "make"),
  Row("cicd.Pipelines", "Trigger", "POST", <<"pipelines", ":id", "trigger">>, {}, "act"),
  Row("cicd.Builds", "Show", "GET", <<"builds", ":id">>, {}, "read")})

-----------------------------------------------------------------------------
(* connector, cloud, marketplace                                           *)

\* req.Username or the one of the handle; no argument is checked.
ConnectorOps == Under(<<"connector">>, NamesUser({
  Row("connector", "ProvisionVM", "POST", <<"vm", "provision">>, {}, "make"),
  Row("connector", "DeployToVM", "POST", <<"vm", "studio", "deploy">>, {}, "set"),
  Row("connector", "TerminateVM", "POST", <<"vm", "terminate">>, {}, "drop"),
  Row("connector", "CreateBucket", "POST", <<"s3", "bucket">>, {}, "make"),
  Row("connector", "DeployStaticSite", "POST", <<"s3", "studio", "deploy">>, {}, "set"),
  Row("connector", "DeployCloudRun", "POST", <<"gcr", "studio", "deploy">>, {}, "set"),
  Row("connector", "CreateSubdomain", "POST", <<"dns", "subdomain">>, {}, "make"),
  Row("connector", "AttachLoadBalancer", "POST", <<"lb", "attach">>, {}, "make")}))

\* commonProvision: one body for every resource, which names its type.
Provision(group, name, path, type) ==
  Row(group, name, "POST", <<"provision", path, type>>, {}, "make")

CloudStorage == NamesUser({
  Provision("cloud.S3", "CreateBucket", "storage", "s3"),
  Provision("cloud.IAM", "CreatePolicy", "security", "policy"),
  Provision("cloud.IAM", "CreateRole", "security", "role"),
  Provision("cloud.IAM", "CreateKeypair", "security", "keypair"),
  Provision("cloud.VM", "Create", "vm", "vm")})

\* Only start, stop, restart and reboot are actions; each is a row.
CloudVM == {
  Row("cloud.VM", "Status", "POST", <<"provision", "vm", "status">>,
      {"InstanceID"}, "read")}
  \cup {Row("cloud.VM", a[1], "POST", <<"provision", "vm", "action", a[1]>>,
            {"InstanceID", "known action"}, a[2]) :
        a \in {<<"start", "up">>, <<"stop", "down">>, <<"restart", "act">>,
               <<"reboot", "act">>}}

CloudNetworks == NamesUser({
  Provision("cloud.Network", "CreateVPC", "networks", "vpc"),
  Provision("cloud.Database", "CreateRDS", "databases", "rds"),
  Provision("cloud.Database", "CreateAurora", "databases", "aurora"),
  Provision("cloud.Database", "CreateRedis", "databases", "redis")})

CloudCompute == NamesUser({
  Provision("cloud.Kubernetes", "CreateCluster", "kubernetes", "eks"),
  Provision("cloud.Serverless", "CreateFunction", "serverless", "lambda")})

\* The ids are escaped but never checked; a deployment carries its id in the body.
MarketplaceAgents == Under(<<"marketplace">>, {
  Row("marketplace.Agents", "List", "GET", <<"agents">>, {}, "read"),
  Row("marketplace.Agents", "Show", "GET", <<"agents", ":id">>, {}, "read")}
  \cup NamesUser({
  Row("marketplace.Agents", "Deploy", "POST", <<"agents", "deploy">>, {}, "make")}))

MarketplaceModels == Under(<<"marketplace">>, {
  Row("marketplace.Models", "List", "GET", <<"models">>, {}, "read"),
  Row("marketplace.Models", "Show", "GET", <<"models", ":id">>, {}, "read"),
  Row("marketplace.Solutions", "List", "GET", <<"templates">>, {}, "read"),
  Row("marketplace.Solutions", "Show", "GET", <<"templates", ":id">>, {}, "read")}
  \cup NamesUser({
  Row("marketplace.Models", "Deploy", "POST", <<"models", "deploy">>, {}, "make"),
  Row("marketplace.Solutions", "Provision", "POST", <<"provision">>, {}, "make")}))

-----------------------------------------------------------------------------
(* observability, agents, billing, webscraper, vxcomputer                  *)

BackupOps == Under(<<"backup">>, {
  Row("backups", "Create", "POST", <<"create">>,
      {"ResourceID", "ResourceType"}, "make"),
  Row("backups", "List", "GET", <<"list">>, {}, "read"),
  Row("backups", "Restore", "POST", <<"restore">>, {"BackupID"}, "act")})

MigrationOps == {
  Row("migrations", "Plan", "POST", <<"migrations", "plan">>,
      {"SourceProvider", "TargetProvider", "Resources"}, "make"),
  Row("migrations", "Execute", "POST", <<"migrations", "execute">>,
      {"SessionID"}, "act"),
  Row("sync", "Batch", "POST", <<"resources", "synchronize", "batch">>, {}, "set")}

\* Coding, Devops, Git and Parallel are Run with their kind.
AgentRuns == {
  Row("agents", kind, "POST", <<"agents", "run", kind>>, {"Task"}, "act") :
    kind \in {"Run", "Coding", "Devops", "Git", "Parallel"}}

AgentToolOps == Under(<<"agents">>, {
  Row("agents", "Presets", "GET", <<"presets">>, {}, "read"),
  Row("agents", "Tools", "GET", <<"tools">>, {}, "read"),
  Row("agents", "Tool", "POST", <<"tool">>, {"name"}, "act")})

CloudBillingOps == Under(<<"billing">>, {
  Row("billing", "Multicloud", "POST", <<"multicloud">>,
      {"StartDate", "EndDate"}, "read"),
  Row("billing", "Optimization", "POST", <<"optimization">>, {}, "read")})

ScraperOps == Under(<<"webscraper">>, {
  Row("webscraper", "Scrape", "POST", <<"scrape">>, {"URL or URLs"}, "read"),
  Row("webscraper", "Search", "POST", <<"search">>, {"query"}, "read"),
  Row("webscraper", "DeepResearch", "POST", <<"deep-research">>, {"query"}, "read")})

\* An approval is signed with the username of the handle when no approver is given.
ComputerOps == Under(<<"vxcomputer">>, {
  Row("vxcomputer", "Info", "GET", <<"info">>, {}, "read"),
  Row("vxcomputer", "Health", "GET", <<"health">>, {}, "read"),
  Row("vxcomputer", "Classify", "GET", <<"policy", "classify">>, {"command"}, "read"),
  Row("vxcomputer", "Run", "POST", <<"run">>, {"Objective"}, "act"),
  Row("vxcomputer", "AuditVerify", "GET", <<"audit", "verify">>, {}, "read")}
  \cup NamesUser({
  Row("vxcomputer", "ResolveApproval", "POST", <<"approval", "resolve">>,
      {"RunID", "Command"}, "act")}))

-----------------------------------------------------------------------------
(* vxchrono, workflow, chat                                                *)

GoalOps == Under(<<"vxchrono">>, Guarded({
  Row("vxchrono", "Init", "POST", <<"init">>, {}, "set"),
  Row("vxchrono", "CreateGoal", "POST", <<"goals">>, {}, "make"),
  Row("vxchrono", "ListGoals", "GET", <<"goals">>, {}, "read"),
  Row("vxchrono", "GetGoal", "GET", <<"goals", ":id">>, {}, "read"),
  Row("vxchrono", "UpdateGoal", "PATCH", <<"goals", ":id">>, {}, "set"),
  Row("vxchrono", "DeleteGoal", "DELETE", <<"goals", ":id">>, {}, "drop"),
  Row("vxchrono", "Schedule", "POST", <<"goals", ":id", "schedule">>, {}, "set"),
  Row("vxchrono", "LaunchRun", "POST", <<"goals", ":id", "run">>, {}, "act")}))

RunOps == Under(<<"vxchrono">>, Guarded({
  Row("vxchrono.run", "GetRun", "GET", <<"runs", ":id">>, {}, "read"),
  Row("vxchrono.run", "PauseRun", "POST", <<"runs", ":id", "pause">>, {}, "down"),
  Row("vxchrono.run", "ResumeRun", "POST", <<"runs", ":id", "resume">>, {}, "up"),
  Row("vxchrono.run", "StopRun", "POST", <<"runs", ":id", "stop">>, {}, "drop"),
  Row("vxchrono", "DispatchScheduler", "POST", <<"scheduler", "dispatch">>, {}, "act")}))

NodeWorkflowOps == Under(<<"workflow">>, Guarded({
  Row("workflow", "List", "GET", <<"workflows">>, {}, "read"),
  Row("workflow", "Get", "GET", <<"workflows", ":id">>, {}, "read"),
  Row("workflow", "Create", "POST", <<"workflows">>, {}, "make"),
  Row("workflow", "Delete", "DELETE", <<"workflows", ":id">>, {}, "drop"),
  Row("workflow", "Save", "POST", <<"save">>, {}, "set"),
  Row("workflow", "Publish", "POST", <<"publish">>, {}, "set"),
  Row("workflow", "Validate", "POST", <<"validate">>, {}, "read"),
  Row("workflow", "Execute", "POST", <<"execute">>, {}, "act"),
  Row("workflow", "TestNode", "POST", <<"test-node">>, {}, "act"),
  Row("workflow", "ListExecutions", "GET", <<"executions">>, {}, "read"),
  Row("workflow", "GetExecution", "GET", <<"executions", ":id">>, {}, "read"),
  Row("workflow", "CancelExecution", "POST", <<"executions", ":id", "cancel">>, {}, "down"),
  Row("workflow", "DeleteExecution", "DELETE", <<"executions", ":id">>, {}, "drop"),
  Row("workflow", "Export", "POST", <<"export">>, {"json or yaml"}, "read"),
  Row("workflow", "Health", "GET", <<"health">>, {}, "read")}))

ChatOps == {
  Row("chat", "Send", "POST", <<"chat", "send">>, {"Messages or SystemPrompt"}, "act"),
  Row("chat", "Quick", "POST", <<"chat", "send">>, {}, "act"),
  Row("chat", "ListConversations", "GET", <<"ai", "agent", "conversations">>, {}, "read"),
  Row("chat", "History", "GET", <<"ai", "agent", "history">>, {"sessionID"}, "read")}

ConversationOps == Under(<<"ai", "agent", "conversation">>, {
  Row("chat", "SaveMessage", "POST", <<"save">>,
      {"sessionID", "content", "human or ai"}, "make"),
  Row("chat", "RenameConversation", "POST", <<"rename">>, {"sessionID", "title"}, "set"),
  Row("chat", "DeleteConversation", "POST", <<"delete">>, {"sessionID"}, "drop")})

\* StreamWorkflow plans, and with confirmRun, which takes the phrase that
\* confirms it, runs the workflow.  A failure comes as an event of the stream.
ChatStreams == By("stream", SoftFailing({
  Row("chat", "StreamAgent", "POST", <<"ai", "agent", "chat">>, {"Query"}, "act"),
  Row("chat", "StreamWorkflow", "POST", <<"workflow", "agent", "chat">>,
      {"Query"}, "act"),
  Row("chat", "StreamWorkflow", "POST", <<"workflow", "agent", "chat">>,
      {"Query", "run-it phrase"}, "act")}))
  \cup {
  Row("chat", "MissionCommand", "POST", <<"vxchrono", "chat", "command">>,
      {"command"}, "act")}

-----------------------------------------------------------------------------
(* workspace/workspace.go                                                  *)

\* withIdentity: every body but that of DeleteWorkspace gets a username.
Setup(S) == Under(<<"setup">>, NamesUser(S))
Vault(S) == Under(<<"vault">>, NamesUser(S))

Store(name, path, needs) == Row("workspace", name, "POST", <<path>>, needs, "set")
Query(name, path, needs) == Row("workspace", name, "POST", <<path>>, needs, "read")
Forget(name, path, needs) == Row("workspace", name, "POST", <<path>>, needs, "drop")

WorkspaceSetup == Setup({
  Row("workspace", "CreateWorkspace", "POST", <<"workspace">>, {"WorkspaceName"}, "make"),
  Row("workspace", "CreateOrganization", "POST", <<"organization">>, {"OrgName"}, "make"),
  Store("StoreAWSCredentials", "aws-credentials", {}),
  Store("StoreAzureCredentials", "azure-credentials", {}),
  Store("StoreGCPCredentials", "gcp-credentials", {}),
  Query("GetAllCredentials", "get-all-credentials", {})})
  \cup {
  Row("workspace", "DeleteWorkspace", "DELETE", <<"setup", "workspace">>, {}, "drop")}

WorkspaceTokens == Setup({
  Row("workspace", "CreateAPIToken", "POST", <<"api-token">>, {"TokenName"}, "make"),
  Query("GetAPIToken", "get-api-token", {"name"}),
  Store("StoreAICredentials", "ai-credentials", {"provider", "known provider"})})

WorkspaceProviders == Setup({
  Query("GetAllAICredentials", "ai-get-all-credentials", {}),
  Store("StoreGitCredentials", "git-credentials", {}),
  Store("StoreGitlabCredentials", "gitlab-credentials", {}),
  Store("StoreKubeconfigCredentials", "kubeconfig-credentials", {}),
  Store("StoreOAuthCredentials", "oauth-credentials", {}),
  Store("StoreOktaCredentials", "okta-credentials", {}),
  Store("StoreCyberarkCredentials", "cyberark-credentials", {}),
  Store("StoreExternalVaultCredentials", "external-vault-credentials", {}),
  Query("GetVaultCredentials", "get-vault-credentials", {}),
  Store("StorePaymentCredentials", "payment-credentials", {}),
  Query("GetAllPaymentCredentials", "payment-get-all-credentials", {}),
  Store("StoreSMTPCredentials", "smtp-provider-credentials", {}),
  Query("GetAllSMTPCredentials", "smtp-get-all-credentials", {}),
  Store("StoreMessagingBotCredentials", "messaging-bot-credentials", {}),
  Query("GetAllMessagingCredentials", "messaging-get-all-credentials", {}),
  Store("StoreSSLCertificateCredentials", "ssl-certificate-credentials", {}),
  Forget("DeleteCredential", "delete-credential", {"name"})})

WorkspaceDocker == Setup({
  Store("StoreDockerCredentials", "docker-credentials", {"DockerRegistryName"}),
  Store("StoreDockerRegistry", "docker-registry",
        {"RegistryName", "RegistryType", "RegistryURL"})})
  \cup Vault({
  Query("GetAllDockerCredentials", "get-docker-credentials", {}),
  Query("GetDockerCredentialsByRegistry", "get-single-docker-credentials", {"registrySlug"}),
  Query("GetAllDockerRegistries", "get-docker-registries", {}),
  Query("GetDockerRegistry", "get-single-docker-registry", {"registrySlug"}),
  Forget("DeleteDockerRegistry", "delete-docker-registry", {"registrySlug"})})

WorkspaceServers == Setup({
  Store("StoreRandomCredential", "random-credentials", {"CredentialName", "valid JSON"}),
  Store("StoreServer", "server", {"Name", "IPAddress"}),
  Store("StoreVMCredentials", "vm-credentials", {"KeyPairName"}),
  Store("StoreGitHubCredentials", "github-credentials", {"GitHubToken"})})
  \cup Vault({
  Query("GetAllRandomCredentials", "get-random-credentials", {}),
  Query("GetRandomCredential", "get-single-random-credential", {"credentialSlug"}),
  Forget("DeleteRandomCredential", "delete-random-credential", {"credentialSlug"}),
  Query("GetAllServers", "get-servers", {}),
  Query("GetServer", "get-single-server", {"serverSlug"}),
  Forget("DeleteServer", "delete-server", {"serverSlug"}),
  Query("GetAllVMCredentials", "get-vm-credentials", {}),
  Query("GetVMCredentialsByKeypair", "get-single-vm-credentials", {"keyPairName"})})

-----------------------------------------------------------------------------
NodeOps == Under(<<"tenant">>,
  ContainerOps \cup ContainerQueries \cup VMOps \cup InstallOps
  \cup DeployContainer \cup DeployStack \cup AgentCLIOps \cup MetalDBOps
  \cup NetworkOps \cup SessionOps \cup PipelineQueries \cup PipelineOps
  \cup ConnectorOps \cup CloudStorage \cup CloudVM \cup CloudNetworks
  \cup CloudCompute \cup MarketplaceAgents \cup MarketplaceModels
  \cup BackupOps \cup MigrationOps \cup AgentRuns \cup AgentToolOps
  \cup CloudBillingOps \cup ScraperOps \cup ComputerOps \cup GoalOps
  \cup RunOps \cup NodeWorkflowOps \cup ChatOps \cup ConversationOps
  \cup ChatStreams \cup WorkspaceSetup \cup WorkspaceTokens
  \cup WorkspaceProviders \cup WorkspaceDocker \cup WorkspaceServers)
=============================================================================
