---------------------------- MODULE AgentControlOps ----------------------------
(***************************************************************************)
(* The operations of agentcontrol.Client and its sub-resources, on the      *)
(* tenant node.  Wait is not here: JobWait models it.                      *)
(***************************************************************************)
EXTENDS OperationTypes

\* acURL, do: below one prefix, and never without a tenant id.
Tenant(S) == Under(<<"agentcontrol">>, Needing({"TenantID"}, S))

\* DeleteAll puts ?confirm=true on the address of the collection by itself.
DeleteAll(group, r) == Row(group, "DeleteAll", "DELETE", <<r>>, {}, "wipe")

Get(group, r) == Row(group, "Get", "GET", <<r, ":id">>, {}, "read")
List(group, r) == Row(group, "List", "GET", <<r, "">>, {}, "read")
Delete(group, r) == Row(group, "Delete", "DELETE", <<r, ":id">>, {}, "drop")

\* requireKeys: the keys of the specification the method asks for.
Create(group, r, keys) ==
  Row(group, "Create", "POST", <<r, "">>, {"spec"} \cup keys, "make")

-----------------------------------------------------------------------------
(* agentcontrol.go                                                         *)

Jobs == {
  Row("Client", "Summary", "GET", <<"summary">>, {}, "read"),
  List("FineTuning", "fine-tuning"), Get("FineTuning", "fine-tuning"),
  Create("FineTuning", "fine-tuning", {"name", "base_model", "training_file"}),
  List("Training", "training"), Get("Training", "training"),
  Create("Training", "training", {"name", "base_model", "dataset_id"}),
  List("Knowledge", "knowledge"), Get("Knowledge", "knowledge"),
  Create("Knowledge", "knowledge", {"name"})}

Datasets == {
  List("Datasets", "datasets"), Get("Datasets", "datasets"),
  Row("Datasets", "Preview", "GET", <<"datasets", ":id", "preview">>, {}, "read")}

Uploads == By("multipart", {
  Row("Datasets", "Upload", "POST", <<"datasets", "upload">>,
      {"Name", "filename"}, "make")})

AgentsAndGitHub == {
  List("Agents", "agents"),
  Row("Agents", "Execute", "POST", <<"agents", ":id", "execute">>, {}, "act"),
  Row("GitHub", "ListRepos", "GET", <<"github", "repos">>, {}, "read"),
  Row("GitHub", "ImportDataset", "POST", <<"github", "import-dataset">>,
      {"Repo"}, "make")}

-----------------------------------------------------------------------------
(* agentcontrol_verbs.go                                                   *)

JobVerbs == {
  Delete("FineTuning", "fine-tuning"), DeleteAll("FineTuning", "fine-tuning"),
  Row("Training", "Update", "PUT", <<"training", ":id">>, {"patch"}, "set"),
  Delete("Training", "training"), DeleteAll("Training", "training"),
  Row("Training", "Clone", "POST", <<"training", ":id", "clone">>, {}, "make"),
  Row("Training", "Restart", "POST", <<"training", ":id", "restart">>, {}, "act"),
  Row("Training", "RunTests", "POST", <<"training", ":id", "tests">>, {}, "act"),
  Row("Training", "RunQA", "POST", <<"training", ":id", "qa">>, {}, "act"),
  Row("Training", "Export", "POST", <<"training", ":id", "export">>, {}, "act"),
  Row("Training", "Logs", "GET", <<"training", ":id", "logs">>, {}, "read"),
  Row("Training", "Metrics", "GET", <<"training", ":id", "metrics">>, {}, "read"),
  Row("Training", "Chat", "POST", <<"training", ":id", "chat">>, {"Message"}, "act")}

DatasetAndAgentVerbs == {
  Delete("Knowledge", "knowledge"), DeleteAll("Knowledge", "knowledge"),
  Delete("Datasets", "datasets"), Create("Datasets", "datasets", {"name"}),
  Get("Agents", "agents"), Create("Agents", "agents", {"name", "model_id"}),
  Row("Agents", "Update", "PUT", <<"agents", ":id">>, {"patch"}, "set"),
  Delete("Agents", "agents"),
  Row("Agents", "ProxyExecute", "POST", <<"agents", "proxy-execute">>,
      {"Endpoint", "Message"}, "act"),
  Row("Client", "RuntimeMetrics", "GET", <<"runtime", "metrics">>,
      {"endpoint"}, "read")}

\* The owner comes before the repository in the address.
RepoContents == {
  Row("GitHub", "RepoContents", "GET",
      <<"github", "repos", ":sub", ":id", "contents">>, {}, "read")}

Downloads == By("bytes", {
  Row("Datasets", "Download", "GET", <<"datasets", ":id", "download">>, {}, "read")})

-----------------------------------------------------------------------------
(* agentcontrol_new.go                                                     *)

Embeddings == {
  List("Embeddings", "embeddings"),
  Row("Embeddings", "Query", "POST", <<"embeddings", ":id", "query">>,
      {"question"}, "read"),
  Row("Embeddings", "Visualize", "GET", <<"embeddings", ":id", "visualize">>,
      {}, "read"),
  Row("Embeddings", "Promote", "POST", <<"embeddings", ":id", "promote">>,
      {}, "set"),
  Row("Embeddings", "Upload", "POST", <<"embeddings", "upload">>,
      {"filename", "contentBase64"}, "make"),
  Delete("Embeddings", "embeddings"),
  \* The slash is trimmed after the query was appended, so it stays.
  Row("Embeddings", "DeleteAll", "DELETE", <<"embeddings", "">>, {}, "wipe")}
  \cup By("bytes", {
  Row("Embeddings", "Download", "GET", <<"embeddings", ":id", "download">>,
      {"part"}, "read")})

ToolsAndMCP == {
  List("Tools", "tools"), Create("Tools", "tools", {"name"}),
  Row("Tools", "Update", "PATCH", <<"tools", ":id">>, {"patch"}, "set"),
  Delete("Tools", "tools"),
  List("MCP", "mcp-servers"), Create("MCP", "mcp-servers", {"name", "url"}),
  Row("MCP", "Refresh", "POST", <<"mcp-servers", ":id", "refresh">>, {}, "act"),
  Delete("MCP", "mcp-servers")}

Evals == {
  Row("Evals", "ListRuns", "GET", <<"evals", "runs", "">>, {}, "read"),
  Row("Evals", "CreateRun", "POST", <<"evals", "runs", "">>,
      {"spec", "name"}, "make"),
  Row("Evals", "DeleteRun", "DELETE", <<"evals", "runs", ":id">>, {}, "drop"),
  Row("Evals", "SubmitFeedback", "POST", <<"evals", "feedback">>,
      {"requestID", "feedback"}, "act"),
  Row("Evals", "FeedbackStats", "GET", <<"evals", "stats">>, {}, "read")}

Code == {
  Row("Code", "Run", "POST", <<"code", "run">>, {"Language", "Content"}, "act"),
  Row("Code", "Save", "POST", <<"code", "save">>, {"language", "content"}, "set"),
  Row("Code", "ListSaved", "GET", <<"code", "saved">>, {}, "read"),
  Row("Code", "GetSaved", "GET", <<"code", "saved", ":id">>, {}, "read"),
  Row("Code", "DeleteSaved", "DELETE", <<"code", "saved", ":id">>, {}, "drop")}

Models == {
  List("Models", "models"), Get("Models", "models"),
  Create("Models", "models", {"name"}),
  Delete("Models", "models"), DeleteAll("Models", "models"),
  Row("Models", "SetState", "PATCH", <<"models", ":id", "state">>,
      {"state"}, "set"),
  Row("Models", "ExportTrainingData", "GET", <<"models", ":id", "export">>,
      {}, "read")}

Deployments == {
  List("Deployments", "deployments"),
  Row("Deployments", "Summary", "GET", <<"deployments", "summary">>, {}, "read"),
  Create("Deployments", "deployments", {"name", "model_id"}),
  Row("Deployments", "Sync", "POST", <<"deployments", ":id", "sync">>, {}, "act"),
  Row("Deployments", "SetStatus", "PATCH", <<"deployments", ":id", "status">>,
      {"status"}, "set"),
  Delete("Deployments", "deployments"), DeleteAll("Deployments", "deployments")}

AssetsAndCatalog == {
  List("WebAssets", "web-assets"), Create("WebAssets", "web-assets", {"name"}),
  Delete("WebAssets", "web-assets"),
  List("Benchmarks", "benchmarks"), Create("Benchmarks", "benchmarks", {}),
  List("Catalog", "catalog"),
  Row("Catalog", "Summary", "GET", <<"catalog", "summary">>, {}, "read"),
  Row("Health", "AllModels", "GET", <<"health", "models", "status">>, {}, "read"),
  Row("Health", "Model", "GET", <<"health", "models", ":id", "status">>, {}, "read")}

EventsAndLLM == {
  Row("Events", "Status", "GET", <<"events", "status">>, {}, "read"),
  Row("Events", "Publish", "POST", <<"events", "publish">>,
      {"topic", "eventType"}, "act"),
  Row("LLM", "Chat", "POST", <<"llm", "chat">>,
      {"Provider", "Model", "Message"}, "act"),
  Row("LLM", "Providers", "GET", <<"llm", "providers">>, {}, "read")}

TargetsAndInfra == {
  List("DeployTargets", "deploy-targets"),
  Row("DeployTargets", "Provision", "POST", <<"deploy-targets", "provision">>,
      {}, "make"),
  Row("DeployTargets", "ProvisionStatus", "GET",
      <<"deploy-targets", "provision", ":id">>, {"username"}, "read"),
  List("Workflows", "workflows"),
  Row("Workflows", "Trigger", "POST", <<"workflows", "trigger">>,
      {"workflowID"}, "act"),
  Row("Infra", "Endpoints", "GET", <<"infra", "endpoints">>, {}, "read")}

AgentControlOps == Tenant(Guarded(
  Jobs \cup Datasets \cup Uploads \cup AgentsAndGitHub \cup JobVerbs
  \cup DatasetAndAgentVerbs \cup RepoContents \cup Downloads \cup Embeddings
  \cup ToolsAndMCP \cup Evals \cup Code \cup Models \cup Deployments
  \cup AssetsAndCatalog \cup EventsAndLLM \cup TargetsAndInfra))
=============================================================================
