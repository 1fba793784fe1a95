---------------------------- MODULE ControlPlaneOps ----------------------------
(***************************************************************************)
(* The operations on the control plane: salesshift.Client (one of which is   *)
(* on the node) and the records of nodes.Client.  RevealLeads, ConvertFromPool and the bulk conversions  *)
(* are in Leads, WalkLeads in LeadWalk, List of nodes in NodeDiscovery.     *)
(***************************************************************************)
EXTENDS OperationTypes

\* Nearly every address of this package is a resource, or a resource, an id
\* and what to do with it.
Read(name, path, needs) == Row("salesshift", name, "GET", path, needs, "read")
Find(name, r) == Read(name, <<r>>, {})
Fetch(name, r) == Read(name, <<r, ":id">>, {})
Part(name, r, what) == Read(name, <<r, ":id", what>>, {})
Add(name, path, needs) == Row("salesshift", name, "POST", path, needs, "make")
Change(name, verb, r, needs) ==
  Row("salesshift", name, verb, <<r, ":id">>, needs, "set")

\* The answer to a deletion is not read.
Discard(name, r) ==
  [Row("salesshift", name, "DELETE", <<r, ":id">>, {}, "drop") EXCEPT !.via = "unread"]

Do(name, path, needs, does) == Row("salesshift", name, "POST", path, needs, does)
OnOne(name, r, action, does) == Do(name, <<r, ":id", action>>, {}, does)

-----------------------------------------------------------------------------
(* salesshift.go, verifier.go, opportunities.go, tasks.go                  *)

\* An email the provider refused comes back with the status "failed".
EmailOps == SoftFailing({
  Add("SendEmail", <<"email", "send">>, {"ToEmail", "Subject", "BodyHTML"})})
  \cup {
  Find("ListEmails", "emails"), Find("GetStats", "stats")}

\* The email worker is on the tenant node; without a node URL the method
\* refuses.
WorkerProbe == {
  Row("salesshift", "GetWorkerHealth", "GET",
      <<"tenant", "salesshift", "email", "health">>, {"NodeURL"}, "read")}

VerifierOps == {
  Do("VerifyEmail", <<"verifier", "check">>, {"email"}, "read"),
  Read("VerifierStatus", <<"verifier", "status">>, {})}

OpportunityOps == {
  Find("ListOpportunities", "opportunities"),
  Fetch("GetOpportunity", "opportunities")}

\* PushToLead says whether it created the contact, ConvertOpportunity whether
\* the signal was converted before.
OpportunityChanges == {
  Change("SaveOpportunity", "PATCH", "opportunities", {}),
  Change("DismissOpportunity", "PATCH", "opportunities", {}),
  OnOne("PushToLead", "opportunities", "push-to-lead", "once"),
  OnOne("ConvertOpportunity", "opportunities", "convert", "once")}

TaskOps == {
  Find("ListTasks", "tasks"), Add("CreateTask", <<"tasks">>, {"Title"}),
  Change("UpdateTask", "PUT", "tasks", {}), Discard("DeleteTask", "tasks")}

CampaignOps == {
  Find("ListCampaigns", "campaigns"), Fetch("GetCampaign", "campaigns"),
  OnOne("SendCampaign", "campaigns", "send", "act"),
  Read("GetRevealQuota", <<"leads", "quota">>, {})}

-----------------------------------------------------------------------------
(* crm.go                                                                  *)

ContactOps == {
  Find("ListContacts", "contacts"), Fetch("GetContact", "contacts"),
  Add("CreateContact", <<"contacts">>, {"Email"}),
  Change("UpdateContact", "PUT", "contacts", {}),
  Discard("DeleteContact", "contacts")}

ContactMail == SoftFailing({
  Add("SendContactEmail", <<"contacts", ":id", "send-email">>,
      {"Subject", "BodyHTML"})})
  \cup By("unread", {
  Add("AddContactNote", <<"contacts", ":id", "notes">>, {"content"})})
  \cup {
  Part("ContactActivities", "contacts", "activities"),
  Find("ListContactLists", "lists")}

\* ContactSelector.body: exactly one of ids, addresses and a filter, and no
\* more than MaxBulkSelector of them.
Selecting(S) == Needing({"one selector", "MaxBulkSelector"}, S)

ListMembers == Selecting({
  Do("AddListMembers", <<"lists", ":id", "members">>, {}, "set"),
  Do("RemoveListMembers", <<"lists", ":id", "members", "remove">>, {}, "drop")})

ContactBulk == Selecting({
  Do("BulkUpdateContacts", <<"contacts", "bulk-update">>,
     {"no addresses", "fields"}, "set")})
  \cup {Add("ImportContacts", <<"contacts", "bulk">>, {"rows"})}

-----------------------------------------------------------------------------
(* workflows.go                                                            *)

WorkflowOps == {
  Find("ListWorkflows", "workflows"), Fetch("GetWorkflow", "workflows"),
  Add("CreateWorkflow", <<"workflows">>, {"Name"}),
  Change("UpdateWorkflow", "PUT", "workflows", {}),
  Discard("DeleteWorkflow", "workflows")}

\* workflowAction, and a run that answers 409 already_running.
WorkflowActions == {
  OnOne("ActivateWorkflow", "workflows", "activate", "up"),
  OnOne("PauseWorkflow", "workflows", "pause", "down"),
  OnOne("DuplicateWorkflow", "workflows", "duplicate", "make"),
  OnOne("ValidateWorkflow", "workflows", "validate", "read")}

WorkflowRunOps == {
  OnOne("TestRun", "workflows", "test-run", "act"),
  Do("EnrollContacts", <<"workflows", ":id", "enroll">>, {"contactIDs"}, "set"),
  Part("WorkflowRuns", "workflows", "runs"),
  OnOne("RunNow", "workflows", "run-now", "start")}

RecipeOps == Under(<<"workflows">>, {
  Read("RecipeCatalog", <<"recipes", "catalog">>, {}),
  Find("ListRecipes", "recipes"), Fetch("GetRecipe", "recipes"),
  Do("PreviewRecipe", <<"recipes", "preview">>, {"RecipeKey"}, "read"),
  Add("CreateRecipe", <<"recipes">>, {"RecipeKey"}),
  Change("UpdateRecipe", "PUT", "recipes", {}),
  Part("RecipePeople", "recipes", "people")})

\* recipeAction: one address below the recipe for each action.
RecipeActions == Under(<<"workflows">>, {
  OnOne("PauseRecipe", "recipes", "pause", "down"),
  OnOne("ResumeRecipe", "recipes", "resume", "up"),
  OnOne("CancelRecipeRun", "recipes", "cancel-run", "drop"),
  OnOne("RequestRecipeApproval", "recipes", "request-approval", "act"),
  OnOne("ApproveRecipe", "recipes", "approve", "set"),
  OnOne("DeclineRecipe", "recipes", "decline", "set")})

-----------------------------------------------------------------------------
(* settings.go, social.go                                                  *)

FooterOps == {
  Read("GetEmailFooterSettings", <<"settings", "mailing-address">>, {}),
  Row("salesshift", "SetEmailFooterSettings", "PUT",
      <<"settings", "mailing-address">>,
      {"MailingAddress or FooterText", "FooterTextMax"}, "set"),
  Read("PreviewEmailFooter", <<"settings", "email-footer", "preview">>, {})}

\* A patch that changes nothing is refused.
MailboxOps == Under(<<"settings">>, {
  Find("ListMailboxes", "mailboxes"),
  Add("CreateMailbox", <<"mailboxes">>, {"FromEmail"}),
  Change("UpdateMailbox", "PATCH", "mailboxes", {"fields"}),
  Change("UpdateIntegration", "PATCH", "integrations", {"fields"})})

PostOps == Under(<<"social">>, {
  Find("ListChannels", "channels"), Find("ListPosts", "posts"),
  Add("CreatePost", <<"posts">>, {"Content"}),
  Discard("DeletePost", "posts"),
  OnOne("DistributePost", "posts", "distribute", "act"),
  Find("GetSocialStats", "stats")})

\* Only InspectURL looks at its argument.
WebmasterOps == Under(<<"social", "webmaster">>, {
  Do("InspectURL", <<"inspect">>, {"url"}, "read"),
  Do("CheckRobots", <<"robots">>, {}, "read"),
  Do("CheckSitemap", <<"sitemap">>, {}, "read"),
  Do("GenerateWebmasterFiles", <<"generate">>, {"domain"}, "read")})

-----------------------------------------------------------------------------
(* billing.go                                                              *)

PlanOps == Under(<<"billing">>, {
  Find("ListPlans", "plans"), Find("GetSubscription", "subscription"),
  Find("ListInvoices", "invoices"), Find("ListBillingEvents", "events")})

PortalOps == Under(<<"billing">>, {Add("BillingPortal", <<"portal">>, {})})

\* ConfirmCheckout says whether it applied the session; when it did not, its
\* error is nil.
CheckoutOps == Under(<<"billing">>, {
  Add("StartCheckout", <<"checkout">>, {"planCode"})}
  \cup SoftFailing({
  Do("ConfirmCheckout", <<"checkout", "confirm">>, {"sessionID"}, "once")}))

SubscriptionOps == Under(<<"billing">>, {
  Do("ChangeSubscription", <<"change">>, {"planCode or seats"}, "set"),
  Do("CancelSubscription", <<"cancel">>, {}, "down"),
  Do("ResumeSubscription", <<"resume">>, {}, "up")})

PlanActivation == Under(<<"billing">>, {
  Find("GetEntitlements", "entitlements"),
  Do("ActivatePlan", <<"activate">>, {"planCode"}, "set")})

SelfHostedOps == Under(<<"billing">>, {
  Find("GetSelfHosted", "self-hosted"),
  Do("RegisterNode", <<"self-hosted", "node">>, {"host"}, "set")}
  \cup By("unread", {
  Row("salesshift", "DetachNode", "DELETE", <<"self-hosted", "node">>, {}, "drop")}))

-----------------------------------------------------------------------------
(* sequences.go                                                            *)

SequenceOps == {
  Find("ListSequences", "sequences"), Fetch("GetSequence", "sequences"),
  Add("CreateSequence", <<"sequences">>, {"Name"}),
  Change("UpdateSequence", "PUT", "sequences", {"at most 3 windows"}),
  Discard("DeleteSequence", "sequences")}

\* Templates are served below the campaigns, steps at the top.
StepOps == {
  Change("UpdateStep", "PUT", "steps", {"fields"}),
  OnOne("UpdateStepFromTemplate", "steps", "update-from-template", "set")}

TemplateOps == Under(<<"campaigns">>, {
  Part("TemplateUsage", "templates", "usage"),
  OnOne("UpdateTemplateSteps", "templates", "update-steps", "set")})

TestSends == SoftFailing({
  Do("TestSendStep", <<"sequences", ":id", "test-send">>, {"StepID"}, "act")})

NewSteps == {Add("AddStep", <<"sequences", ":id", "steps">>, {})}

\* sequenceAction
SequenceActions == {
  OnOne("ActivateSequence", "sequences", "activate", "up"),
  OnOne("PauseSequence", "sequences", "pause", "down"),
  OnOne("ArchiveSequence", "sequences", "archive", "drop"),
  OnOne("DuplicateSequence", "sequences", "duplicate", "make")}

EnrollmentOps == {
  Do("EnrollInSequence", <<"sequences", ":id", "enroll">>, {"contactIDs"}, "set"),
  Part("SequenceEnrollments", "sequences", "enrollments")}

SequenceReports == {
  Part("Analytics", "sequences", "analytics"),
  Do("DispatchNow", <<"sequences", "dispatch-now">>, {}, "act")}

-----------------------------------------------------------------------------
(* leads.go                                                                *)

PoolSearch == {
  Do("SearchLeads", <<"leads", "search">>, {}, "read"),
  Do("SearchCompanies", <<"leads", "search">>, {}, "read")}

PoolFacets == {
  Do("LeadFacets", <<"leads", "facets">>, {}, "read"),
  Read("LeadCities", <<"leads", "cities">>, {"country", "q of 2 or more"}),
  Read("RevealQuota", <<"leads", "quota">>, {})}

\* The server charges one reveal per person and organization.
PoolReveal == {
  Do("RevealLead", <<"leads", "reveal">>, {"poolPersonID"}, "once")}

PoolSave == {
  Do("SaveLeads", <<"leads", "save">>, {"poolPersonIDs", "LeadsMaxBatch"}, "set")}

PoolDetail == Under(<<"leads">>, {
  Fetch("GetPoolPerson", "pool"), Fetch("GetPoolCompany", "company")})

SavedLeads == {
  Find("ListLeads", "leads"), Fetch("GetLead", "leads"),
  Change("UpdateLead", "PATCH", "leads", {})}

LeadConversion == {OnOne("ConvertLead", "leads", "convert", "once")}

\* An erasure reaches every tenant and is not sent without Confirm.
LeadActions == {
  Do("RequestErasure", <<"leads", "erasure">>,
     {"Email or LinkedInURL", "Confirm"}, "wipe"),
  Do("Enrich", <<"leads", "enrich">>, {"CompanyID or Domain"}, "act")}

SavedSearches == {
  Find("ListSavedSearches", "lead-searches"),
  Add("SaveSearch", <<"lead-searches">>, {"Name"})}

-----------------------------------------------------------------------------
\* nodes.go: the id is a number, so the address always holds one.
NodeRecords == Under(<<"auth", "nodes">>, {
  Row("nodes", "RegisterSelfHosted", "POST", <<"self-hosted">>, {}, "make"),
  Row("nodes", "Update", "PATCH", <<"number">>, {}, "set")}
  \cup By("unread", {
  Row("nodes", "SetDefault", "POST", <<"number", "set-default">>, {}, "set"),
  Row("nodes", "Delete", "DELETE", <<"number">>, {}, "drop")}))

ControlPlaneOps == WorkerProbe \cup ControlPlane(NodeRecords \cup Under(<<"salesshift">>, Guarded(
  EmailOps \cup VerifierOps \cup OpportunityOps \cup OpportunityChanges
  \cup TaskOps \cup CampaignOps \cup ContactOps \cup ContactMail
  \cup ListMembers \cup ContactBulk \cup WorkflowOps \cup WorkflowActions
  \cup WorkflowRunOps \cup RecipeOps \cup RecipeActions \cup FooterOps
  \cup MailboxOps \cup PostOps \cup WebmasterOps \cup PlanOps
  \cup PortalOps \cup PlanActivation
  \cup CheckoutOps \cup SubscriptionOps \cup SelfHostedOps \cup SequenceOps
  \cup StepOps \cup TemplateOps \cup TestSends \cup NewSteps
  \cup SequenceActions \cup EnrollmentOps \cup SequenceReports
  \cup PoolSearch \cup PoolFacets \cup PoolReveal \cup PoolSave
  \cup PoolDetail \cup SavedLeads \cup LeadConversion \cup LeadActions
  \cup SavedSearches)))
=============================================================================
