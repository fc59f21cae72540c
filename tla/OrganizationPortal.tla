-------------------------- MODULE OrganizationPortal --------------------------
(***************************************************************************)
(* Organizations of routes/global-orders.ts: the connection file a visitor *)
(* submits and the owner reviews, the API key issued for a connected one,  *)
(* the services it writes with that key, and the public catalogue.         *)
(*                                                                         *)
(* A portal request is two statements: the SELECT that authorizes the key  *)
(* and the INSERT or UPDATE of a service.  A review of a service is two    *)
(* requests: the GET that shows the owner its text, and later the POST,    *)
(* which names the service and the decision and not the text.  In between  *)
(* the others write.  The columns of a service the organization writes are *)
(* one text, and keys are abstracted to whether the row holds one: a       *)
(* replaced key finds no row.                                              *)
(***************************************************************************)
EXTENDS Naturals

CONSTANTS
  Orgs, Services,  \* bound: files and services ever created
  Texts,           \* what organizations write in a service
  PortalCalls,     \* requests of organizations, and pages open at the owner's
  NoOrg, NoService, NoText

ASSUME PortalAssumption == NoOrg \notin Orgs /\ NoService \notin Services /\ NoText \notin Texts

VARIABLES
  connection,  \* hormoz_organization_connections
  service,     \* hormoz_organization_services
  publication, \* history: what the owner had read, and what was stored, when
               \* the owner published each service last
  portalCall   \* the handler of each request

portalVars == <<connection, service, publication, portalCall>>

\* "waiting": received, screening, needs_information, approved or rejected.
Connection == [status: {"absent", "waiting", "connected"}, keyed: BOOLEAN]
Service == [status: {"absent", "submitted", "published", "rejected"},
            org: Orgs \cup {NoOrg}, text: Texts \cup {NoText}]

Publication == [read: Texts \cup {NoText}, stored: Texts \cup {NoText}]

PortalCall == [step: {"idle", "key", "insert", "update", "page"}, service: Services \cup {NoService},
               org: Orgs \cup {NoOrg}, text: Texts \cup {NoText}]

NoPortalCall == [step |-> "idle", service |-> NoService, org |-> NoOrg, text |-> NoText]

PortalTypeOK ==
  /\ connection \in [Orgs -> Connection]
  /\ service \in [Services -> Service]
  /\ publication \in [Services -> Publication]
  /\ portalCall \in [PortalCalls -> PortalCall]

PortalInit ==
  /\ connection = [o \in Orgs |-> [status |-> "absent", keyed |-> FALSE]]
  /\ service = [s \in Services |-> [status |-> "absent", org |-> NoOrg, text |-> NoText]]
  /\ publication = [s \in Services |-> [read |-> NoText, stored |-> NoText]]
  /\ portalCall = [p \in PortalCalls |-> NoPortalCall]

-----------------------------------------------------------------------------
Called(p, h) == portalCall[p] = NoPortalCall /\ portalCall' = [portalCall EXCEPT ![p] = h]
Answered(p)  == portalCall' = [portalCall EXCEPT ![p] = NoPortalCall]

\* POST /organization-connections.
SubmitFile(o) ==
  /\ connection[o].status = "absent"
  /\ connection' = [connection EXCEPT ![o].status = "waiting"]
  /\ UNCHANGED <<service, publication, portalCall>>

\* The owner's review: any status but "received", whatever the present one; the
\* key of a file that is not connected any more stays in its row.
ReviewFile(o) ==
  /\ connection[o].status # "absent"
  /\ \E s \in {"waiting", "connected"} : connection' = [connection EXCEPT ![o].status = s]
  /\ UNCHANGED <<service, publication, portalCall>>

\* POST .../:id/api-key: SELECT status.
CallIssueKey(p) ==
  /\ \E o \in Orgs :
       connection[o].status = "connected" /\ Called(p, [NoPortalCall EXCEPT !.step = "key", !.org = o])
  /\ UNCHANGED <<connection, service, publication>>

\* UPDATE ... SET api_key_hash, whatever became of the status.
IssueKey(p) ==
  /\ portalCall[p].step = "key"
  /\ connection' = [connection EXCEPT ![portalCall[p].org].keyed = TRUE]
  /\ Answered(p)
  /\ UNCHANGED <<service, publication>>

-----------------------------------------------------------------------------
(* The portal *)

\* authorizedOrganization: the row with the hash of the key, if connected.
Authorized(o) == connection[o].keyed /\ connection[o].status = "connected"

CallPortal(p) ==
  /\ \E o \in Orgs :
       /\ Authorized(o)
       /\ \/ Called(p, [NoPortalCall EXCEPT !.step = "insert", !.org = o])
          \/ \E s \in Services :
               Called(p, [NoPortalCall EXCEPT !.step = "update", !.service = s, !.org = o])
  /\ UNCHANGED <<connection, service, publication>>

NewServices == {s \in Services : service[s].status = "absent"}

\* POST /services: INSERT ... 'submitted'.
InsertService(p) ==
  /\ portalCall[p].step = "insert"
  /\ NewServices # {}
  /\ LET s == CHOOSE s \in NewServices : TRUE IN
     \E x \in Texts :
       service' = [service EXCEPT ![s] = [status |-> "submitted", org |-> portalCall[p].org, text |-> x]]
  /\ Answered(p)
  /\ UNCHANGED <<connection, publication>>

Unchanged(status) == status    \* mutant: the CASE is left out
Resubmitted(status) == IF status = "published" THEN "submitted" ELSE status

\* PATCH /services/:id: UPDATE ... WHERE id AND organization_id.
UpdateService(p) ==
  /\ portalCall[p].step = "update"
  /\ LET s == portalCall[p].service IN
     IF service[s].org = portalCall[p].org
     THEN \E x \in Texts :
            service' = [service EXCEPT ![s].status = Resubmitted(@), ![s].text = x]
     ELSE UNCHANGED service
  /\ Answered(p)
  /\ UNCHANGED <<connection, publication>>

-----------------------------------------------------------------------------
(* The owner's page organization-admin.html *)

\* GET /global-admin/organization-services: the text is on the owner's screen.
ReadServices(p) ==
  /\ \E s \in Services :
       /\ service[s].status # "absent"
       /\ Called(p, [NoPortalCall EXCEPT !.step = "page", !.service = s, !.text = service[s].text])
  /\ UNCHANGED <<connection, service, publication>>

\* POST .../review, one of the page's buttons: UPDATE ... SET status WHERE id.
ReviewService(p) ==
  /\ portalCall[p].step = "page"
  /\ LET s == portalCall[p].service IN
     \E r \in {"published", "rejected", "submitted"} :
       /\ service' = [service EXCEPT ![s].status = r]
       /\ publication' = IF r # "published" THEN publication
            ELSE [publication EXCEPT ![s] = [read |-> portalCall[p].text, stored |-> service[s].text]]
  /\ Answered(p)
  /\ UNCHANGED connection

\* A statement fails, or the process restarts: the handler ends here.  The
\* owner leaves the page.
PortalFails(p) ==
  /\ portalCall[p].step # "idle"
  /\ Answered(p)
  /\ UNCHANGED <<connection, service, publication>>

PortalNext ==
  \/ \E o \in Orgs : SubmitFile(o) \/ ReviewFile(o)
  \/ \E p \in PortalCalls :
       \/ CallIssueKey(p) \/ IssueKey(p) \/ CallPortal(p)
       \/ InsertService(p) \/ UpdateService(p) \/ ReadServices(p) \/ ReviewService(p) \/ PortalFails(p)

PortalSpec == PortalInit /\ [][PortalNext]_portalVars

-----------------------------------------------------------------------------
(* Properties *)

\* GET /organization-services: published services of connected organizations.
Catalogue == {s \in Services : service[s].status = "published" /\ connection[service[s].org].status = "connected"}

\* A service in the catalogue shows the text that was stored when the owner
\* published it: whatever its organization writes later, with a request that was
\* authorized before or after, takes it out of the catalogue in the same
\* statement (the CASE of the PATCH) until the owner publishes it again.
CatalogueAsPublished ==
  \A s \in Catalogue : service[s].text = publication[s].stored

\* "The service has been stored and will be published after Hormoz's review"
\* (the answer of POST /organization-portal/services), "the edited version was
\* sent for another review" (the answer of the PATCH): what the catalogue shows
\* is what the owner had read when publishing it.
CatalogueIsReviewed ==
  \A s \in Catalogue : service[s].text = publication[s].read

=============================================================================
