-------------------------------- MODULE MCSite --------------------------------
(***************************************************************************)
(* Five components of the site over the database and the disk: the global  *)
(* office, the organizations, the visitors with an account, the uploads of *)
(* the administrator and the service providers.  They write no table or    *)
(* file of one another, so a behaviour exercises one of them: the states   *)
(* of one run are those of the five, not their product.                    *)
(***************************************************************************)
EXTENDS GlobalOffice, OrganizationPortal, Visitors, Uploads, Providers

VARIABLE part

siteVars == <<officeVars, portalVars, visitorVars, uploadVars, providersVars, part>>

MCInit ==
  /\ OfficeInit /\ PortalInit /\ VisitorsInit /\ UploadsInit /\ ProvidersInit
  /\ part \in Staff \cup {"portal", "visitors", "uploads", "providers"}
  /\ part # "uploads" => repo = [k \in Kinds |-> None]    \* which of the two says nothing elsewhere

MCNext ==
  \/ /\ part \in Staff /\ OfficeNext /\ \A m \in Staff \ {part} : staff'[m] = staff[m]
     /\ UNCHANGED <<portalVars, visitorVars, uploadVars, providersVars, part>>
  \/ part = "portal" /\ PortalNext /\ UNCHANGED <<officeVars, visitorVars, uploadVars, providersVars, part>>
  \/ part = "visitors" /\ VisitorsNext /\ UNCHANGED <<officeVars, portalVars, uploadVars, providersVars, part>>
  \/ part = "uploads" /\ UploadsNext /\ UNCHANGED <<officeVars, portalVars, visitorVars, providersVars, part>>
  \/ part = "providers" /\ ProvidersNext /\ UNCHANGED <<officeVars, portalVars, visitorVars, uploadVars, part>>

MCSpec == MCInit /\ [][MCNext]_siteVars

\* Every part stays within the values its declarations list.
MCTypeOK == OfficeTypeOK /\ PortalTypeOK /\ VisitorsTypeOK /\ UploadsTypeOK /\ ProvidersTypeOK

=============================================================================
