------------------------------ MODULE Services ------------------------------
(***************************************************************************)
(* The components of the back end that meet only in the database, side by  *)
(* side: each keeps rows of its own, no component reads another's, and no  *)
(* step of one waits for a step of another.                                *)
(*                                                                         *)
(* They share no variable, so a property of one cannot depend on how its   *)
(* steps fall between another's: a behaviour moves one part, chosen at the *)
(* start, and leaves the others where they began.  What a part finds at    *)
(* its start by choice is fixed for the parts that stay.                   *)
(***************************************************************************)
EXTENDS Connections, ModelRouter, GeoProbes, RunEvents, Accounts,
        KnowledgeBase, NodeTurn, BusinessMemory, LeadLoop, Crawl,
        Delivery, Evaluation, SeoAudit, NapAudit

VARIABLE part       \* the component whose steps a behaviour follows

Parts == {"connections", "router", "geo", "events", "accounts",
          "knowledge", "turn", "memory", "leads", "crawl",
          "delivery", "evaluation", "seo", "nap"}

serviceVars == <<part, connectionVars, routerVars, geoVars, eventVars,
                 accountVars, knowledgeVars, turnVars, memoryVars, leadVars,
                 crawlVars, deliveryVars, evalVars, seoVars, napVars>>

\* Every part but p stays where it is.
Others(p) ==
    /\ IF p = "connections" THEN TRUE ELSE UNCHANGED connectionVars
    /\ IF p = "router" THEN TRUE ELSE UNCHANGED routerVars
    /\ IF p = "geo" THEN TRUE ELSE UNCHANGED geoVars
    /\ IF p = "events" THEN TRUE ELSE UNCHANGED eventVars
    /\ IF p = "accounts" THEN TRUE ELSE UNCHANGED accountVars
    /\ IF p = "knowledge" THEN TRUE ELSE UNCHANGED knowledgeVars
    /\ IF p = "turn" THEN TRUE ELSE UNCHANGED turnVars
    /\ IF p = "memory" THEN TRUE ELSE UNCHANGED memoryVars
    /\ IF p = "leads" THEN TRUE ELSE UNCHANGED leadVars
    /\ IF p = "crawl" THEN TRUE ELSE UNCHANGED crawlVars
    /\ IF p = "delivery" THEN TRUE ELSE UNCHANGED deliveryVars
    /\ IF p = "evaluation" THEN TRUE ELSE UNCHANGED evalVars
    /\ IF p = "seo" THEN TRUE ELSE UNCHANGED seoVars
    /\ IF p = "nap" THEN TRUE ELSE UNCHANGED napVars

ServicesInit ==
    /\ part \in Parts
    /\ ConnectionsInit
    /\ part = "connections" \/ storable
    /\ ModelRouterInit
    /\ part = "router" \/ (credentials = {} /\ governed /\ budgeted)
    /\ GeoInit
    /\ EventsInit
    /\ AccountsInit
    /\ KnowledgeInit
    /\ TurnInit
    /\ part = "turn" \/ wired = {}
    /\ MemoryInit
    /\ LeadInit
    /\ CrawlInit
    /\ DeliveryInit
    /\ part = "delivery" \/ validating
    /\ EvalInit
    /\ part = "evaluation" \/ (flags.live /\ flags.deepeval /\ flags.ragas)
    /\ IF part = "seo" THEN SeoInit
       ELSE draftPage = Flawless /\ site = GoodSite /\ revisions = 0
    /\ IF part = "nap" THEN NapInit
       ELSE confirmed = Nobody /\ listing = Nobody /\ findings = {}

ServicesNext ==
    /\ part' = part /\ Others(part)
    /\ \/ part = "connections" /\ ConnectionsNext
       \/ part = "router" /\ ModelRouterNext
       \/ part = "geo" /\ GeoNext
       \/ part = "events" /\ EventsNext
       \/ part = "accounts" /\ AccountsNext
       \/ part = "knowledge" /\ KnowledgeNext
       \/ part = "turn" /\ TurnNext
       \/ part = "memory" /\ MemoryNext
       \/ part = "leads" /\ LeadNext
       \/ part = "crawl" /\ CrawlNext
       \/ part = "delivery" /\ DeliveryNext
       \/ part = "evaluation" /\ EvalNext
       \/ part = "seo" /\ SeoNext
       \/ part = "nap" /\ NapNext

ServicesSpec == ServicesInit /\ [][ServicesNext]_serviceVars

\* Every variable of the part that moves has its type.
ServicesTypeOK ==
    /\ part = "connections" => ConnectionsTypeOK
    /\ part = "router" => ModelRouterTypeOK
    /\ part = "geo" => GeoTypeOK
    /\ part = "events" => EventsTypeOK
    /\ part = "accounts" => AccountsTypeOK
    /\ part = "knowledge" => KnowledgeTypeOK
    /\ part = "turn" => TurnTypeOK
    /\ part = "memory" => MemoryTypeOK
    /\ part = "leads" => LeadTypeOK
    /\ part = "crawl" => CrawlTypeOK
    /\ part = "delivery" => DeliveryTypeOK
    /\ part = "evaluation" => EvalTypeOK
    /\ part = "seo" => SeoTypeOK
    /\ part = "nap" => NapTypeOK

=============================================================================
