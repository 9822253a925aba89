------------------------- MODULE NotificationCatalog -------------------------
(***************************************************************************)
(* The events that notify users, their catalog, and how a preference is    *)
(* resolved and matched (src/src/notification/notification-events.ts,      *)
(* notification-event.factory.ts, notification-preferences.ts and          *)
(* notification-filter.matcher.ts).                                        *)
(*                                                                         *)
(* Titles and bodies are wording.  A list of a filter is a set; filters    *)
(* are functions from the keys they have to the values allowed.            *)
(***************************************************************************)
EXTENDS Integers, Sequences

CONSTANTS
    None,
    MessageHash   \* hash: what the deduplication keeps of a message

EventType == {"movement.registered", "external_api.usage", "camera.error", "system.error"}
Severity == {"info", "warning", "error", "critical"}
MovementStatus == {"open", "closed", "pending_review", "discarded"}
MovementAction == {"created", "recalculated", "discarded", "reconciled"}
Outcome == {"success", "no_plate", "low_confidence", "timeout", "error", "rate_limited"}
Kind == {"offline", "snapshot_failed", "sync_failed", "stream_failed"}
Source == {"http", "database", "monitoring.sync", "monitoring.mediamtx"}

-----------------------------------------------------------------------------
(* The events, as the factory builds them.                                 *)

\* A key and a window of its own, or those of the catalog.
BuildMovementNotification(company, movement, point, camera, type, status, auto, action) ==
    [type |-> "movement.registered", companyId |-> company,
     severity |-> IF action = "discarded" \/ status = "pending_review" THEN "warning" ELSE "info",
     pointId |-> point, cameraId |-> camera,
     payload |-> [movementId |-> movement, movementTypes |-> type, statuses |-> status,
                  autoRegistered |-> auto, action |-> action],
     dedupeKey |-> <<"movement.registered", movement, action>>, dedupeWindow |-> 0]

BuildExternalApiNotification(company, provider, outcome, point, camera) ==
    [type |-> "external_api.usage", companyId |-> company,
     severity |-> IF outcome = "rate_limited" THEN "warning"
                  ELSE IF outcome \in {"error", "timeout"} THEN "error" ELSE "info",
     pointId |-> point, cameraId |-> camera,
     payload |-> [providers |-> provider, outcomes |-> outcome],
     dedupeKey |-> None, dedupeWindow |-> None]

BuildCameraErrorNotification(company, camera, point, kind) ==
    [type |-> "camera.error", companyId |-> company,
     severity |-> IF kind = "offline" THEN "critical" ELSE "error",
     pointId |-> point, cameraId |-> camera,
     payload |-> [kinds |-> kind],
     dedupeKey |-> None, dedupeWindow |-> None]

BuildSystemErrorNotification(company, source, statusCode, message) ==
    [type |-> "system.error", companyId |-> company,
     severity |-> IF statusCode # None /\ statusCode >= 500 THEN "error" ELSE "warning",
     pointId |-> None, cameraId |-> None,
     payload |-> [sources |-> source, message |-> message],
     dedupeKey |-> None, dedupeWindow |-> None]

\* The event's own key or defaultDedupeKey.
DedupeKey(e) ==
    IF e.dedupeKey # None THEN e.dedupeKey
    ELSE CASE e.type = "camera.error" -> <<e.type, e.companyId, e.cameraId, e.payload.kinds>>
           [] e.type = "system.error" ->
                <<e.type, e.companyId, e.payload.sources, MessageHash[e.payload.message]>>
           [] e.type = "external_api.usage" ->
                <<e.type, e.companyId, e.payload.providers, e.payload.outcomes, e.pointId, e.cameraId>>

-----------------------------------------------------------------------------
(* The catalog.  Windows are counted in units of 150 seconds.              *)

\* The empty object.
NoFilters == [k \in {} |-> {}]

Catalog == [
    movement |-> [type |-> "movement.registered", defaultEnabled |-> TRUE, dedupeWindow |-> 0,
                  defaultFilters |-> [statuses |-> {"pending_review"}]],
    external |-> [type |-> "external_api.usage", defaultEnabled |-> TRUE, dedupeWindow |-> 2,
                  defaultFilters |-> [outcomes |-> {"error", "timeout", "rate_limited"}]],
    camera |-> [type |-> "camera.error", defaultEnabled |-> TRUE, dedupeWindow |-> 6,
                defaultFilters |-> NoFilters],
    system |-> [type |-> "system.error", defaultEnabled |-> TRUE, dedupeWindow |-> 2,
                defaultFilters |-> NoFilters]]

Definition(type) == Catalog[CHOOSE k \in DOMAIN Catalog : Catalog[k].type = type]

\* The values a filter may list; points, cameras and providers are free.
FilterValues(type) ==
    CASE type = "movement.registered" ->
           [movementTypes |-> {"entry", "exit"}, statuses |-> MovementStatus, autoRegistered |-> BOOLEAN,
            pointIds |-> None, cameraIds |-> None]
      [] type = "external_api.usage" ->
           [outcomes |-> Outcome, providers |-> None, pointIds |-> None, cameraIds |-> None]
      [] type = "camera.error" -> [kinds |-> Kind, pointIds |-> None, cameraIds |-> None]
      [] type = "system.error" -> [severities |-> Severity, sources |-> None]

\* The strict schemas: no other key, no other value.
ValidFilters(type, f) ==
    /\ DOMAIN f \subseteq DOMAIN FilterValues(type)
    /\ \A k \in DOMAIN f :
          IF k = "autoRegistered" THEN f[k] \in BOOLEAN
          ELSE FilterValues(type)[k] = None \/ f[k] \subseteq FilterValues(type)[k]

SafeParse(type, f, otherwise) == IF ValidFilters(type, f) THEN f ELSE otherwise

\* In ascending precedence; a key that is absent does not override.
MergeFilters(catalog, company, user) ==
    LET Given(f) == IF f = None THEN NoFilters ELSE f
    IN [k \in DOMAIN Given(user) \cup DOMAIN Given(company) \cup DOMAIN catalog |->
           IF k \in DOMAIN Given(user) THEN Given(user)[k]
           ELSE IF k \in DOMAIN Given(company) THEN Given(company)[k] ELSE catalog[k]]

-----------------------------------------------------------------------------
(* What a user is told.                                                    *)

\* Mutant: the company cannot forbid that its settings are overridden.
ResolveAlwaysOverridden(type, company, user) ==
    LET enabled == IF user # None /\ user.enabled # None THEN user.enabled
                   ELSE IF company # None THEN company.enabled ELSE Definition(type).defaultEnabled
    IN [enabled |-> enabled,
        filters |-> MergeFilters(Definition(type).defaultFilters,
                                 IF company = None THEN None ELSE company.filters,
                                 IF user = None THEN None ELSE user.filters)]

ResolvePreference(type, company, user) ==
    LET definition == Definition(type)
        heard == IF company = None \/ company.allowUserOverride THEN user ELSE None
        enabled == IF heard # None /\ heard.enabled # None THEN heard.enabled
                   ELSE IF company # None THEN company.enabled ELSE definition.defaultEnabled
        merged == MergeFilters(definition.defaultFilters,
                               IF company = None THEN None ELSE company.filters,
                               IF heard = None THEN None ELSE heard.filters)
    IN [enabled |-> enabled,
        filters |-> SafeParse(type, merged, SafeParse(type, definition.defaultFilters, NoFilters))]

\* What the event says about the subject of a filter.
Subject(e, k) ==
    CASE k = "pointIds" -> e.pointId
      [] k = "cameraIds" -> e.cameraId
      [] k = "severities" -> e.severity
      [] OTHER -> e.payload[k]

\* An empty list allows everything; a subject that is absent is in no list.
MatchesFilters(e, filters) ==
    \A k \in DOMAIN filters :
        IF k = "autoRegistered" THEN Subject(e, k) = filters[k]
        ELSE filters[k] = {} \/ Subject(e, k) \in filters[k]

-----------------------------------------------------------------------------
(* Every event that the factory may build can be matched with every filter *)
(* that a request may store for its type, the default of the catalog too.  *)

FactoryEvents ==
    {BuildMovementNotification("company", "movement", "point", camera, type, status, auto, action) :
        camera \in {"camera", None}, type \in {"entry", "exit"}, status \in MovementStatus,
        auto \in BOOLEAN, action \in MovementAction}
      \cup {BuildExternalApiNotification("company", "google_vision", outcome, "point", "camera") :
                outcome \in Outcome}
      \cup {BuildCameraErrorNotification("company", "camera", "point", kind) : kind \in Kind}
      \cup {BuildSystemErrorNotification(None, source, status, "message") :
                source \in Source, status \in {None, 404, 500}}

ASSUME CatalogMatches ==
    \A e \in FactoryEvents :
        /\ e.severity \in Severity
        /\ ValidFilters(e.type, Definition(e.type).defaultFilters)
        /\ \A k \in DOMAIN FilterValues(e.type) :
              k \in {"pointIds", "cameraIds", "severities"} \cup DOMAIN e.payload
=============================================================================
