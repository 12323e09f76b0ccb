--------------------------- MODULE ServiceListener ---------------------------
(***************************************************************************)
(* The service registry of the server process and a listener that is       *)
(* created while bundles come and go (src/platform/OSP/src/                *)
(* ServiceRegistry.cpp, ServiceListener.cpp).                              *)
(*                                                                         *)
(* The registry changes its map under its mutex and fires its events after *)
(* it has released it; the listener changes the set of references it knows *)
(* under its own mutex and calls its client after it has released that.    *)
(* An owner registers and withdraws its service, one after the other, on   *)
(* some thread; the listener's constructor runs on another.  The loader    *)
(* runs activators under its mutex, so at most one of these threads is an  *)
(* activator's; scripts create listeners on threads of their own           *)
(* (ServiceRegistryWrapper.cpp), and the registry takes calls from any.    *)
(***************************************************************************)
EXTENDS Naturals

CONSTANTS
  Owners,            \* the bundles that offer a service
  ServiceNames,
  NameOf,            \* owner -> the name of its service
  Matching,          \* the owners whose service the listener's query is about
  RegistrationBudget \* bound: registrations per owner

NoRef == <<"none", 0>>
Refs == Owners \X (1..RegistrationBudget)  \* every registration makes a ServiceRef

ASSUME ServiceListenerAssumption ==
  /\ NameOf \in [Owners -> ServiceNames] /\ Matching \subseteq Owners
  /\ RegistrationBudget \in Nat /\ NoRef \notin Refs

VARIABLES
  services,          \* _services: name -> reference, or NoRef
  registrations,     \* owner -> how often it has registered
  ownerAt,           \* owner -> where it stands
  listenerAt,        \* where the constructor of the listener stands
  results,           \* what find() has returned and is not dealt with yet
  adding,            \* the result whose delegate is to be called
  refs,              \* _refs of the listener
  known,             \* what the client thinks is registered
  announced,         \* ghost: what the client has ever been told of
  withdrawnEarly     \* ghost: withdrawn before the constructor has returned

registryVars == <<services, registrations, ownerAt>>
listenerVars == <<listenerAt, results, adding, refs, known, announced, withdrawnEarly>>
serviceVars == <<registryVars, listenerVars>>

OwnerPlaces == {"out", "announcing", "telling", "in", "withdrawing", "untelling"}
ListenerPlaces == {"new", "half", "subscribed", "adding", "telling", "ready"}

ServiceListenerInit ==
  /\ services = [n \in ServiceNames |-> NoRef]
  /\ registrations = [o \in Owners |-> 0] /\ ownerAt = [o \in Owners |-> "out"]
  /\ listenerAt = "new" /\ results = {} /\ adding = NoRef /\ refs = {}
  /\ known = {} /\ announced = {} /\ withdrawnEarly = {}

RefOf(o) == <<o, registrations[o]>>
Goes(o, from, to) == ownerAt[o] = from /\ ownerAt' = [ownerAt EXCEPT ![o] = to]
\* Mutant: init() subscribes when it has dealt with what find() returned.
HearsWhenReady == listenerAt = "ready"

HearsRegistered == listenerAt # "new"
HearsUnregistered == listenerAt \notin {"new", "half"}

-----------------------------------------------------------------------------
\* registerService.  A name that is taken is an ExistsException; nothing changes.
Register(o) ==
  /\ Goes(o, "out", "announcing")
  /\ services[NameOf[o]] = NoRef /\ registrations[o] < RegistrationBudget
  /\ registrations' = [registrations EXCEPT ![o] = @ + 1]
  /\ services' = [services EXCEPT ![NameOf[o]] = <<o, registrations[o] + 1>>]
  /\ UNCHANGED listenerVars

\* The event reaches onServiceRefRegistered of a listener that has subscribed.
IsNews(o) == HearsRegistered /\ o \in Matching /\ RefOf(o) \notin refs

AnnounceRegistered(o) ==
  /\ Goes(o, "announcing", IF IsNews(o) THEN "telling" ELSE "in")
  /\ refs' = IF IsNews(o) THEN refs \cup {RefOf(o)} ELSE refs
  /\ UNCHANGED <<services, registrations, listenerAt, results, adding, known, announced,
                 withdrawnEarly>>

TellRegistered(o) ==
  /\ Goes(o, "telling", "in")
  /\ known' = known \cup {RefOf(o)} /\ announced' = announced \cup {RefOf(o)}
  /\ UNCHANGED <<services, registrations, listenerAt, results, adding, refs,
                 withdrawnEarly>>

\* unregisterService.
Unregister(o) ==
  /\ Goes(o, "in", "withdrawing")
  /\ services' = [services EXCEPT ![NameOf[o]] = NoRef]
  /\ withdrawnEarly' = IF listenerAt = "ready" THEN withdrawnEarly
                       ELSE withdrawnEarly \cup {RefOf(o)}
  /\ UNCHANGED <<registrations, listenerAt, results, adding, refs, known, announced>>

\* onServiceRefUnregistered.
IsMissed(o) == HearsUnregistered /\ RefOf(o) \in refs

AnnounceUnregistered(o) ==
  /\ Goes(o, "withdrawing", IF IsMissed(o) THEN "untelling" ELSE "out")
  /\ refs' = IF IsMissed(o) THEN refs \ {RefOf(o)} ELSE refs
  /\ UNCHANGED <<services, registrations, listenerAt, results, adding, known, announced,
                 withdrawnEarly>>

\* Mutant: the delegate is not called.
TellNobody(o) ==
  /\ Goes(o, "untelling", "out")
  /\ UNCHANGED <<services, registrations, listenerVars>>

TellUnregistered(o) ==
  /\ Goes(o, "untelling", "out")
  /\ known' = known \ {RefOf(o)}
  /\ UNCHANGED <<services, registrations, listenerAt, results, adding, refs, announced,
                 withdrawnEarly>>

-----------------------------------------------------------------------------
\* ServiceListener::init.
SubscribeRegistered ==
  /\ listenerAt = "new" /\ listenerAt' = "half"
  /\ UNCHANGED <<registryVars, results, adding, refs, known, announced, withdrawnEarly>>

SubscribeUnregistered ==
  /\ listenerAt = "half" /\ listenerAt' = "subscribed"
  /\ UNCHANGED <<registryVars, results, adding, refs, known, announced, withdrawnEarly>>

\* Mutant: whatever the map says of the names.
FindAnything ==
  /\ listenerAt = "subscribed" /\ listenerAt' = "adding"
  /\ results' = {services[n]: n \in ServiceNames}
  /\ UNCHANGED <<registryVars, adding, refs, known, announced, withdrawnEarly>>

FindServices ==
  /\ listenerAt = "subscribed" /\ listenerAt' = "adding"
  /\ results' = {r \in Refs: r[1] \in Matching /\ services[NameOf[r[1]]] = r}
  /\ UNCHANGED <<registryVars, adding, refs, known, announced, withdrawnEarly>>

\* Mutant: the delegate is called for every result.
AddFoundAgain(r) ==
  /\ listenerAt = "adding" /\ r \in results /\ results' = results \ {r}
  /\ refs' = refs \cup {r} /\ listenerAt' = "telling" /\ adding' = r
  /\ UNCHANGED <<registryVars, known, announced, withdrawnEarly>>

\* onServiceRefRegistered, called for a result (the order of the map is left out).
AddFound(r) ==
  /\ listenerAt = "adding" /\ r \in results /\ results' = results \ {r}
  /\ refs' = refs \cup {r}
  /\ IF r \in refs THEN UNCHANGED <<listenerAt, adding>>
                   ELSE listenerAt' = "telling" /\ adding' = r
  /\ UNCHANGED <<registryVars, known, announced, withdrawnEarly>>

TellFound ==
  /\ listenerAt = "telling" /\ listenerAt' = "adding"
  /\ known' = known \cup {adding} /\ announced' = announced \cup {adding}
  /\ adding' = NoRef
  /\ UNCHANGED <<registryVars, results, refs, withdrawnEarly>>

EndInit ==
  /\ listenerAt = "adding" /\ results = {} /\ listenerAt' = "ready"
  /\ UNCHANGED <<registryVars, results, adding, refs, known, announced, withdrawnEarly>>

-----------------------------------------------------------------------------
Owner(o) == \/ Register(o) \/ AnnounceRegistered(o) \/ TellRegistered(o)
            \/ Unregister(o) \/ AnnounceUnregistered(o) \/ TellUnregistered(o)
Listener == \/ SubscribeRegistered \/ SubscribeUnregistered \/ FindServices
            \/ (\E r \in Refs: AddFound(r)) \/ TellFound \/ EndInit
ServiceListenerNext == Listener \/ \E o \in Owners: Owner(o)
ServiceListenerSpec == ServiceListenerInit /\ [][ServiceListenerNext]_serviceVars

-----------------------------------------------------------------------------
ServiceListenerTypeOK ==
  /\ services \in [ServiceNames -> Refs \cup {NoRef}]
  /\ registrations \in [Owners -> 0..RegistrationBudget]
  /\ ownerAt \in [Owners -> OwnerPlaces]
  /\ listenerAt \in ListenerPlaces
  /\ results \subseteq Refs /\ adding \in Refs \cup {NoRef}
  /\ refs \subseteq Refs /\ known \subseteq Refs
  /\ announced \subseteq Refs /\ withdrawnEarly \subseteq Refs

\* A service that was registered while the listener was being created is found or
\* announced: when both are through, the client knows it.
NoServiceMissed ==
  \A o \in Matching:
    listenerAt = "ready" /\ ownerAt[o] = "in" => RefOf(o) \in refs \cap known

\* The client is told once of a registration, although find() and the event may
\* both have brought it (and twice of one that was withdrawn in between): neither
\* the constructor nor the owner's thread is about to tell what it was told before.
ToldOnce ==
  /\ listenerAt = "telling" /\ adding \in announced => adding \in withdrawnEarly
  /\ \A o \in Owners: ownerAt[o] = "telling" /\ RefOf(o) \in announced =>
                        RefOf(o) \in withdrawnEarly

\* What the client still takes for registered when its owner is through with
\* unregistering was withdrawn before the listener's constructor had returned.
StaleOnlyFromInit ==
  listenerAt = "ready" =>
    \A r \in known: \/ services[NameOf[r[1]]] = r \/ r \in withdrawnEarly
                    \/ r = RefOf(r[1]) /\ ownerAt[r[1]] \in {"withdrawing", "untelling"}

\* ServiceListener.h:49-50: "Correspondingly, when a matching service is
\* unregistered, the serviceUnregistered event is fired": a reference that the
\* registry no longer has is not kept by the client either.
UnregisteredIsForgotten ==
  listenerAt = "ready" /\ (\A o \in Owners: ownerAt[o] \in {"in", "out"}) =>
    \A r \in known: services[NameOf[r[1]]] = r
=============================================================================
