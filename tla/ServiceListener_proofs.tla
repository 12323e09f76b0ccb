------------------------ MODULE ServiceListener_proofs -----------------------
(***************************************************************************)
(* A listener that is created while bundles come and go misses none of     *)
(* them, and what it takes for registered wrongly was withdrawn while it   *)
(* was being created.                                                      *)
(***************************************************************************)
EXTENDS ServiceListener, TLAPS

\* The registry by itself: what has been registered is in the map until it is
\* withdrawn.
RegistryInv ==
  /\ \A o \in Owners: ownerAt[o] # "out" => registrations[o] >= 1
  /\ \A o \in Owners: ownerAt[o] \in {"announcing", "telling", "in"} =>
                        services[NameOf[o]] = RefOf(o)

\* Nobody knows a reference before it is made.
Made(r) == r[2] <= registrations[r[1]]
MadeInv ==
  /\ \A n \in ServiceNames: services[n] # NoRef => Made(services[n])
  /\ \A r \in refs \cup results \cup announced: Made(r)
  /\ adding # NoRef => Made(adding)

\* The constructor.
ConstructorInv ==
  /\ listenerAt = "telling" <=> adding # NoRef
  /\ listenerAt \notin {"adding", "telling"} => results = {}

\* The registration of an owner, from find() or from the event.
HeardInv ==
  \A o \in Owners:
    /\ ownerAt[o] = "telling" =>
         RefOf(o) \in refs /\ RefOf(o) \notin announced /\ adding # RefOf(o)
    /\ ownerAt[o] \in {"announcing", "in"} /\ RefOf(o) \in refs =>
         RefOf(o) \in known \/ adding = RefOf(o)
    /\ /\ o \in Matching /\ ownerAt[o] = "in"
       /\ listenerAt \in {"adding", "telling", "ready"}
       => RefOf(o) \in refs \cup results
    /\ /\ ownerAt[o] \in {"announcing", "in", "withdrawing"}
       /\ RefOf(o) \in announced \/ adding = RefOf(o)
       => RefOf(o) \in refs

\* Withdrawals, before and after the constructor has returned.
Current(r) == services[NameOf[r[1]]] = r
Leaving(r) == r = RefOf(r[1]) /\ ownerAt[r[1]] \in {"withdrawing", "untelling"}
WithdrawnInv ==
  /\ known \subseteq announced
  /\ \A o \in Owners: ownerAt[o] \in {"withdrawing", "untelling"} /\ listenerAt # "ready" =>
                        RefOf(o) \in withdrawnEarly
  /\ listenerAt # "ready" => announced \ refs \subseteq withdrawnEarly
  /\ adding # NoRef => adding \in refs \cup withdrawnEarly
  /\ adding \in announced => adding \in withdrawnEarly
  /\ \A r \in results: Current(r) \/ r \in withdrawnEarly
  /\ adding # NoRef => Current(adding) \/ adding \in withdrawnEarly
  /\ \A r \in known: Current(r) \/ r \in withdrawnEarly \/ Leaving(r)

IInv == /\ ServiceListenerTypeOK /\ RegistryInv /\ MadeInv /\ ConstructorInv
        /\ HeardInv /\ WithdrawnInv


-----------------------------------------------------------------------------
\* The constructor tells of a reference, an owner of one it has registered.
LEMMA TypesKept == IInv /\ ServiceListenerNext => ServiceListenerTypeOK'
<1> SUFFICES ASSUME IInv, ServiceListenerNext PROVE ServiceListenerTypeOK'
  OBVIOUS
<1>. USE ServiceListenerAssumption
     DEF IInv, ServiceListenerTypeOK, OwnerPlaces, ListenerPlaces, RefOf, Refs, NoRef,
                    registryVars, listenerVars,
                    RegistryInv, ConstructorInv
<1>1. ASSUME NEW o \in Owners, Register(o) PROVE ServiceListenerTypeOK'
  BY <1>1 DEF Register, Goes
<1>2. ASSUME NEW o \in Owners, AnnounceRegistered(o) PROVE ServiceListenerTypeOK'
  BY <1>2 DEF AnnounceRegistered, Goes, IsNews, HearsRegistered
<1>3. ASSUME NEW o \in Owners, TellRegistered(o) PROVE ServiceListenerTypeOK'
  BY <1>3 DEF TellRegistered, Goes
<1>4. ASSUME NEW o \in Owners, Unregister(o) PROVE ServiceListenerTypeOK'
  BY <1>4 DEF Unregister, Goes
<1>5. ASSUME NEW o \in Owners, AnnounceUnregistered(o) PROVE ServiceListenerTypeOK'
  BY <1>5 DEF AnnounceUnregistered, Goes, IsMissed, HearsUnregistered
<1>6. ASSUME NEW o \in Owners, TellUnregistered(o) PROVE ServiceListenerTypeOK'
  BY <1>6 DEF TellUnregistered, Goes
<1>7. ASSUME SubscribeRegistered PROVE ServiceListenerTypeOK'
  BY <1>7 DEF SubscribeRegistered
<1>8. ASSUME SubscribeUnregistered PROVE ServiceListenerTypeOK'
  BY <1>8 DEF SubscribeUnregistered
<1>9. ASSUME FindServices PROVE ServiceListenerTypeOK'
  BY <1>9 DEF FindServices
<1>10. ASSUME TellFound PROVE ServiceListenerTypeOK'
  BY <1>10 DEF TellFound
<1>11. ASSUME EndInit PROVE ServiceListenerTypeOK'
  BY <1>11 DEF EndInit
<1>12. ASSUME NEW r \in Refs, AddFound(r) PROVE ServiceListenerTypeOK'
  BY <1>12 DEF AddFound
<1>. HIDE DEF IInv, ServiceListenerTypeOK
<1>. QED
  BY <1>1, <1>2, <1>3, <1>4, <1>5, <1>6, <1>7, <1>8, <1>9, <1>10, <1>11, <1>12, Zenon
     DEF ServiceListenerNext, Owner, Listener

\* Only the owner of a name that is taken gives it free.
LEMMA RegistryKept == IInv /\ ServiceListenerNext => RegistryInv'
<1> SUFFICES ASSUME IInv, ServiceListenerNext PROVE RegistryInv'
  OBVIOUS
<1>. USE ServiceListenerAssumption
     DEF IInv, ServiceListenerTypeOK, OwnerPlaces, ListenerPlaces, RefOf, Refs, NoRef,
                    registryVars, listenerVars,
                    RegistryInv
<1>1. ASSUME NEW o \in Owners, Register(o) PROVE RegistryInv'
  BY <1>1 DEF Register, Goes
<1>2. ASSUME NEW o \in Owners, AnnounceRegistered(o) PROVE RegistryInv'
  BY <1>2 DEF AnnounceRegistered, Goes, IsNews, HearsRegistered
<1>3. ASSUME NEW o \in Owners, TellRegistered(o) PROVE RegistryInv'
  BY <1>3 DEF TellRegistered, Goes
<1>4. ASSUME NEW o \in Owners, Unregister(o) PROVE RegistryInv'
  BY <1>4 DEF Unregister, Goes
<1>5. ASSUME NEW o \in Owners, AnnounceUnregistered(o) PROVE RegistryInv'
  BY <1>5 DEF AnnounceUnregistered, Goes, IsMissed, HearsUnregistered
<1>6. ASSUME NEW o \in Owners, TellUnregistered(o) PROVE RegistryInv'
  BY <1>6 DEF TellUnregistered, Goes
<1>7. ASSUME SubscribeRegistered PROVE RegistryInv'
  BY <1>7 DEF SubscribeRegistered
<1>8. ASSUME SubscribeUnregistered PROVE RegistryInv'
  BY <1>8 DEF SubscribeUnregistered
<1>9. ASSUME FindServices PROVE RegistryInv'
  BY <1>9 DEF FindServices
<1>10. ASSUME TellFound PROVE RegistryInv'
  BY <1>10 DEF TellFound
<1>11. ASSUME EndInit PROVE RegistryInv'
  BY <1>11 DEF EndInit
<1>12. ASSUME NEW r \in Refs, AddFound(r) PROVE RegistryInv'
  BY <1>12 DEF AddFound
<1>. HIDE DEF IInv, RegistryInv
<1>. QED
  BY <1>1, <1>2, <1>3, <1>4, <1>5, <1>6, <1>7, <1>8, <1>9, <1>10, <1>11, <1>12, Zenon
     DEF ServiceListenerNext, Owner, Listener

\* A reference is made with the next number of its owner.
LEMMA MadeKept == IInv /\ ServiceListenerNext => MadeInv'
<1> SUFFICES ASSUME IInv, ServiceListenerNext PROVE MadeInv'
  OBVIOUS
<1>. USE ServiceListenerAssumption
     DEF IInv, ServiceListenerTypeOK, OwnerPlaces, ListenerPlaces, RefOf, Refs, NoRef,
                    registryVars, listenerVars,
                    RegistryInv, MadeInv, Made, ConstructorInv
<1>1. ASSUME NEW o \in Owners, Register(o) PROVE MadeInv'
  BY <1>1 DEF Register, Goes
<1>2. ASSUME NEW o \in Owners, AnnounceRegistered(o) PROVE MadeInv'
  BY <1>2 DEF AnnounceRegistered, Goes, IsNews, HearsRegistered
<1>3. ASSUME NEW o \in Owners, TellRegistered(o) PROVE MadeInv'
  BY <1>3 DEF TellRegistered, Goes
<1>4. ASSUME NEW o \in Owners, Unregister(o) PROVE MadeInv'
  BY <1>4 DEF Unregister, Goes
<1>5. ASSUME NEW o \in Owners, AnnounceUnregistered(o) PROVE MadeInv'
  BY <1>5 DEF AnnounceUnregistered, Goes, IsMissed, HearsUnregistered
<1>6. ASSUME NEW o \in Owners, TellUnregistered(o) PROVE MadeInv'
  BY <1>6 DEF TellUnregistered, Goes
<1>7. ASSUME SubscribeRegistered PROVE MadeInv'
  BY <1>7 DEF SubscribeRegistered
<1>8. ASSUME SubscribeUnregistered PROVE MadeInv'
  BY <1>8 DEF SubscribeUnregistered
<1>9. ASSUME FindServices PROVE MadeInv'
  BY <1>9 DEF FindServices
<1>10. ASSUME TellFound PROVE MadeInv'
  BY <1>10 DEF TellFound
<1>11. ASSUME EndInit PROVE MadeInv'
  BY <1>11 DEF EndInit
<1>12. ASSUME NEW r \in Refs, AddFound(r) PROVE MadeInv'
  BY <1>12 DEF AddFound
<1>. HIDE DEF IInv, MadeInv
<1>. QED
  BY <1>1, <1>2, <1>3, <1>4, <1>5, <1>6, <1>7, <1>8, <1>9, <1>10, <1>11, <1>12, Zenon
     DEF ServiceListenerNext, Owner, Listener

\* The constructor deals with one result at a time, and with all of them.
LEMMA ConstructorKept == IInv /\ ServiceListenerNext => ConstructorInv'
<1> SUFFICES ASSUME IInv, ServiceListenerNext PROVE ConstructorInv'
  OBVIOUS
<1>. USE ServiceListenerAssumption
     DEF IInv, ServiceListenerTypeOK, OwnerPlaces, ListenerPlaces, RefOf, Refs, NoRef,
                    registryVars, listenerVars,
                    ConstructorInv
<1>1. ASSUME NEW o \in Owners, Register(o) PROVE ConstructorInv'
  BY <1>1 DEF Register, Goes
<1>2. ASSUME NEW o \in Owners, AnnounceRegistered(o) PROVE ConstructorInv'
  BY <1>2 DEF AnnounceRegistered, Goes, IsNews, HearsRegistered
<1>3. ASSUME NEW o \in Owners, TellRegistered(o) PROVE ConstructorInv'
  BY <1>3 DEF TellRegistered, Goes
<1>4. ASSUME NEW o \in Owners, Unregister(o) PROVE ConstructorInv'
  BY <1>4 DEF Unregister, Goes
<1>5. ASSUME NEW o \in Owners, AnnounceUnregistered(o) PROVE ConstructorInv'
  BY <1>5 DEF AnnounceUnregistered, Goes, IsMissed, HearsUnregistered
<1>6. ASSUME NEW o \in Owners, TellUnregistered(o) PROVE ConstructorInv'
  BY <1>6 DEF TellUnregistered, Goes
<1>7. ASSUME SubscribeRegistered PROVE ConstructorInv'
  BY <1>7 DEF SubscribeRegistered
<1>8. ASSUME SubscribeUnregistered PROVE ConstructorInv'
  BY <1>8 DEF SubscribeUnregistered
<1>9. ASSUME FindServices PROVE ConstructorInv'
  BY <1>9 DEF FindServices
<1>10. ASSUME TellFound PROVE ConstructorInv'
  BY <1>10 DEF TellFound
<1>11. ASSUME EndInit PROVE ConstructorInv'
  BY <1>11 DEF EndInit
<1>12. ASSUME NEW r \in Refs, AddFound(r) PROVE ConstructorInv'
  BY <1>12 DEF AddFound
<1>. HIDE DEF IInv, ConstructorInv
<1>. QED
  BY <1>1, <1>2, <1>3, <1>4, <1>5, <1>6, <1>7, <1>8, <1>9, <1>10, <1>11, <1>12, Zenon
     DEF ServiceListenerNext, Owner, Listener

\* Whoever puts a reference into the set, the owner's event or the constructor,
\* is the one that calls the client.
LEMMA HeardKept == IInv /\ ServiceListenerNext => HeardInv'
<1> SUFFICES ASSUME IInv, ServiceListenerNext PROVE HeardInv'
  OBVIOUS
<1>. USE ServiceListenerAssumption
     DEF IInv, ServiceListenerTypeOK, OwnerPlaces, ListenerPlaces, RefOf, Refs, NoRef,
                    registryVars, listenerVars,
                    RegistryInv, MadeInv, Made, ConstructorInv, HeardInv
<1>1. ASSUME NEW o \in Owners, Register(o) PROVE HeardInv'
  BY <1>1 DEF Register, Goes
<1>2. ASSUME NEW o \in Owners, AnnounceRegistered(o) PROVE HeardInv'
  BY <1>2 DEF AnnounceRegistered, Goes, IsNews, HearsRegistered
<1>3. ASSUME NEW o \in Owners, TellRegistered(o) PROVE HeardInv'
  BY <1>3 DEF TellRegistered, Goes
<1>4. ASSUME NEW o \in Owners, Unregister(o) PROVE HeardInv'
  BY <1>4 DEF Unregister, Goes
<1>5. ASSUME NEW o \in Owners, AnnounceUnregistered(o) PROVE HeardInv'
  BY <1>5 DEF AnnounceUnregistered, Goes, IsMissed, HearsUnregistered
<1>6. ASSUME NEW o \in Owners, TellUnregistered(o) PROVE HeardInv'
  BY <1>6 DEF TellUnregistered, Goes
<1>7. ASSUME SubscribeRegistered PROVE HeardInv'
  BY <1>7 DEF SubscribeRegistered
<1>8. ASSUME SubscribeUnregistered PROVE HeardInv'
  BY <1>8 DEF SubscribeUnregistered
<1>9. ASSUME FindServices PROVE HeardInv'
  BY <1>9 DEF FindServices
<1>10. ASSUME TellFound PROVE HeardInv'
  BY <1>10 DEF TellFound
<1>11. ASSUME EndInit PROVE HeardInv'
  BY <1>11 DEF EndInit
<1>12. ASSUME NEW r \in Refs, AddFound(r) PROVE HeardInv'
  BY <1>12 DEF AddFound
<1>. HIDE DEF IInv, HeardInv
<1>. QED
  BY <1>1, <1>2, <1>3, <1>4, <1>5, <1>6, <1>7, <1>8, <1>9, <1>10, <1>11, <1>12, Zenon
     DEF ServiceListenerNext, Owner, Listener

\* Until the constructor returns, whatever is withdrawn is withdrawn early.
LEMMA WithdrawnKept == IInv /\ ServiceListenerNext => WithdrawnInv'
<1> SUFFICES ASSUME IInv, ServiceListenerNext PROVE WithdrawnInv'
  OBVIOUS
<1>. USE ServiceListenerAssumption
     DEF IInv, ServiceListenerTypeOK, OwnerPlaces, ListenerPlaces, RefOf, Refs, NoRef,
                    registryVars, listenerVars,
                    RegistryInv, MadeInv, Made, ConstructorInv, HeardInv, WithdrawnInv, Current, Leaving
<1>1. ASSUME NEW o \in Owners, Register(o) PROVE WithdrawnInv'
  BY <1>1 DEF Register, Goes
<1>2. ASSUME NEW o \in Owners, AnnounceRegistered(o) PROVE WithdrawnInv'
  BY <1>2 DEF AnnounceRegistered, Goes, IsNews, HearsRegistered
<1>3. ASSUME NEW o \in Owners, TellRegistered(o) PROVE WithdrawnInv'
  BY <1>3 DEF TellRegistered, Goes
<1>4. ASSUME NEW o \in Owners, Unregister(o) PROVE WithdrawnInv'
  BY <1>4 DEF Unregister, Goes
<1>5. ASSUME NEW o \in Owners, AnnounceUnregistered(o) PROVE WithdrawnInv'
  BY <1>5 DEF AnnounceUnregistered, Goes, IsMissed, HearsUnregistered
<1>6. ASSUME NEW o \in Owners, TellUnregistered(o) PROVE WithdrawnInv'
  BY <1>6 DEF TellUnregistered, Goes
<1>7. ASSUME SubscribeRegistered PROVE WithdrawnInv'
  BY <1>7 DEF SubscribeRegistered
<1>8. ASSUME SubscribeUnregistered PROVE WithdrawnInv'
  BY <1>8 DEF SubscribeUnregistered
<1>9. ASSUME FindServices PROVE WithdrawnInv'
  BY <1>9 DEF FindServices
<1>10. ASSUME TellFound PROVE WithdrawnInv'
  BY <1>10 DEF TellFound
<1>11. ASSUME EndInit PROVE WithdrawnInv'
  BY <1>11 DEF EndInit
<1>12. ASSUME NEW r \in Refs, AddFound(r) PROVE WithdrawnInv'
  BY <1>12 DEF AddFound
<1>. HIDE DEF IInv, WithdrawnInv
<1>. QED
  BY <1>1, <1>2, <1>3, <1>4, <1>5, <1>6, <1>7, <1>8, <1>9, <1>10, <1>11, <1>12, Zenon
     DEF ServiceListenerNext, Owner, Listener

LEMMA Start == ServiceListenerInit => IInv
BY ServiceListenerAssumption
   DEF ServiceListenerInit, IInv, ServiceListenerTypeOK, RegistryInv, MadeInv, ConstructorInv,
       HeardInv, WithdrawnInv, Refs, OwnerPlaces, ListenerPlaces

LEMMA Stutter == IInv /\ UNCHANGED serviceVars => IInv'
BY DEF IInv, ServiceListenerTypeOK, RegistryInv, MadeInv, Made, ConstructorInv, HeardInv,
       WithdrawnInv, Current, Leaving, RefOf, serviceVars, registryVars, listenerVars

LEMMA Invariance == ServiceListenerSpec => []IInv
<1>1. IInv /\ [ServiceListenerNext]_serviceVars => IInv'
  BY TypesKept, RegistryKept, MadeKept, ConstructorKept, HeardKept, WithdrawnKept, Stutter, Zenon
     DEF IInv
<1>. QED BY Start, <1>1, PTL DEF ServiceListenerSpec

-----------------------------------------------------------------------------
\* The types.
THEOREM ServiceListenerTypes == ServiceListenerSpec => []ServiceListenerTypeOK
BY Invariance, PTL DEF IInv

\* Whatever bundles do while ServiceListener::init runs: when it is through and a
\* bundle is, too, the client knows its service.
THEOREM NothingMissed == ServiceListenerSpec => []NoServiceMissed
<1>1. IInv => NoServiceMissed
  BY ServiceListenerAssumption
     DEF IInv, ServiceListenerTypeOK, RegistryInv, ConstructorInv, HeardInv, NoServiceMissed
<1>. QED BY Invariance, <1>1, PTL

\* Only a withdrawal during init can leave the client with a stale reference.
THEOREM StaleFromInitOnly == ServiceListenerSpec => []StaleOnlyFromInit
<1>1. IInv => StaleOnlyFromInit
  BY DEF IInv, WithdrawnInv, Current, Leaving, StaleOnlyFromInit
<1>. QED BY Invariance, <1>1, PTL

\* The client is told of a registration once, by the event or by init.
THEOREM ToldOnceOnly == ServiceListenerSpec => []ToldOnce
<1>1. IInv => ToldOnce
  BY DEF IInv, HeardInv, WithdrawnInv, ToldOnce
<1>. QED BY Invariance, <1>1, PTL
=============================================================================
