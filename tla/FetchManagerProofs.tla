------------------------- MODULE FetchManagerProofs -------------------------
(***************************************************************************)
(* Proofs about FetchManager, for any clients, contents and peers.         *)
(***************************************************************************)
EXTENDS FetchManager, FiniteSetTheorems, TLAPS

\* A content's fetch is the one client that is waiting for it: the map of
\* active fetches and the clients' channels agree.
OneOwner ==
  /\ \A c \in Contents : active[c] # None => Wanted[active[c]] = c /\ Phase(active[c]) \in Live
  /\ \A k \in Clients : Phase(k) \in Live => active[Wanted[k]] = k

\* LateAnswersAreIgnored alone is not kept: a fetch that ends clears the
\* requests of its content, which are its own only when it owns the content, and
\* a command answered from the store must have none.
Inv ==
  /\ TypeOK
  /\ OneOwner
  /\ LateAnswersAreIgnored
  /\ \A r \in mapped : Phase(r[1]) # "idle"

Phases == {"idle"} \cup Live \cup Answers
States == [phase : Phases, late : BOOLEAN, failed : Nat, total : Nat,
           provider : Peers \cup {None}, settled : BOOLEAN]

\* The states that the handlers write.
LEMMA StateIsTyped ==
  ASSUME NEW phase \in Phases, NEW late \in BOOLEAN
  PROVE  State(phase, late) \in States /\ State(phase, late).phase = phase
BY DEF State, States

\* A fetch that counts a failure stays live.
LEMMA CountingStaysLive ==
  ASSUME NEW f \in States, f.phase = "TryingPeers"
  PROVE  CountFailure(f) \in States /\ CountFailure(f).phase \in Live
<1>1. State("QueryingDht", f.late) \in States /\ State("QueryingDht", f.late).phase \in Live
  BY StateIsTyped DEF Phases, Live, Awaiting, States
<1>2. [f EXCEPT !.failed = @ + 1] \in States /\ [f EXCEPT !.failed = @ + 1].phase \in Live
  BY DEF States, Live, Awaiting
<1> QED
  BY <1>1, <1>2 DEF CountFailure

\* A started fetch is live.
LEMMA StartedIsLive ==
  ASSUME connected \subseteq Peers
  PROVE  Started \in States /\ Started.phase \in Live
<1>1. IsFiniteSet(connected)
  BY FS_Subset, FetchAssumption
<1>2. Cardinality(connected) \in Nat
  BY <1>1, FS_CardinalityType
<1> QED
  BY <1>2, Zenon DEF Started, State, States, Phases, Live, Awaiting

\* Initially no content is fetched.
LEMMA InitInv == Init => Inv
<1> SUFFICES ASSUME Init PROVE Inv
  OBVIOUS
<1>1. Idle \in States /\ Idle.phase = "idle"
  BY StateIsTyped, Zenon DEF Idle, Phases
<1>2. TypeOK
  BY <1>1 DEF Init, TypeOK, States, Phases
<1>3. OneOwner
  BY <1>1 DEF Init, OneOwner, Phase, Live, Awaiting
<1> QED
  BY <1>2, <1>3 DEF Init, Inv, LateAnswersAreIgnored

\* Steps that change no phase and forget no owner.
LEMMA SamePhases ==
  ASSUME Inv, TypeOK', active' = active, mapped' \subseteq mapped,
         \A k \in Clients : Phase(k)' = Phase(k)
  PROVE  Inv'
<1>1. \A r \in mapped : r[1] \in Clients
  BY DEF Inv, TypeOK, Requests
<1>2. \A c \in Contents : active[c] # None => active[c] \in Clients
  BY DEF Inv, TypeOK
<1>3. OneOwner'
  BY <1>2 DEF Inv, OneOwner
<1> QED
  BY <1>1, <1>3 DEF Inv, LateAnswersAreIgnored

\* One content's fetch k takes the state f, and ends or stays.
LEMMA FetchMoves ==
  ASSUME Inv, NEW c \in Contents, NEW k \in Clients, active[c] = k, NEW f \in States,
         fetch' = [fetch EXCEPT ![k] = f],
         \/ f.phase \in Live /\ active' = active
         \/ f.phase \in Answers /\ active' = [active EXCEPT ![c] = None],
         mapped' \subseteq mapped,
         f.phase \in {"Ok", "Timeout"} => \A r \in mapped' : ContentOf(r) # c,
         UNCHANGED connected, inflight' \subseteq Requests, stored' \subseteq Contents
  PROVE  Inv'
<1>0. k # None /\ Wanted[k] = c /\ Phase(k) \in Live
  BY FetchAssumption DEF Inv, OneOwner
<1>1. fetch \in [Clients -> States] /\ active \in [Contents -> Clients \cup {None}]
  BY DEF Inv, TypeOK, States, Phases
<1>2. Phase(k)' = f.phase /\ \A j \in Clients \ {k} : Phase(j)' = Phase(j)
  BY <1>1 DEF Phase
<1>3. TypeOK'
  BY <1>1 DEF Inv, TypeOK, States, Phases
<1>4. OneOwner'
  <2>1. ASSUME NEW d \in Contents, active'[d] # None
        PROVE  Wanted[active'[d]] = d /\ fetch'[active'[d]].phase \in Live
    <3>1. active'[d] = active[d] /\ active[d] \in Clients
      BY <1>1, <2>1
    <3>2. Wanted[active[d]] = d /\ Phase(active[d]) \in Live
      BY <2>1, <3>1 DEF Inv, OneOwner
    <3>3. CASE active[d] = k
      <4>1. d = c
        BY <1>0, <3>2, <3>3
      <4>2. active' # [active EXCEPT ![c] = None]
        BY <1>1, <2>1, <4>1
      <4>3. f.phase \in Live
        BY <4>2
      <4>4. active'[d] = k
        BY <3>1, <3>3
      <4>5. fetch'[active'[d]].phase = f.phase
        BY <1>1, <4>4
      <4> QED
        BY <3>1, <3>2, <4>3, <4>5
    <3>4. CASE active[d] # k
      <4>1. fetch'[active[d]] = fetch[active[d]]
        BY <1>1, <3>1, <3>4
      <4> QED
        BY <3>1, <3>2, <4>1 DEF Phase
    <3> QED
      BY <3>3, <3>4
  <2>2. ASSUME NEW j \in Clients, Phase(j)' \in Live
        PROVE  active'[Wanted[j]] = j
    <3>1. Wanted[j] \in Contents
      BY FetchAssumption
    <3>2. CASE j = k
      <4>1. f.phase \notin Answers
        BY <1>2, <2>2, <3>2 DEF Live, Awaiting, Answers
      <4> QED
        BY <1>0, <3>2, <4>1
    <3>3. CASE j # k
      <4>1. active[Wanted[j]] = j
        BY <1>2, <2>2, <3>3 DEF Inv, OneOwner
      <4> QED
        BY <1>1, <3>1, <3>3, <4>1
    <3> QED
      BY <3>2, <3>3
  <2> QED
    BY <2>1, <2>2 DEF OneOwner, Phase
<1>5. ASSUME NEW r \in mapped'
      PROVE  Phase(r[1])' \notin {"Ok", "Timeout", "idle"}
  <2>0. r \in mapped
    OBVIOUS
  <2>1. r[1] \in Clients /\ Phase(r[1]) \notin {"Ok", "Timeout", "idle"}
    <3>1. r[1] \in Clients
      BY <2>0 DEF Inv, TypeOK, Requests
    <3>2. Phase(r[1]) \notin {"Ok", "Timeout"} /\ Phase(r[1]) # "idle"
      BY <2>0 DEF Inv, LateAnswersAreIgnored
    <3> QED
      BY <3>1, <3>2
  <2>2. CASE r[1] = k
    <3>1. ContentOf(r) = c
      BY <1>0, <2>2 DEF ContentOf
    <3> QED
      BY <1>2, <2>2, <3>1 DEF Live, Awaiting, Answers
  <2>3. CASE r[1] # k
    BY <1>2, <2>1, <2>3
  <2> QED
    BY <2>2, <2>3
<1> QED
  BY <1>3, <1>4, <1>5 DEF Inv, LateAnswersAreIgnored
\* A command starts a fetch and takes the content over.
LEMMA StartKeeps ==
  ASSUME Inv, NEW k \in Clients, StartFetch(k)
  PROVE  Inv'
<1> DEFINE c == Wanted[k]
           sent == {k} \X connected
<1>0. c \in Contents /\ k # None
  BY FetchAssumption
<1>1. fetch \in [Clients -> States] /\ active \in [Contents -> Clients \cup {None}]
  BY DEF Inv, TypeOK, States, Phases
<1>2. /\ active' = [active EXCEPT ![c] = k] /\ mapped' = mapped \cup sent
      /\ inflight' = inflight \cup sent /\ UNCHANGED <<connected, stored>>
      /\ Phase(k) = "idle"
      /\ fetch' = [j \in Clients |-> IF j = k THEN Started
                                     ELSE IF j = active[c] THEN Answered("dropped")
                                     ELSE fetch[j]]
  BY DEF StartFetch
<1>3. Started \in States /\ Started.phase \in Live
  BY StartedIsLive DEF Inv, TypeOK
<1>4. Answered("dropped") \in States /\ Answered("dropped").phase = "dropped"
  BY StateIsTyped, Zenon DEF Answered, Phases, Answers
<1> HIDE DEF c
<1>5. fetch' \in [Clients -> States]
  BY <1>1, <1>2, <1>3, <1>4
<1>6. sent \subseteq Requests
  BY DEF Inv, TypeOK, Requests
<1>7. TypeOK'
  BY <1>0, <1>1, <1>2, <1>5, <1>6 DEF Inv, TypeOK, States, Phases
<1>8. \A j \in Clients : \/ j = k /\ Phase(j)' \in Live
                         \/ j # k /\ j = active[c] /\ Phase(j)' = "dropped"
                         \/ j # k /\ j # active[c] /\ Phase(j)' = Phase(j)
  BY <1>2, <1>3, <1>4 DEF Phase
<1>9. OneOwner'
  <2>1. ASSUME NEW d \in Contents, active'[d] # None
        PROVE  Wanted[active'[d]] = d /\ fetch'[active'[d]].phase \in Live
    <3>1. CASE d = c
      BY <1>0, <1>1, <1>2, <1>3, <3>1 DEF c
    <3>2. CASE d # c
      <4>1. active'[d] = active[d] /\ active[d] # None /\ active[d] \in Clients
        BY <1>1, <1>2, <2>1, <3>2
      <4>2. Wanted[active[d]] = d /\ Phase(active[d]) \in Live
        BY <4>1 DEF Inv, OneOwner
      <4>3. active[d] # k
        BY <1>2, <4>2 DEF Live, Awaiting
      <4>4. active[d] # active[c]
        BY <1>0, <3>2, <4>1, <4>2 DEF Inv, OneOwner
      <4>5. fetch'[active[d]] = fetch[active[d]]
        BY <1>2, <4>1, <4>3, <4>4
      <4> QED
        BY <4>1, <4>2, <4>5 DEF Phase
    <3> QED
      BY <3>1, <3>2
  <2>2. ASSUME NEW j \in Clients, Phase(j)' \in Live
        PROVE  active'[Wanted[j]] = j
    <3>1. Wanted[j] \in Contents
      BY FetchAssumption
    <3>2. CASE j = k
      BY <1>0, <1>1, <1>2, <3>2 DEF c
    <3>3. CASE j # k
      <4>1. j # active[c] /\ Phase(j) \in Live
        BY <1>8, <2>2, <3>3 DEF Live, Awaiting
      <4>2. active[Wanted[j]] = j
        BY <4>1 DEF Inv, OneOwner
      <4>3. Wanted[j] # c
        BY <4>1, <4>2
      <4> QED
        BY <1>1, <1>2, <3>1, <4>2, <4>3
    <3> QED
      BY <3>2, <3>3
  <2> QED
    BY <2>1, <2>2 DEF OneOwner, Phase
<1>10. ASSUME NEW r \in mapped'
       PROVE  Phase(r[1])' \notin {"Ok", "Timeout", "idle"}
  <2>1. CASE r \in sent
    <3>1. r[1] = k
      BY <2>1
    <3> QED
      BY <1>8, <3>1 DEF Live, Awaiting
  <2>2. CASE r \in mapped
    <3>1. r[1] \in Clients
      BY <2>2 DEF Inv, TypeOK, Requests
    <3>2. Phase(r[1]) \notin {"Ok", "Timeout"} /\ Phase(r[1]) # "idle"
      BY <2>2 DEF Inv, LateAnswersAreIgnored
    <3> QED
      BY <1>8, <3>1, <3>2 DEF Live, Awaiting
  <2> QED
    BY <1>2, <2>1, <2>2
<1> QED
  BY <1>7, <1>9, <1>10 DEF Inv, LateAnswersAreIgnored

\* A failure is counted, ends the content's fetch, or concerns nobody.
LEMMA FailureKeeps ==
  ASSUME Inv, NEW r \in Requests, RequestFailure(r),
         inflight' = inflight \ {r}, UNCHANGED <<connected, stored>>
  PROVE  Inv'
<1> DEFINE c == ContentOf(r)
           k == active[c]
<1>0. c \in Contents /\ inflight' \subseteq Requests /\ stored' \subseteq Contents
  BY FetchAssumption DEF Requests, ContentOf, Inv, TypeOK
<1>1. mapped' \subseteq mapped
  BY DEF RequestFailure
<1>2. CASE UNCHANGED <<active, fetch>>
  <2>1. TypeOK'
    BY <1>0, <1>1, <1>2 DEF Inv, TypeOK
  <2> QED
    BY <1>1, <1>2, <2>1, SamePhases DEF Phase
<1>3. ASSUME k # None, Phase(k) = "TryingPeers",
             fetch' = [fetch EXCEPT ![k] = CountFailure(fetch[k])], active' = active
      PROVE  Inv'
  <2>1. k \in Clients /\ fetch[k] \in States
    BY <1>0, <1>3 DEF Inv, TypeOK, States, Phases
  <2>2. CountFailure(fetch[k]) \in States /\ CountFailure(fetch[k]).phase \in Live
    BY <1>3, <2>1, CountingStaysLive DEF Phase
  <2>3. CountFailure(fetch[k]).phase \notin {"Ok", "Timeout"}
    BY <2>2 DEF Live, Awaiting
  <2> HIDE DEF k, c
  <2> QED
    BY <1>0, <1>1, <1>3, <2>1, <2>2, <2>3, FetchMoves, Zenon DEF k
<1>4. ASSUME k # None, fetch' = [fetch EXCEPT ![k] = Answered("ProviderNotFound")],
             active' = [active EXCEPT ![c] = None]
      PROVE  Inv'
  <2>1. k \in Clients
    BY <1>0, <1>4 DEF Inv, TypeOK
  <2>2. /\ Answered("ProviderNotFound") \in States
        /\ Answered("ProviderNotFound").phase = "ProviderNotFound"
    BY StateIsTyped, Zenon DEF Answered, Phases, Answers
  <2>3. "ProviderNotFound" \in Answers \ {"Ok", "Timeout"}
    BY DEF Answers
  <2> HIDE DEF k, c
  <2> QED
    BY <1>0, <1>1, <1>4, <2>1, <2>2, <2>3, FetchMoves, Zenon DEF k
<1> QED
  BY <1>2, <1>3, <1>4 DEF RequestFailure

\* The bytes arrive: the fetch ends and every request of the content is
\* forgotten, or nobody waited for them.
LEMMA GoodKeeps ==
  ASSUME Inv, NEW r \in Requests, GoodResponse(r)
  PROVE  Inv'
<1> DEFINE c == ContentOf(r)
           k == active[c]
<1>0. /\ c \in Contents /\ inflight' \subseteq Requests /\ connected' = connected
      /\ stored' \subseteq Contents /\ mapped' \subseteq mapped
  BY FetchAssumption DEF GoodResponse, Requests, ContentOf, Inv, TypeOK
<1>1. ASSUME k # None, fetch' = [fetch EXCEPT ![k] = Answered("Ok")],
             active' = [active EXCEPT ![c] = None], mapped' = mapped \ RequestsFor(c)
      PROVE  Inv'
  <2>1. k \in Clients
    BY <1>0, <1>1 DEF Inv, TypeOK
  <2>2. Answered("Ok") \in States /\ Answered("Ok").phase = "Ok"
    BY StateIsTyped, Zenon DEF Answered, Phases, Answers
  <2>3. \A q \in mapped' : ContentOf(q) # c
    BY <1>1 DEF RequestsFor, Inv, TypeOK
  <2>4. "Ok" \in Answers
    BY DEF Answers
  <2> HIDE DEF k, c
  <2> QED
    BY <1>0, <1>1, <2>1, <2>2, <2>3, <2>4, FetchMoves, Zenon DEF k
<1>2. CASE UNCHANGED <<fetch, active, stored>>
  <2>1. TypeOK'
    BY <1>0, <1>2 DEF Inv, TypeOK
  <2> QED
    BY <1>0, <1>2, <2>1, SamePhases DEF Phase
<1> QED
  BY <1>1, <1>2 DEF GoodResponse
\* The tick ends the fetches that are too old and asks the providers that are
\* ready.
LEMMA TickKeeps ==
  ASSUME Inv, Tick
  PROVE  Inv'
<1>1. PICK ready \in SUBSET Ready :
        /\ fetch' = [k \in Clients |-> Ticked(k, ready)]
        /\ active' = [c \in Contents |-> IF active[c] \in TimedOut THEN None ELSE active[c]]
        /\ mapped' = (mapped \ {r \in Requests : active[ContentOf(r)] \in TimedOut})
                     \cup (ready \X {Provider})
        /\ inflight' = inflight \cup (ready \X {Provider})
        /\ UNCHANGED <<connected, stored>>
  BY DEF Tick
<1>2. fetch \in [Clients -> States] /\ active \in [Contents -> Clients \cup {None}]
  BY DEF Inv, TypeOK, States, Phases
<1>3. /\ ready \subseteq Clients /\ ready \cap TimedOut = {} /\ TimedOut \subseteq Clients
      /\ \A k \in ready : Phase(k) = "WaitingForProvider"
      /\ \A k \in TimedOut : Phase(k) \in Live
  BY DEF Ready, TimedOut
<1>4. Answered("Timeout") \in States /\ Answered("Timeout").phase = "Timeout"
  BY StateIsTyped, Zenon DEF Answered, Phases, Answers
<1>5. \A k \in Clients :
        /\ State("FetchingFromProvider", fetch[k].late) \in States
        /\ State("FetchingFromProvider", fetch[k].late).phase = "FetchingFromProvider"
  <2> SUFFICES ASSUME NEW k \in Clients
               PROVE  /\ State("FetchingFromProvider", fetch[k].late) \in States
                      /\ State("FetchingFromProvider", fetch[k].late).phase = "FetchingFromProvider"
    OBVIOUS
  <2>1. fetch[k].late \in BOOLEAN /\ "FetchingFromProvider" \in Phases
    BY <1>2 DEF States, Phases, Live
  <2> QED
    BY <2>1, StateIsTyped
<1>6. fetch' \in [Clients -> States]
  BY <1>1, <1>2, <1>4, <1>5 DEF Ticked
<1>7. TypeOK'
  <2>1. ready \X {Provider} \subseteq Requests
    BY <1>3 DEF Requests
  <2>2. active' \in [Contents -> Clients \cup {None}]
    BY <1>1, <1>2
  <2> QED
    BY <1>1, <1>6, <2>1, <2>2 DEF Inv, TypeOK, States, Phases
<1>8. \A k \in Clients : \/ k \in TimedOut /\ Phase(k)' = "Timeout"
                         \/ k \in ready /\ Phase(k)' = "FetchingFromProvider"
                         \/ k \notin TimedOut \cup ready /\ Phase(k)' = Phase(k)
  BY <1>1, <1>4, <1>5 DEF Phase, Ticked
<1>9. \A k \in Clients \ TimedOut : Phase(k)' \in Live <=> Phase(k) \in Live
  BY <1>3, <1>8 DEF Live, Awaiting
<1>10. OneOwner'
  <2>1. ASSUME NEW c \in Contents, active'[c] # None
        PROVE  Wanted[active'[c]] = c /\ fetch'[active'[c]].phase \in Live
    <3>1. active'[c] = active[c] /\ active[c] \in Clients \ TimedOut
      BY <1>1, <1>2, <2>1
    <3>2. Wanted[active[c]] = c /\ Phase(active[c]) \in Live
      BY <2>1, <3>1 DEF Inv, OneOwner
    <3>3. fetch'[active[c]].phase \in Live
      BY <1>9, <3>1, <3>2 DEF Phase
    <3> QED
      BY <3>1, <3>2, <3>3
  <2>2. ASSUME NEW k \in Clients, Phase(k)' \in Live
        PROVE  active'[Wanted[k]] = k
    <3>1. k \notin TimedOut /\ Wanted[k] \in Contents
      BY <1>3, <1>8, <2>2, FetchAssumption DEF Live, Awaiting
    <3>2. active[Wanted[k]] = k
      BY <1>9, <2>2, <3>1 DEF Inv, OneOwner
    <3> QED
      BY <1>1, <3>1, <3>2
  <2> QED
    BY <2>1, <2>2 DEF OneOwner, Phase
<1>11. ASSUME NEW r \in mapped'
       PROVE  Phase(r[1])' \notin {"Ok", "Timeout", "idle"}
  <2>1. CASE r \in ready \X {Provider}
    <3>1. r[1] \in ready
      BY <2>1
    <3> QED
      BY <1>3, <1>8, <3>1
  <2>2. CASE r \in mapped /\ r \notin {q \in Requests : active[ContentOf(q)] \in TimedOut}
    <3>1. r \in Requests /\ r[1] \in Clients
      BY <2>2 DEF Inv, TypeOK, Requests
    <3>2. Phase(r[1]) \notin {"Ok", "Timeout"} /\ Phase(r[1]) # "idle"
      BY <2>2 DEF Inv, LateAnswersAreIgnored
    <3>3. r[1] \notin TimedOut
      <4> SUFFICES ASSUME r[1] \in TimedOut PROVE FALSE
        OBVIOUS
      <4>1. active[ContentOf(r)] = r[1]
        BY <1>3, <3>1 DEF Inv, OneOwner, ContentOf
      <4> QED
        BY <2>2, <3>1, <4>1
    <3> QED
      BY <1>8, <3>1, <3>2, <3>3
  <2> QED
    BY <1>1, <2>1, <2>2
<1> QED
  BY <1>7, <1>10, <1>11 DEF Inv, LateAnswersAreIgnored

\* Every step keeps the invariant.
LEMMA NextInv == Inv /\ [Next]_vars => Inv'
<1> SUFFICES ASSUME Inv, [Next]_vars PROVE Inv'
  OBVIOUS
<1>0. fetch \in [Clients -> States] /\ active \in [Contents -> Clients \cup {None}]
  BY DEF Inv, TypeOK, States, Phases
<1>1. ASSUME NEW k \in Clients, FetchLocally(k)
      PROVE  Inv'
  <2>1. Answered("Ok") \in States /\ Answered("Ok").phase = "Ok"
    BY StateIsTyped, Zenon DEF Answered, Phases, Answers
  <2>2. /\ fetch' = [fetch EXCEPT ![k] = Answered("Ok")] /\ Phase(k) = "idle"
        /\ UNCHANGED <<active, mapped, inflight, connected, stored>>
    BY <1>1 DEF FetchLocally
  <2>3. TypeOK'
    BY <1>0, <2>1, <2>2 DEF Inv, TypeOK, States, Phases
  <2>4. Phase(k)' = "Ok" /\ \A j \in Clients \ {k} : Phase(j)' = Phase(j)
    BY <1>0, <2>1, <2>2 DEF Phase
  <2>5. OneOwner'
    <3>1. \A c \in Contents : active[c] # k \/ active[c] = None
      BY <2>2 DEF Inv, OneOwner, Live, Awaiting
    <3>2. \A c \in Contents : active[c] # None => fetch'[active[c]] = fetch[active[c]]
      BY <1>0, <2>2, <3>1
    <3>3. \A j \in Clients : Phase(j)' \in Live => Phase(j) \in Live
      BY <2>4 DEF Live, Awaiting
    <3> QED
      BY <2>2, <3>2, <3>3 DEF Inv, OneOwner, Phase
  <2>6. \A r \in mapped : r[1] \in Clients /\ r[1] # k
    BY <2>2 DEF Inv, TypeOK, Requests
  <2> QED
    BY <2>2, <2>3, <2>4, <2>5, <2>6 DEF Inv, LateAnswersAreIgnored
<1>2. ASSUME NEW k \in Clients, Age(k)
      PROVE  Inv'
  <2>1. fetch' = [fetch EXCEPT ![k] = [fetch[k] EXCEPT !.late = TRUE]]
    BY <1>0, <1>2 DEF Age
  <2>2. [fetch[k] EXCEPT !.late = TRUE] \in States
    BY <1>0, Zenon DEF States
  <2>3. TypeOK'
    BY <1>0, <1>2, <2>1, <2>2 DEF Age, Inv, TypeOK, States, Phases
  <2>4. \A j \in Clients : Phase(j)' = Phase(j)
    BY <1>0, <2>1 DEF Phase, States
  <2> QED
    BY <1>2, <2>3, <2>4, SamePhases DEF Age
<1>3. ASSUME NEW r \in Requests, EmptyResponse(r)
      PROVE  Inv'
  <2>1. TypeOK'
    BY <1>3 DEF EmptyResponse, Inv, TypeOK
  <2> QED
    BY <1>3, <2>1, SamePhases DEF EmptyResponse, Phase
<1>4. ASSUME NEW r \in Requests, MismatchedResponse(r) \/ OutboundFailure(r)
      PROVE  Inv'
  BY <1>4, FailureKeeps DEF MismatchedResponse, OutboundFailure
<1>5. ASSUME NEW c \in Contents, NEW p \in Peers, ProviderDiscovered(c, p)
      PROVE  Inv'
  <2> DEFINE k == active[c]
             f == [State("WaitingForProvider", fetch[k].late) EXCEPT
                     !.provider = p, !.settled = p \in connected]
  <2>1. k \in Clients /\ fetch' = [fetch EXCEPT ![k] = f]
    BY <1>0, <1>5 DEF ProviderDiscovered
  <2>2. fetch[k].late \in BOOLEAN /\ (p \in connected) \in BOOLEAN
    BY <1>0, <2>1 DEF States
  <2>3. f \in States /\ f.phase = "WaitingForProvider"
    BY <2>2, Zenon DEF State, States, Phases, Live
  <2>4. f.phase \in Live /\ f.phase \notin {"Ok", "Timeout"}
    BY <2>3 DEF Live
  <2>5. /\ active' = active /\ mapped' \subseteq mapped /\ connected' = connected
        /\ inflight' \subseteq Requests /\ stored' \subseteq Contents
    BY <1>5 DEF ProviderDiscovered, Inv, TypeOK
  <2> HIDE DEF f, k
  <2> QED
    BY <2>1, <2>3, <2>4, <2>5, FetchMoves, Zenon DEF k
<1>6. ASSUME NEW p \in Peers, PeerConnected(p)
      PROVE  Inv'
  <2> DEFINE g(k) == fetch[k].settled \/ (Phase(k) = "WaitingForProvider" /\ fetch[k].provider = p)
  <2>1. fetch' = [k \in Clients |-> [fetch[k] EXCEPT !.settled = g(k)]]
    BY <1>6 DEF PeerConnected
  <2>2. \A k \in Clients : g(k) \in BOOLEAN
    BY <1>0 DEF States
  <2> HIDE DEF g
  <2>3. \A k \in Clients : [fetch[k] EXCEPT !.settled = g(k)] \in States
    BY <1>0, <2>2 DEF States
  <2>4. TypeOK'
    BY <1>6, <2>1, <2>3 DEF PeerConnected, Inv, TypeOK, States, Phases
  <2>5. \A k \in Clients : Phase(k)' = Phase(k)
    BY <1>0, <2>1 DEF Phase, States
  <2> QED
    BY <1>6, <2>4, <2>5, SamePhases DEF PeerConnected
<1>7. ASSUME (\E p \in Peers : PeerDisconnected(p)) \/ UNCHANGED vars
      PROVE  Inv'
  <2>1. TypeOK'
    BY <1>7 DEF PeerDisconnected, vars, Inv, TypeOK
  <2> QED
    BY <1>7, <2>1, SamePhases DEF PeerDisconnected, vars, Phase
<1> QED
  BY <1>1, <1>2, <1>3, <1>4, <1>5, <1>6, <1>7, StartKeeps, GoodKeeps, TickKeeps DEF Next

\* The invariant holds in every behaviour of the fetch manager.
THEOREM Invariance == FairSpec => []Inv
<1> QED
  BY InitInv, NextInv, PTL DEF FairSpec, Spec

\* Type correctness of the fetch manager, for any clients, contents and peers.
THEOREM TypeCorrect == FairSpec => []TypeOK
<1>1. Inv => TypeOK
  BY DEF Inv
<1> QED
  BY <1>1, Invariance, PTL

\* A content has at most one live fetch, the one in the map, and every live
\* fetch is in the map: no command waits without an entry that its timeout or an
\* answer would find (FetchManager::start_fetch, check_timeouts).
THEOREM EveryFetchHasItsEntry == FairSpec => []OneOwner
<1>1. Inv => OneOwner
  BY DEF Inv
<1> QED
  BY <1>1, Invariance, PTL

\* Once a fetch succeeded or timed out none of its requests is in the map, so
\* what still arrives is taken for nobody's (on_content_response, check_timeouts).
THEOREM EndedFetchesHaveNoRequests == FairSpec => []LateAnswersAreIgnored
<1>1. Inv => LateAnswersAreIgnored
  BY DEF Inv
<1> QED
  BY <1>1, Invariance, PTL
=============================================================================
