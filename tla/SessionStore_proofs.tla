------------------------ MODULE SessionStore_proofs ------------------------
(***************************************************************************)
(* Proofs about SessionStore for any number of requests, sessions and      *)
(* models.  IInv strengthens the three checked invariants with who may     *)
(* hold which SessionState object (Ownership), which objects exist yet     *)
(* (Allocation) and how recent the scopes are that a question can still    *)
(* reach (Recency).                                                        *)
(***************************************************************************)
EXTENDS SessionStore, TLAPS

\* A handler that has started holds an object, and only questions about a
\* model get as far as the pipeline.
Started ==
    \A r \in Requests :
        /\ pc[r] # "sent" => held[r] \in Object
        /\ pc[r] \in {"bound", "saving"} => call[r].kind = "question" /\ call[r].model \in Models

TypeInv == TypeOK /\ Started

SessionOf(o) == call[o[1]].session

\* o has been handed out by get_or_create or stored by a reset.
Allocated(o) ==
    \/ o[2] = "created" /\ pc[o[1]] # "sent"
    \/ o[2] = "fresh" /\ o[1] \in resets

Allocation ==
    /\ \A r \in resets : pc[r] = "done"
    /\ \A o \in Object : heap[o] # NoScope => Allocated(o) /\ pc[heap[o].from] # "sent"
    /\ \A s \in Sessions : store[s] # NoObject => Allocated(store[s])
    /\ \A r \in Requests : pc[r] # "sent" => Allocated(held[r])
    /\ \A r \in Requests : previous[r] # NoScope => pc[r] # "sent" /\ pc[previous[r].from] # "sent"

Ownership ==
    /\ \A o \in Object : heap[o] # NoScope => call[heap[o].from].session = SessionOf(o)
    /\ \A s \in Sessions : store[s] # NoObject => SessionOf(store[s]) = s
    /\ \A r \in Requests : pc[r] # "sent" => SessionOf(held[r]) = call[r].session

\* The scope in object o is from after every quiet reset of its session.
Current(o) ==
    heap[o] # NoScope => quiet \cap InSession(SessionOf(o)) \subseteq born[heap[o].from]

BornAfter == \A r \in Requests : born[r] \subseteq resets \cap InSession(call[r].session)

StoredCurrent == \A s \in Sessions : store[s] # NoObject => Current(store[s])

HeldCurrent ==
    \A s \in Sessions, r \in Requests : r \in Answering(s) =>
        Current(held[r]) /\ quiet \cap InSession(s) \subseteq born[r]

Recency == BornAfter /\ StoredCurrent /\ HeldCurrent

IInv == TypeInv /\ Allocation /\ Ownership /\ Recency
        /\ FollowUpOwnModel /\ FollowUpOwnSession /\ QuietResetIsFinal

-----------------------------------------------------------------------------
\* An object and its two fields.
LEMMA ObjectFields ==
    ASSUME NEW r \in Requests, NEW k \in {"created", "fresh"}
    PROVE  <<r, k>> \in Object /\ <<r, k>>[1] = r /\ <<r, k>>[2] = k
  BY DEF Object

\* The history of resets is consistent with the handlers in the initial state.
LEMMA InitInv == Init => IInv
<1> SUFFICES ASSUME Init PROVE IInv
  OBVIOUS
<1>1. TypeInv
  BY DEF Init, TypeInv, TypeOK, Started
<1>2. Allocation /\ Ownership /\ Recency
  BY DEF Init, Allocation, Ownership, Recency, BornAfter, StoredCurrent, HeldCurrent,
         Answering, InSession
<1>3. FollowUpOwnModel /\ FollowUpOwnSession /\ QuietResetIsFinal
  BY DEF Init, FollowUpOwnModel, FollowUpOwnSession, QuietResetIsFinal
<1> QED
  BY <1>1, <1>2, <1>3 DEF IInv

\* Every step keeps every variable in its set.
LEMMA TypeStep == TypeInv /\ [Next]_vars => TypeInv'
<1> SUFFICES ASSUME TypeInv, [Next]_vars PROVE TypeInv'
  OBVIOUS
<1> USE DEF TypeInv, TypeOK, Started
<1>a. \A r \in Requests : call[r].session \in Sessions /\ call[r].model \in Models \cup {NoModel}
  BY DEF Call
<1>1. ASSUME NEW r \in Requests, GetOrCreate(r) PROVE TypeInv'
  <2>1. StateOf(r) \in Object
    <3>1. <<r, "created">> \in Object
      BY ObjectFields
    <3>2. store[call[r].session] \in Object \cup {NoObject}
      BY <1>a
    <3> QED
      BY <3>1, <3>2 DEF StateOf
  <2> QED
    BY <1>1, <1>a, <2>1 DEF GetOrCreate, InSession
<1>2. ASSUME NEW r \in Requests, HandleReset(r) \/ HandleConfirmation(r) PROVE TypeInv'
  <2>1. <<r, "fresh">> \in Object
    BY ObjectFields
  <2> QED
    BY <1>2, <1>a, <2>1 DEF HandleReset, HandleConfirmation, StoreFresh, RecordReset
<1>3. ASSUME NEW r \in Requests, ConfirmUnknownModel(r) \/ AnswerCatalog(r) \/ FailQuestion(r)
      PROVE TypeInv'
  BY <1>3 DEF ConfirmUnknownModel, AnswerCatalog, FailQuestion, history
<1>4. ASSUME NEW r \in Requests, BindQuestion(r) PROVE TypeInv'
  <2>1. Inherited(r) \in Scope \cup {NoScope}
    BY <1>4 DEF Inherited, BindQuestion
  <2> QED
    BY <1>4, <1>a, <2>1 DEF BindQuestion, history
<1>5. ASSUME NEW r \in Requests, WriteScope(r) PROVE TypeInv'
  <2>1. NextScope(r) \subseteq Scope \cup {NoScope}
    BY <1>5, <1>a DEF NextScope, WriteScope, Scope
  <2> QED
    BY <1>5, <2>1 DEF WriteScope, history
<1>6. ASSUME NEW r \in Requests, Save(r) PROVE TypeInv'
  BY <1>6, <1>a DEF Save, history
<1>7. CASE UNCHANGED vars
  BY <1>7 DEF vars
<1> QED
  BY <1>1, <1>2, <1>3, <1>4, <1>5, <1>6, <1>7 DEF Next, Handle, AllAnswered

\* What the actions rely on in every state: the request's session, the object
\* it holds, the objects it may allocate.
LEMMA HandlerFacts ==
    ASSUME TypeInv, NEW r \in Requests
    PROVE  /\ call[r].session \in Sessions
           /\ call[r].model \in Models \cup {NoModel}
           /\ pc[r] # "sent" => held[r] \in Object /\ held[r] # NoObject
           /\ <<r, "fresh">> # NoObject /\ <<r, "created">> # NoObject
  BY ConstantsDistinct DEF TypeInv, TypeOK, Started, Call, Object

\* Objects exist before they are stored, held or written.
LEMMA AllocationStep == TypeInv /\ Allocation /\ [Next]_vars => Allocation'
<1> SUFFICES ASSUME TypeInv, Allocation, [Next]_vars PROVE Allocation'
  OBVIOUS
<1> USE DEF Allocation
<1>a. \A r \in Requests : pc[r] \in {"sent", "fetched", "bound", "saving", "done"}
  BY DEF TypeInv, TypeOK
<1>b. /\ DOMAIN pc = Requests /\ DOMAIN held = Requests /\ DOMAIN previous = Requests
      /\ DOMAIN heap = Object /\ DOMAIN store = Sessions
  BY DEF TypeInv, TypeOK
<1>c. \A o \in Object : o[1] \in Requests
  BY DEF Object
<1>d. \A o \in Object : heap[o] # NoScope => heap[o].from \in Requests
  BY DEF TypeInv, TypeOK, Scope
<1>e. \A r \in Requests : previous[r] # NoScope => previous[r].from \in Requests
  BY DEF TypeInv, TypeOK, Scope
<1>f. \A s \in Sessions : store[s] # NoObject => store[s] \in Object
  BY DEF TypeInv, TypeOK
<1>g. \A r \in Requests : pc[r] # "sent" => held[r] \in Object
  BY DEF TypeInv, Started
<1>1. ASSUME NEW r \in Requests, GetOrCreate(r) PROVE Allocation'
  <2>0. /\ pc[r] = "sent" /\ pc' = [pc EXCEPT ![r] = "fetched"]
        /\ store' = [store EXCEPT ![call[r].session] = StateOf(r)]
        /\ held' = [held EXCEPT ![r] = StateOf(r)]
        /\ heap' = heap /\ previous' = previous /\ resets' = resets
    BY <1>1 DEF GetOrCreate
  <2>1. \A o \in Object : Allocated(o) => Allocated(o)'
    BY <2>0, <1>b, <1>c DEF Allocated
  <2>2. PICK obj \in Object : obj = StateOf(r) /\ Allocated(obj)'
    <3>1. <<r, "created">> \in Object /\ Allocated(<<r, "created">>)'
      BY <2>0, <1>b, ObjectFields DEF Allocated
    <3>2. call[r].session \in Sessions
      BY HandlerFacts
    <3>3. ASSUME store[call[r].session] # NoObject
          PROVE  store[call[r].session] \in Object /\ Allocated(store[call[r].session])
      BY <3>2, <3>3, <1>f
    <3> QED
      BY <3>1, <3>3, <2>1 DEF StateOf
  <2>3. \A q \in Requests : pc[q] # "sent" => pc'[q] # "sent"
    BY <2>0, <1>b
  <2>4. r \notin resets
    BY <2>0
  <2>5. \A o \in Object : heap'[o] # NoScope => Allocated(o)' /\ pc'[heap'[o].from] # "sent"
    BY <2>0, <2>1, <2>3, <1>d
  <2>6. \A s \in Sessions : store'[s] # NoObject => Allocated(store[s])'
    BY <2>0, <2>1, <2>2, <1>b, <1>f
  <2>7. \A q \in Requests : pc'[q] # "sent" => Allocated(held[q])'
    BY <2>0, <2>1, <2>2, <1>b, <1>g
  <2>8. \A q \in resets' : pc'[q] = "done"
    BY <2>0, <2>4, <1>b
  <2> QED
    BY <2>0, <2>3, <2>5, <2>6, <2>7, <2>8, <1>e
<1>2. ASSUME NEW r \in Requests, HandleReset(r) \/ HandleConfirmation(r) PROVE Allocation'
  <2>0. /\ pc[r] = "fetched" /\ pc' = [pc EXCEPT ![r] = "done"]
        /\ store' = [store EXCEPT ![call[r].session] = <<r, "fresh">>]
        /\ resets' = resets \cup {r}
        /\ heap' = heap /\ previous' = previous /\ held' = held
    BY <1>2 DEF HandleReset, HandleConfirmation, StoreFresh, RecordReset
  <2>1. \A o \in Object : Allocated(o) => Allocated(o)'
    BY <2>0, <1>b, <1>c DEF Allocated
  <2>2. <<r, "fresh">> \in Object /\ Allocated(<<r, "fresh">>)'
    BY <2>0, ObjectFields DEF Allocated
  <2>3. \A q \in Requests : (pc'[q] # "sent") = (pc[q] # "sent")
    BY <2>0, <1>b
  <2> QED
    BY <2>0, <2>1, <2>2, <2>3, <1>b, <1>d, <1>e, <1>f, <1>g
<1>3. ASSUME NEW r \in Requests, ConfirmUnknownModel(r) \/ AnswerCatalog(r) \/ FailQuestion(r)
      PROVE Allocation'
  <2>0. /\ pc[r] # "sent" /\ pc' = [pc EXCEPT ![r] = "done"]
        /\ UNCHANGED <<store, heap, held, previous, resets>>
    BY <1>3, <1>a DEF ConfirmUnknownModel, AnswerCatalog, FailQuestion, history
  <2>1. \A q \in Requests : (pc'[q] # "sent") = (pc[q] # "sent")
    BY <2>0, <1>b
  <2>2. \A o \in Object : Allocated(o) => Allocated(o)'
    BY <2>0, <2>1, <1>c DEF Allocated
  <2> QED
    BY <2>0, <2>1, <2>2, <1>b, <1>d, <1>e, <1>f, <1>g
<1>4. ASSUME NEW r \in Requests, BindQuestion(r) PROVE Allocation'
  <2>0. /\ pc[r] = "fetched" /\ pc' = [pc EXCEPT ![r] = "bound"]
        /\ previous' = [previous EXCEPT ![r] = Inherited(r)]
        /\ UNCHANGED <<store, heap, held, resets>>
    BY <1>4 DEF BindQuestion, history
  <2>1. \A q \in Requests : (pc'[q] # "sent") = (pc[q] # "sent")
    BY <2>0, <1>b
  <2>2. \A o \in Object : Allocated(o) => Allocated(o)'
    BY <2>0, <2>1, <1>c DEF Allocated
  <2>3. Inherited(r) # NoScope =>
           Inherited(r).from \in Requests /\ pc[Inherited(r).from] # "sent"
    BY <2>0, <1>d, <1>g DEF Inherited
  <2> QED
    BY <2>0, <2>1, <2>2, <2>3, <1>b, <1>d, <1>e, <1>f, <1>g
<1>5. ASSUME NEW r \in Requests, WriteScope(r) PROVE Allocation'
  <2>0. /\ pc[r] = "bound" /\ pc' = [pc EXCEPT ![r] = "saving"]
        /\ UNCHANGED <<store, held, previous, resets>>
    BY <1>5 DEF WriteScope, history
  <2>1. \A q \in Requests : (pc'[q] # "sent") = (pc[q] # "sent")
    BY <2>0, <1>b
  <2>2. \A o \in Object : Allocated(o) => Allocated(o)'
    BY <2>0, <2>1, <1>c DEF Allocated
  <2>3. PICK scope \in NextScope(r) : heap' = [heap EXCEPT ![held[r]] = scope]
    BY <1>5 DEF WriteScope
  <2>4. scope # NoScope => scope.from = r
    BY DEF NextScope
  <2>5. \A o \in Object : heap'[o] # NoScope =>
            Allocated(o)' /\ heap'[o].from \in Requests /\ pc'[heap'[o].from] # "sent"
    BY <2>0, <2>1, <2>2, <2>3, <2>4, <1>b, <1>d, <1>g
  <2> QED
    BY <2>0, <2>1, <2>2, <2>5, <1>b, <1>e, <1>f, <1>g
<1>6. ASSUME NEW r \in Requests, Save(r) PROVE Allocation'
  <2>0. /\ pc[r] = "saving" /\ pc' = [pc EXCEPT ![r] = "done"]
        /\ store' = [store EXCEPT ![call[r].session] = held[r]]
        /\ UNCHANGED <<heap, held, previous, resets>>
    BY <1>6 DEF Save, history
  <2>1. \A q \in Requests : (pc'[q] # "sent") = (pc[q] # "sent")
    BY <2>0, <1>b
  <2>2. \A o \in Object : Allocated(o) => Allocated(o)'
    BY <2>0, <2>1, <1>c DEF Allocated
  <2> QED
    BY <2>0, <2>1, <2>2, <1>b, <1>d, <1>e, <1>f, <1>g
<1>7. CASE UNCHANGED vars
  <2>1. UNCHANGED <<store, heap, pc, held, previous, resets>>
    BY <1>7 DEF vars
  <2> QED
    BY <2>1 DEF Allocated
<1> QED
  BY <1>1, <1>2, <1>3, <1>4, <1>5, <1>6, <1>7 DEF Next, Handle, AllAnswered

\* An object stays with the session of the request that allocated it, and only
\* scopes of that session are written to it.
LEMMA OwnershipStep == TypeInv /\ Ownership /\ [Next]_vars => Ownership'
<1> SUFFICES ASSUME TypeInv, Ownership, [Next]_vars PROVE Ownership'
  OBVIOUS
<1> USE DEF Ownership, SessionOf
<1>b. /\ DOMAIN pc = Requests /\ DOMAIN held = Requests
      /\ DOMAIN heap = Object /\ DOMAIN store = Sessions
  BY DEF TypeInv, TypeOK
<1>g. \A r \in Requests : pc[r] # "sent" => held[r] \in Object
  BY DEF TypeInv, Started
<1>1. ASSUME NEW r \in Requests, GetOrCreate(r) PROVE Ownership'
  <2>0. /\ pc' = [pc EXCEPT ![r] = "fetched"]
        /\ store' = [store EXCEPT ![call[r].session] = StateOf(r)]
        /\ held' = [held EXCEPT ![r] = StateOf(r)]
        /\ heap' = heap /\ call' = call
    BY <1>1 DEF GetOrCreate
  <2>1. call[StateOf(r)[1]].session = call[r].session
    <3>1. call[r].session \in Sessions
      BY HandlerFacts
    <3>2. call[<<r, "created">>[1]].session = call[r].session
      OBVIOUS
    <3> QED
      BY <3>1, <3>2 DEF StateOf
  <2> QED
    BY <2>0, <2>1, <1>b
<1>2. ASSUME NEW r \in Requests, HandleReset(r) \/ HandleConfirmation(r) PROVE Ownership'
  <2>0. /\ pc[r] = "fetched" /\ pc' = [pc EXCEPT ![r] = "done"]
        /\ store' = [store EXCEPT ![call[r].session] = <<r, "fresh">>]
        /\ heap' = heap /\ held' = held /\ call' = call
    BY <1>2 DEF HandleReset, HandleConfirmation, StoreFresh
  <2>1. call[<<r, "fresh">>[1]].session = call[r].session
    OBVIOUS
  <2> QED
    BY <2>0, <2>1, <1>b
<1>3. ASSUME NEW r \in Requests,
             ConfirmUnknownModel(r) \/ AnswerCatalog(r) \/ BindQuestion(r) \/ FailQuestion(r)
      PROVE Ownership'
  <2>0. /\ pc[r] # "sent" /\ UNCHANGED <<store, heap, held, call>>
        /\ \A q \in Requests : pc'[q] # "sent" => pc[q] # "sent"
    BY <1>3, <1>b DEF ConfirmUnknownModel, AnswerCatalog, BindQuestion, FailQuestion, history
  <2> QED
    BY <2>0
<1>5. ASSUME NEW r \in Requests, WriteScope(r) PROVE Ownership'
  <2>0. /\ pc[r] = "bound" /\ pc' = [pc EXCEPT ![r] = "saving"]
        /\ UNCHANGED <<store, held, call>>
    BY <1>5 DEF WriteScope, history
  <2>1. PICK scope \in NextScope(r) : heap' = [heap EXCEPT ![held[r]] = scope]
    BY <1>5 DEF WriteScope
  <2>2. scope # NoScope => scope.from = r
    BY DEF NextScope
  <2>3. call[held[r][1]].session = call[r].session
    BY <2>0
  <2>4. \A o \in Object : heap'[o] # NoScope => call[heap'[o].from].session = call[o[1]].session
    BY <2>1, <2>2, <2>3, <1>b
  <2> QED
    BY <2>0, <2>4, <1>b
<1>6. ASSUME NEW r \in Requests, Save(r) PROVE Ownership'
  <2>0. /\ pc[r] = "saving" /\ pc' = [pc EXCEPT ![r] = "done"]
        /\ store' = [store EXCEPT ![call[r].session] = held[r]]
        /\ UNCHANGED <<heap, held, call>>
    BY <1>6 DEF Save, history
  <2> QED
    BY <2>0, <1>b
<1>7. CASE UNCHANGED vars
  BY <1>7 DEF vars
<1> QED
  BY <1>1, <1>2, <1>3, <1>5, <1>6, <1>7 DEF Next, Handle, AllAnswered

\* The scope a question is given belongs to its model, to its session, and is
\* as recent as the session's quiet resets.
LEMMA FollowUpStep ==
    ASSUME TypeInv, Ownership, Recency, Allocation, [Next]_vars,
           FollowUpOwnModel, FollowUpOwnSession, QuietResetIsFinal
    PROVE  FollowUpOwnModel' /\ FollowUpOwnSession' /\ QuietResetIsFinal'
<1> USE DEF FollowUpOwnModel, FollowUpOwnSession, QuietResetIsFinal
<1>b. /\ DOMAIN previous = Requests /\ DOMAIN born = Requests
      /\ \A r \in Requests : previous[r] # NoScope => previous[r].from \in Requests
  BY DEF TypeInv, TypeOK, Scope
<1>1. ASSUME NEW r \in Requests, GetOrCreate(r)
      PROVE FollowUpOwnModel' /\ FollowUpOwnSession' /\ QuietResetIsFinal'
  <2>0. /\ pc[r] = "sent" /\ UNCHANGED <<previous, call, quiet>>
        /\ \A q \in Requests : q # r => born'[q] = born[q]
    BY <1>1, <1>b DEF GetOrCreate
  <2>1. \A q \in Requests : previous[q] # NoScope => q # r /\ previous[q].from # r
    BY <2>0 DEF Allocation
  <2> QED
    BY <2>0, <2>1, <1>b
<1>2. ASSUME NEW r \in Requests, HandleReset(r) \/ HandleConfirmation(r)
      PROVE FollowUpOwnModel' /\ FollowUpOwnSession' /\ QuietResetIsFinal'
  <2>0. /\ pc[r] = "fetched" /\ UNCHANGED <<previous, call, born>>
        /\ quiet' \subseteq quiet \cup {r}
    BY <1>2 DEF HandleReset, HandleConfirmation, RecordReset
  <2>1. \A q \in Requests : r \notin born[q]
    BY <2>0 DEF Recency, BornAfter, StoredCurrent, HeldCurrent, Allocation
  <2> QED
    BY <2>0, <2>1, <1>b
<1>4. ASSUME NEW r \in Requests, BindQuestion(r)
      PROVE FollowUpOwnModel' /\ FollowUpOwnSession' /\ QuietResetIsFinal'
  <2>0. /\ pc[r] = "fetched" /\ previous' = [previous EXCEPT ![r] = Inherited(r)]
        /\ UNCHANGED <<call, born, quiet>>
    BY <1>4 DEF BindQuestion, history
  <2>1. /\ Inherited(r) # NoScope => /\ Inherited(r) = heap[held[r]]
                                     /\ Inherited(r).model = call[r].model
    BY DEF Inherited, MatchesModel
  <2>2. held[r] \in Object /\ SessionOf(held[r]) = call[r].session
    BY <2>0, HandlerFacts DEF Ownership
  <2>3. Inherited(r) # NoScope => call[Inherited(r).from].session = call[r].session
    BY <2>1, <2>2 DEF Ownership
  <2>4. Inherited(r) # NoScope => born[r] \cap quiet \subseteq born[Inherited(r).from]
    <3>1. call[r].session \in Sessions /\ r \in Answering(call[r].session)
      BY <1>4, HandlerFacts DEF BindQuestion, Answering, InSession
    <3>2. Current(held[r])
      BY <3>1 DEF Recency, BornAfter, StoredCurrent, HeldCurrent
    <3>3. born[r] \subseteq InSession(SessionOf(held[r]))
      BY <2>2 DEF Recency, BornAfter, StoredCurrent, HeldCurrent
    <3> QED
      BY <2>1, <3>2, <3>3 DEF Current
  <2> QED
    BY <2>0, <2>1, <2>3, <2>4, <1>b
<1>5. ASSUME NEW r \in Requests,
             \/ ConfirmUnknownModel(r) \/ AnswerCatalog(r) \/ FailQuestion(r)
             \/ WriteScope(r) \/ Save(r)
      PROVE FollowUpOwnModel' /\ FollowUpOwnSession' /\ QuietResetIsFinal'
  <2>0. UNCHANGED <<previous, call, born, quiet>>
    BY <1>5 DEF ConfirmUnknownModel, AnswerCatalog, FailQuestion, WriteScope, Save, history
  <2> QED
    BY <2>0
<1>7. CASE UNCHANGED vars
  BY <1>7 DEF vars
<1> QED
  BY <1>1, <1>2, <1>4, <1>5, <1>7 DEF Next, Handle, AllAnswered

\* A scope that a question can still reach is at least as recent as the quiet
\* resets of its session: a reset made while nothing is being answered leaves a
\* fresh object, and every later question starts after it.
LEMMA RecencyStep ==
    ASSUME TypeInv, Allocation, Ownership, Recency, [Next]_vars
    PROVE  Recency'
<1>b. /\ DOMAIN pc = Requests /\ DOMAIN held = Requests /\ DOMAIN born = Requests
      /\ DOMAIN heap = Object /\ DOMAIN store = Sessions /\ quiet \subseteq resets
      /\ \A s \in Sessions : store[s] # NoObject => store[s] \in Object
  BY DEF TypeInv, TypeOK
<1>d. \A o \in Object : heap[o] # NoScope => heap[o].from \in Requests
  BY DEF TypeInv, TypeOK, Scope
<1>k. \A r \in Requests, s \in Sessions : r \in Answering(s) =>
          call[r].session = s /\ held[r] \in Object /\ SessionOf(held[r]) = s
  BY DEF Answering, InSession, Ownership, TypeInv, Started
<1>1. ASSUME NEW r \in Requests, GetOrCreate(r) PROVE Recency'
  <2>0. /\ pc[r] = "sent" /\ pc' = [pc EXCEPT ![r] = "fetched"]
        /\ store' = [store EXCEPT ![call[r].session] = StateOf(r)]
        /\ held' = [held EXCEPT ![r] = StateOf(r)]
        /\ born' = [born EXCEPT ![r] = resets \cap InSession(call[r].session)]
        /\ heap' = heap /\ call' = call /\ quiet' = quiet /\ resets' = resets
    BY <1>1 DEF GetOrCreate
  <2>1. PICK o \in Object : o = StateOf(r) /\ Current(o)
    <3>1. <<r, "created">> \in Object /\ Current(<<r, "created">>)
      BY <2>0, ObjectFields DEF Current, Allocation, Allocated
    <3>2. call[r].session \in Sessions
      BY HandlerFacts
    <3>3. ASSUME store[call[r].session] # NoObject
          PROVE  store[call[r].session] \in Object /\ Current(store[call[r].session])
      BY <3>2, <3>3, <1>b DEF Recency, BornAfter, StoredCurrent, HeldCurrent
    <3> QED
      BY <3>1, <3>3 DEF StateOf
  <2>2. \A p \in Object : Current(p) => Current(p)'
    <3>1. \A p \in Object : heap[p] # NoScope => heap[p].from # r
      BY <2>0 DEF Allocation
    <3> QED
      BY <2>0, <3>1, <1>b, <1>d DEF Current, InSession, SessionOf
  <2>3. \A s \in Sessions : InSession(s)' = InSession(s)
    BY <2>0 DEF InSession
  <2>4. \A q \in Requests : born'[q] \subseteq resets \cap InSession(call[q].session)
    BY <2>0, <1>b DEF Recency, BornAfter, StoredCurrent, HeldCurrent
  <2>5. \A s \in Sessions : store'[s] # NoObject => Current(store[s])'
    BY <2>0, <2>1, <2>2, <1>b DEF Recency, BornAfter, StoredCurrent, HeldCurrent
  <2>6. \A s \in Sessions, q \in Requests : q \in Answering(s)' =>
            Current(held[q])' /\ quiet \cap InSession(s) \subseteq born'[q]
    <3> SUFFICES ASSUME NEW s \in Sessions, NEW q \in Requests, q \in Answering(s)'
                 PROVE  Current(held[q])' /\ quiet \cap InSession(s) \subseteq born'[q]
      OBVIOUS
    <3>1. CASE q = r
      <4>1. held'[q] = o /\ Current(o)'
        BY <3>1, <2>0, <2>1, <2>2, <1>b
      <4>2. call[r].session = s
        BY <3>1, <2>0 DEF Answering, InSession
      <4> QED
        BY <3>1, <4>1, <4>2, <2>0, <1>b
    <3>2. CASE q # r
      <4>1. q \in Answering(s) /\ held'[q] = held[q] /\ born'[q] = born[q]
        BY <3>2, <2>0, <1>b DEF Answering, InSession
      <4> QED
        BY <4>1, <2>2, <1>k DEF Recency, BornAfter, StoredCurrent, HeldCurrent
    <3> QED
      BY <3>1, <3>2
  <2> QED
    BY <2>0, <2>3, <2>4, <2>5, <2>6 DEF Recency, BornAfter, StoredCurrent, HeldCurrent, Answering, InSession
<1>2. ASSUME NEW r \in Requests, HandleReset(r) \/ HandleConfirmation(r) PROVE Recency'
  <2>0. /\ pc[r] = "fetched" /\ pc' = [pc EXCEPT ![r] = "done"] /\ call[r].kind # "question"
        /\ store' = [store EXCEPT ![call[r].session] = <<r, "fresh">>]
        /\ resets' = resets \cup {r}
        /\ quiet' = IF Answering(call[r].session) = {} THEN quiet \cup {r} ELSE quiet
        /\ UNCHANGED <<heap, held, call, born>>
    BY <1>2 DEF HandleReset, HandleConfirmation, StoreFresh, RecordReset
  <2>1. \A s \in Sessions : InSession(s)' = InSession(s) /\ Answering(s)' = Answering(s)
    BY <2>0, <1>b DEF InSession, Answering
  <2>2. \A p \in Object : SessionOf(p) # call[r].session /\ Current(p) => Current(p)'
    BY <2>0 DEF Current, SessionOf, InSession
  <2>3. heap[<<r, "fresh">>] = NoScope
    <3>1. r \notin resets
      BY <2>0 DEF Allocation
    <3>2. ~Allocated(<<r, "fresh">>)
      BY <3>1, ObjectFields DEF Allocated
    <3> QED
      BY <3>2, ObjectFields DEF Allocation
  <2>4. \A s \in Sessions : store'[s] # NoObject => Current(store[s])'
    <3> SUFFICES ASSUME NEW s \in Sessions, store'[s] # NoObject PROVE Current(store[s])'
      OBVIOUS
    <3>1. CASE s = call[r].session
      BY <3>1, <2>0, <2>3, <1>b DEF Current
    <3>2. CASE s # call[r].session
      <4>1. store'[s] = store[s] /\ store[s] \in Object /\ SessionOf(store[s]) = s /\ Current(store[s])
        BY <3>2, <2>0, <1>b DEF Ownership, Recency, BornAfter, StoredCurrent, HeldCurrent
      <4> QED
        BY <4>1, <3>2, <2>2
    <3> QED
      BY <3>1, <3>2
  <2>5. \A s \in Sessions, q \in Requests : q \in Answering(s) =>
            Current(held[q])' /\ quiet' \cap InSession(s) \subseteq born[q]
    <3> SUFFICES ASSUME NEW s \in Sessions, NEW q \in Requests, q \in Answering(s)
                 PROVE  Current(held[q])' /\ quiet' \cap InSession(s) \subseteq born[q]
      OBVIOUS
    <3>1. /\ held[q] \in Object /\ SessionOf(held[q]) = s /\ Current(held[q])
          /\ quiet \cap InSession(s) \subseteq born[q]
      BY <1>k DEF Recency, BornAfter, StoredCurrent, HeldCurrent
    <3>2. CASE s = call[r].session
      <4>1. quiet' = quiet
        BY <3>2, <2>0
      <4> QED
        BY <4>1, <3>1, <2>0 DEF Current, SessionOf, InSession
    <3>3. CASE s # call[r].session
      <4>1. quiet' \cap InSession(s) = quiet \cap InSession(s)
        BY <3>3, <2>0 DEF InSession
      <4> QED
        BY <4>1, <3>1, <3>3, <2>0, <2>2
    <3> QED
      BY <3>2, <3>3
  <2>6. \A q \in Requests : born[q] \subseteq resets' \cap InSession(call[q].session)
    BY <2>0 DEF Recency, BornAfter, StoredCurrent, HeldCurrent
  <2>7. \A q \in Requests : InSession(call[q].session)' = InSession(call[q].session)
    BY <2>0 DEF InSession
  <2>8. BornAfter'
    BY <2>0, <2>6, <2>7 DEF BornAfter
  <2>9. StoredCurrent'
    BY <2>4 DEF StoredCurrent
  <2>10. HeldCurrent'
    BY <2>0, <2>1, <2>5 DEF HeldCurrent
  <2> QED
    BY <2>8, <2>9, <2>10 DEF Recency
<1>3. ASSUME NEW r \in Requests,
             \/ ConfirmUnknownModel(r) \/ AnswerCatalog(r) \/ BindQuestion(r) \/ FailQuestion(r)
      PROVE Recency'
  <2>0. /\ UNCHANGED <<store, heap, held, call, born, quiet, resets>>
        /\ \A s \in Sessions : Answering(s)' \subseteq Answering(s)
    BY <1>3, <1>b DEF ConfirmUnknownModel, AnswerCatalog, BindQuestion, FailQuestion,
                      history, Answering, InSession
  <2> QED
    BY <2>0 DEF Recency, BornAfter, StoredCurrent, HeldCurrent, Current, InSession, SessionOf
<1>5. ASSUME NEW r \in Requests, WriteScope(r) PROVE Recency'
  <2>0. /\ pc[r] = "bound" /\ pc' = [pc EXCEPT ![r] = "saving"]
        /\ UNCHANGED <<store, held, call, born, quiet, resets>>
    BY <1>5 DEF WriteScope, history
  <2>1. PICK scope \in NextScope(r) : heap' = [heap EXCEPT ![held[r]] = scope]
    BY <1>5 DEF WriteScope
  <2>2. scope # NoScope => scope.from = r
    BY DEF NextScope
  <2>3. call[r].session \in Sessions /\ r \in Answering(call[r].session)
    BY <2>0, HandlerFacts DEF Answering, InSession, TypeInv, Started
  <2>4. quiet \cap InSession(SessionOf(held[r])) \subseteq born[r]
    BY <2>3, <1>k DEF Recency, BornAfter, StoredCurrent, HeldCurrent
  <2>5. \A p \in Object : Current(p) => Current(p)'
    BY <2>0, <2>1, <2>2, <2>4, <1>b DEF Current, SessionOf, InSession
  <2>6. \A s \in Sessions : Answering(s)' = Answering(s) /\ InSession(s)' = InSession(s)
    BY <2>0, <1>b DEF Answering, InSession
  <2>7. \A q \in Requests : born[q] \subseteq resets \cap InSession(call[q].session)'
    BY <2>0 DEF Recency, BornAfter, StoredCurrent, HeldCurrent, InSession
  <2>8. \A s \in Sessions : store[s] # NoObject => Current(store[s])'
    BY <2>0, <2>5, <1>b DEF Recency, BornAfter, StoredCurrent, HeldCurrent
  <2>9. \A s \in Sessions, q \in Requests : q \in Answering(s) =>
            Current(held[q])' /\ quiet \cap InSession(s) \subseteq born[q]
    BY <2>0, <2>5, <1>k DEF Recency, BornAfter, StoredCurrent, HeldCurrent
  <2>10. BornAfter'
    BY <2>0, <2>7 DEF BornAfter
  <2>11. StoredCurrent'
    BY <2>0, <2>8 DEF StoredCurrent
  <2>12. HeldCurrent'
    BY <2>0, <2>6, <2>9 DEF HeldCurrent
  <2> QED
    BY <2>10, <2>11, <2>12 DEF Recency
<1>6. ASSUME NEW r \in Requests, Save(r) PROVE Recency'
  <2>0. /\ pc[r] = "saving" /\ pc' = [pc EXCEPT ![r] = "done"]
        /\ store' = [store EXCEPT ![call[r].session] = held[r]]
        /\ UNCHANGED <<heap, held, call, born, quiet, resets>>
    BY <1>6 DEF Save, history
  <2>1. call[r].session \in Sessions /\ r \in Answering(call[r].session)
    BY <2>0, HandlerFacts DEF Answering, InSession, TypeInv, Started
  <2>2. held[r] \in Object /\ Current(held[r])
    BY <2>1, <1>k DEF Recency, BornAfter, StoredCurrent, HeldCurrent
  <2>3. \A p \in Object : Current(p) => Current(p)'
    BY <2>0 DEF Current, SessionOf, InSession
  <2>4. \A s \in Sessions : store'[s] # NoObject => Current(store[s])'
    BY <2>0, <2>2, <2>3, <1>b DEF Recency, BornAfter, StoredCurrent, HeldCurrent
  <2>5. \A s \in Sessions : Answering(s)' \subseteq Answering(s) /\ InSession(s)' = InSession(s)
    BY <2>0, <1>b DEF Answering, InSession
  <2>6. \A q \in Requests : born[q] \subseteq resets \cap InSession(call[q].session)'
    BY <2>0 DEF Recency, BornAfter, StoredCurrent, HeldCurrent, InSession
  <2>7. \A s \in Sessions, q \in Requests : q \in Answering(s) =>
            Current(held[q])' /\ quiet \cap InSession(s) \subseteq born[q]
    BY <2>0, <2>3, <1>k DEF Recency, BornAfter, StoredCurrent, HeldCurrent
  <2>8. \A s \in Sessions, q \in Requests : q \in Answering(s)' => q \in Answering(s)
    BY <2>5
  <2>9. BornAfter'
    BY <2>0, <2>6 DEF BornAfter
  <2>10. StoredCurrent'
    BY <2>4 DEF StoredCurrent
  <2>11. HeldCurrent'
    BY <2>0, <2>5, <2>7, <2>8 DEF HeldCurrent
  <2> QED
    BY <2>9, <2>10, <2>11 DEF Recency
<1>7. CASE UNCHANGED vars
  BY <1>7 DEF vars, Recency, BornAfter, StoredCurrent, HeldCurrent, Current, SessionOf,
              InSession, Answering
<1> QED
  BY <1>1, <1>2, <1>3, <1>5, <1>6, <1>7 DEF Next, Handle, AllAnswered

\* IInv is inductive.
LEMMA InvStep == IInv /\ [Next]_vars => IInv'
  BY TypeStep, AllocationStep, OwnershipStep, RecencyStep, FollowUpStep DEF IInv

\* IInv holds in every reachable state.
LEMMA Inductive == Spec => []IInv
  BY InitInv, InvStep, PTL DEF Spec

\* Every variable of the session store keeps its type.
THEOREM TypeCorrect == Spec => []TypeOK
<1>1. IInv => TypeOK
  BY DEF IInv, TypeInv
<1> QED
  BY <1>1, Inductive, PTL

\* For any number of concurrent requests: a question is only ever given the
\* previous scope of the model it asks about.
THEOREM FollowUpsKeepTheirModel == Spec => []FollowUpOwnModel
<1>1. IInv => FollowUpOwnModel
  BY DEF IInv
<1> QED
  BY <1>1, Inductive, PTL

\* For any number of concurrent requests: a question is only ever given a scope
\* that a question of the same browser session captured.
THEOREM FollowUpsKeepTheirSession == Spec => []FollowUpOwnSession
<1>1. IInv => FollowUpOwnSession
  BY DEF IInv
<1> QED
  BY <1>1, Inductive, PTL

\* For any number of concurrent requests: a reset or confirmation handled while
\* its session answers nothing cuts off every earlier result for good.
THEOREM QuietResetsAreFinal == Spec => []QuietResetIsFinal
<1>1. IInv => QuietResetIsFinal
  BY DEF IInv
<1> QED
  BY <1>1, Inductive, PTL
=============================================================================
