----------------------- MODULE ConnectionPool_proofs -----------------------
(***************************************************************************)
(* For any tabs, any pool and any number of threads: neither limit is      *)
(* exceeded, no connection outlives its request, and a ring of waiting     *)
(* requests takes the whole pool, so that fewer requests for pages than    *)
(* connections never form one.                                             *)
(***************************************************************************)
EXTENDS ConnectionPool, FiniteSetTheorems, TLAPS

\* A session holds a connection only at these steps, and a request that waits for its
\* second one holds its first and is answered with a page.
HeldAtTheseSteps ==
    /\ \A t \in first : pc[t] \in {"resolved", "route", "render", "rendering", "close"}
    /\ \A t \in second : pc[t] = "rendering"
    /\ \A t \in Tabs : pc[t] \in {"resolved", "route", "render", "rendering"} => t \in first
    /\ \A t \in Tabs : pc[t] \in {"render", "rendering"} => t \in Rendering

IInv == TypeOK /\ HeldAtTheseSteps

\* Any number of tabs is a finite number.
LEMMA TabsFinite == IsFiniteSet(Tabs)
BY FS_Union, PoolAssumption DEF Tabs

\* The sets that are counted against a limit are finite, and their sizes are numbers.
LEMMA HeldFinite ==
    ASSUME NEW S \in SUBSET Tabs
    PROVE  IsFiniteSet(S) /\ Cardinality(S) \in Nat
BY TabsFinite, FS_Subset, FS_CardinalityType

\* A set that shrinks does not count for more.
LEMMA Shrinks ==
    ASSUME NEW S \in SUBSET Tabs, NEW T \in SUBSET S
    PROVE  Cardinality(T) <= Cardinality(S)
BY HeldFinite, FS_Subset

\* A set that one tab joins counts for at most one more.
LEMMA Joins ==
    ASSUME NEW S \in SUBSET Tabs, NEW t \in Tabs
    PROVE  Cardinality(S \cup {t}) <= Cardinality(S) + 1
<1>1. IsFiniteSet(S) /\ Cardinality(S) \in Nat
  BY HeldFinite
<1>2. Cardinality(S \cup {t}) = IF t \in S THEN Cardinality(S) ELSE Cardinality(S) + 1
  BY <1>1, FS_AddElement
<1> QED BY <1>1, <1>2

\* Initially nothing is held and nothing runs.
LEMMA InitIInv == Init => IInv
<1> SUFFICES ASSUME Init PROVE IInv
  OBVIOUS
<1>1. OnThread = {}
  BY DEF Init, OnThread
<1>2. Cardinality(first) = 0 /\ Cardinality(second) = 0 /\ Cardinality(OnThread) = 0
  BY <1>1, FS_EmptySet DEF Init
<1> QED BY <1>2, PoolAssumption DEF Init, IInv, TypeOK, HeldAtTheseSteps, Steps

\* A step that takes no thread leaves the count of threads within its limit.
LEMMA NoNewThread ==
    ASSUME IInv, NEW t \in Tabs, NEW step \in Steps, Goto(t, step),
           step \in {"authenticate", "route", "render", "rendering", "refresh"} => t \in OnThread
    PROVE  /\ pc' \in [Tabs -> Steps]
           /\ Cardinality(OnThread') <= Threads
<1>1. pc' \in [Tabs -> Steps]
  BY DEF IInv, TypeOK, Goto
<1>2. OnThread' \in SUBSET OnThread /\ OnThread \in SUBSET Tabs
  BY DEF IInv, TypeOK, Goto, OnThread
<1>3. Cardinality(OnThread') <= Cardinality(OnThread)
  BY <1>2, Shrinks
<1>4. Cardinality(OnThread) \in Nat /\ Cardinality(OnThread') \in Nat
  BY <1>2, HeldFinite
<1> QED BY <1>1, <1>3, <1>4, PoolAssumption DEF IInv, TypeOK

\* The sizes of the two sets of holders are numbers.
LEMMA HolderCounts ==
    ASSUME IInv
    PROVE  Cardinality(first) \in Nat /\ Cardinality(second) \in Nat
<1>1. first \in SUBSET Tabs /\ second \in SUBSET Tabs
  BY DEF IInv, TypeOK
<1> QED BY <1>1, HeldFinite

\* Every step keeps the limits, and who holds what.
LEMMA NextIInv == IInv /\ [Next]_vars => IInv'
<1> SUFFICES ASSUME IInv, [Next]_vars PROVE IInv'
  OBVIOUS
<1> USE PoolAssumption
<1>0. Cardinality(first) \in Nat /\ Cardinality(second) \in Nat
  BY HolderCounts
<1>1. first \in SUBSET Tabs /\ second \in SUBSET Tabs /\ pc \in [Tabs -> Steps]
  BY DEF IInv, TypeOK
<1>2. CASE UNCHANGED vars
  BY <1>2 DEF vars, IInv, TypeOK, HeldAtTheseSteps, OnThread
<1>3. ASSUME NEW t \in Tabs, Arrive(t) PROVE IInv'
  <2>1. pc' \in [Tabs -> Steps] /\ Cardinality(OnThread') <= Threads
    BY <1>3, NoNewThread DEF Arrive, Steps
  <2> QED BY <1>1, <1>3, <2>1 DEF Arrive, Goto, IInv, TypeOK, HeldAtTheseSteps
<1>4. ASSUME NEW t \in Tabs, GetThread(t) PROVE IInv'
  <2>1. OnThread \in SUBSET Tabs
    BY DEF OnThread
  <2>2. OnThread' = OnThread \cup {t}
    BY <1>1, <1>4 DEF GetThread, Goto, OnThread
  <2>3. Cardinality(OnThread') <= Cardinality(OnThread) + 1
    BY <2>1, <2>2, Joins
  <2>4. Cardinality(OnThread) \in Nat /\ Cardinality(OnThread') \in Nat
    BY <2>1, <2>2, HeldFinite
  <2>5. Cardinality(OnThread') <= Threads
    BY <1>4, <2>3, <2>4 DEF GetThread, ThreadFree
  <2>6. pc' \in [Tabs -> Steps]
    BY <1>1, <1>4 DEF GetThread, Goto, Steps
  <2> QED BY <1>1, <1>4, <2>5, <2>6 DEF GetThread, Goto, IInv, TypeOK, HeldAtTheseSteps
<1>5. ASSUME NEW t \in Tabs, Authenticate(t) PROVE IInv'
  <2>1. pc' \in [Tabs -> Steps] /\ Cardinality(OnThread') <= Threads
    BY <1>5, NoNewThread DEF Authenticate, Steps
  <2>2. Cardinality(first') <= Cardinality(first) + 1
    BY <1>1, <1>5, Joins DEF Authenticate
  <2>3. Cardinality(first') \in Nat
    BY <1>1, <1>5, HeldFinite DEF Authenticate
  <2>4. Cardinality(first') + Cardinality(second') <= PoolSize
    BY <1>0, <1>5, <2>2, <2>3 DEF Authenticate, Free
  <2> QED BY <1>1, <1>5, <2>1, <2>4 DEF Authenticate, Goto, IInv, TypeOK, HeldAtTheseSteps
<1>6. ASSUME NEW t \in Tabs, InjectCurrentUser(t) PROVE IInv'
  <2>1. pc' \in [Tabs -> Steps] /\ Cardinality(OnThread') <= Threads
    BY <1>6, NoNewThread DEF InjectCurrentUser, Steps, OnThread
  <2>2. Cardinality(second') <= Cardinality(second) + 1
    BY <1>1, <1>6, Joins DEF InjectCurrentUser
  <2>3. Cardinality(second') \in Nat
    BY <1>1, <1>6, HeldFinite DEF InjectCurrentUser
  <2>4. Cardinality(first') + Cardinality(second') <= PoolSize
    BY <1>0, <1>6, <2>2, <2>3 DEF InjectCurrentUser, Free
  <2> QED BY <1>1, <1>6, <2>1, <2>4
             DEF InjectCurrentUser, Goto, IInv, TypeOK, HeldAtTheseSteps
<1>7. ASSUME NEW t \in Tabs, CloseInjected(t) PROVE IInv'
  <2>1. pc' \in [Tabs -> Steps] /\ Cardinality(OnThread') <= Threads
    BY <1>7, NoNewThread DEF CloseInjected, Steps
  <2>2. Cardinality(second') <= Cardinality(second) /\ Cardinality(second') \in Nat
    BY <1>1, <1>7, Shrinks, HeldFinite DEF CloseInjected
  <2> QED BY <1>0, <1>1, <1>7, <2>1, <2>2
             DEF CloseInjected, Goto, IInv, TypeOK, HeldAtTheseSteps
<1>8. ASSUME NEW t \in Tabs, Commit(t) PROVE IInv'
  <2>1. PICK step \in {"refresh", "close"} : Goto(t, step)
    BY <1>8 DEF Commit
  <2>2. pc' \in [Tabs -> Steps] /\ Cardinality(OnThread') <= Threads
    BY <1>8, <2>1, NoNewThread DEF Commit, Steps, OnThread
  <2>3. Cardinality(first') <= Cardinality(first) /\ Cardinality(first') \in Nat
    BY <1>1, <1>8, Shrinks, HeldFinite DEF Commit
  <2>4. second' = second \ {t}
    BY <1>8 DEF Commit, IInv, HeldAtTheseSteps
  <2> QED BY <1>0, <1>1, <1>8, <2>1, <2>2, <2>3, <2>4
             DEF Commit, Goto, IInv, TypeOK, HeldAtTheseSteps
<1>9. ASSUME NEW t \in Tabs, Refresh(t) \/ NextLine(t) PROVE IInv'
  <2>1. PICK step \in {"close", "render", "route"} :
          Goto(t, step) /\ (step # "close" => t \in Panels)
    BY <1>9 DEF Refresh, NextLine
  <2>2. /\ pc[t] = "refresh" /\ Free > 0
        /\ first' = first \cup {t} /\ UNCHANGED second
    BY <1>9 DEF Refresh, NextLine
  <2>3. pc' \in [Tabs -> Steps] /\ Cardinality(OnThread') <= Threads
    BY <2>1, <2>2, NoNewThread DEF Steps, OnThread
  <2>4. Cardinality(first') <= Cardinality(first) + 1
    BY <1>1, <2>2, Joins
  <2>5. Cardinality(first') \in Nat
    BY <1>1, <2>2, HeldFinite
  <2>6. Cardinality(first') + Cardinality(second') <= PoolSize
    BY <1>0, <2>2, <2>4, <2>5 DEF Free
  <2> QED BY <1>1, <2>1, <2>2, <2>3, <2>6
             DEF Goto, Rendering, IInv, TypeOK, HeldAtTheseSteps
<1>10. ASSUME NEW t \in Tabs, TimeOut(t) PROVE IInv'
  <2>1. pc' \in [Tabs -> Steps] /\ Cardinality(OnThread') <= Threads
    BY <1>10, NoNewThread DEF TimeOut, Steps
  <2> QED BY <1>1, <1>10, <2>1
             DEF TimeOut, WantsConnection, Goto, IInv, TypeOK, HeldAtTheseSteps
<1>11. ASSUME NEW t \in Tabs, Close(t) PROVE IInv'
  <2>1. pc' \in [Tabs -> Steps] /\ Cardinality(OnThread') <= Threads
    BY <1>11, NoNewThread DEF Close, Steps
  <2>2. Cardinality(first') <= Cardinality(first) /\ Cardinality(first') \in Nat
    BY <1>1, <1>11, Shrinks, HeldFinite DEF Close
  <2> QED BY <1>0, <1>1, <1>11, <2>1, <2>2 DEF Close, Goto, IInv, TypeOK, HeldAtTheseSteps
<1>12. ASSUME NEW t \in Tabs, Answer(t) \/ Render(t) PROVE IInv'
  <2>1. PICK step \in {"close", "render"} : Goto(t, step) /\ (step = "render" => t \in Rendering)
    BY <1>12 DEF Answer, Render
  <2>2. pc[t] = "route" /\ UNCHANGED <<first, second>>
    BY <1>12 DEF Answer, Render
  <2>3. pc' \in [Tabs -> Steps] /\ Cardinality(OnThread') <= Threads
    BY <2>1, <2>2, NoNewThread DEF Steps, OnThread
  <2> QED BY <1>1, <2>1, <2>2, <2>3 DEF Goto, IInv, TypeOK, HeldAtTheseSteps
<1> QED BY <1>2, <1>3, <1>4, <1>5, <1>6, <1>7, <1>8, <1>9, <1>10, <1>11, <1>12 DEF Next, Proceed

\* The invariant holds throughout.
LEMMA Invariance == Spec => []IInv
BY InitIInv, NextIInv, PTL DEF Spec

\* Neither the pool nor the threads are ever exceeded, and only a request that renders holds two
\* connections: get_db and _inject_current_user.
THEOREM TypeCorrect == Spec => []TypeOK
<1>1. IInv => TypeOK
  BY DEF IInv
<1> QED BY Invariance, <1>1, PTL

\* However a request ends, by a page, a commit or a timeout, it gives back what it holds.
THEOREM ConnectionsReturn == Spec => []NothingLeaks
<1>1. IInv => NothingLeaks
  BY DEF IInv, TypeOK, HeldAtTheseSteps, NothingLeaks
<1> QED BY Invariance, <1>1, PTL
-----------------------------------------------------------------------------
\* With a thread for every tab, a request that has no thread yet can get one.
LEMMA ThreadForEveryTab ==
    ASSUME IInv, Cardinality(Tabs) <= Threads,
           NEW t \in Tabs, pc[t] \in {"arrived", "resolved"}
    PROVE  ThreadFree
<1>1. OnThread \in SUBSET Tabs /\ OnThread # Tabs
  BY DEF OnThread
<1>2. Cardinality(OnThread) <= Cardinality(Tabs) /\ Cardinality(OnThread) # Cardinality(Tabs)
  BY <1>1, TabsFinite, FS_Subset
<1>3. Cardinality(OnThread) \in Nat /\ Cardinality(Tabs) \in Nat
  BY <1>1, HeldFinite
<1> QED BY <1>2, <1>3, PoolAssumption DEF ThreadFree

\* In a ring every thread waits for a connection, so no page has its second one and
\* every connection is the first of a request that waits.
LEMMA Ring == IInv => GridlockTakesThePool
<1> SUFFICES ASSUME IInv, Gridlock PROVE GridlockTakesThePool
  BY DEF GridlockTakesThePool
<1>1. Free = 0
  <2>1. CASE ThreadFree
    BY <2>1 DEF Gridlock, Blocked
  <2>2. CASE ~ ThreadFree
    <3>1. OnThread # {}
      BY <2>2, FS_EmptySet, PoolAssumption DEF ThreadFree
    <3>2. PICK t \in Tabs :
            pc[t] \in {"authenticate", "route", "render", "rendering", "refresh"}
      BY <3>1 DEF OnThread
    <3> QED BY <3>2 DEF Gridlock, Blocked
  <2> QED BY <2>1, <2>2
<1>2. second = {}
  BY DEF Gridlock, Blocked, WantsConnection, IInv, TypeOK, HeldAtTheseSteps
<1>3. Cardinality(first) \in Nat /\ Cardinality(second) = 0
  BY <1>2, HolderCounts, FS_EmptySet
<1>4. Cardinality(first) = PoolSize
  BY <1>1, <1>3, PoolAssumption DEF Free
<1>5. \A t \in first : pc[t] = "render" \/ (pc[t] = "resolved" /\ ~ ThreadFree)
  BY DEF Gridlock, Blocked, WantsConnection, IInv, TypeOK, HeldAtTheseSteps
<1> QED BY <1>4, <1>5 DEF GridlockTakesThePool

\* Requests wait for each other in a ring only when the whole pool is held by requests
\* that keep the connection of get_current_user: _inject_current_user's second session.
THEOREM RingsTakeThePool == Spec => []GridlockTakesThePool
BY Invariance, Ring, PTL

\* With fewer tabs that can be shown a page than connections, and a thread for every tab,
\* there is no ring, however many of the other forms are submitted.
THEOREM HeadroomSuffices ==
    Spec => [](Cardinality(Rendering) < PoolSize /\ Cardinality(Tabs) <= Threads => ~ Gridlock)
<1>1. ASSUME IInv, Cardinality(Rendering) < PoolSize, Cardinality(Tabs) <= Threads, Gridlock
      PROVE  FALSE
  <2>1. /\ Cardinality(first) = PoolSize
        /\ \A t \in first : pc[t] = "render" \/ (pc[t] = "resolved" /\ ~ ThreadFree)
    BY <1>1, Ring DEF GridlockTakesThePool
  <2>2. first \in SUBSET Rendering
    BY <1>1, <2>1, ThreadForEveryTab DEF IInv, TypeOK, HeldAtTheseSteps
  <2>3. Rendering \in SUBSET Tabs
    BY PoolAssumption DEF Rendering, Tabs
  <2>4. Cardinality(first) <= Cardinality(Rendering) /\ Cardinality(Rendering) \in Nat
    BY <2>2, <2>3, Shrinks, HeldFinite
  <2> QED BY <1>1, <2>1, <2>4, PoolAssumption
<1>2. IInv => (Cardinality(Rendering) < PoolSize /\ Cardinality(Tabs) <= Threads => ~ Gridlock)
  BY <1>1
<1> QED BY Invariance, <1>2, PTL
=============================================================================
