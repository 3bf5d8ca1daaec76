--------------------------- MODULE ConnectionPool ---------------------------
(***************************************************************************)
(* The two limits every request passes under: the threads that run plain   *)
(* (not async) functions, and the connections of the engine's pool.  A     *)
(* request keeps the connection its session took to find the signed-in     *)
(* user; a page takes a second one while it is rendered                    *)
(* (core/templates.py); a form post gives its connection back when it      *)
(* commits, takes one again to refresh the ticket, and may then be         *)
(* answered with a page too.  A wait for a connection ends after the       *)
(* pool's timeout, with an error.                                          *)
(***************************************************************************)
EXTENDS Naturals, FiniteSets

CONSTANTS
    Pages,      \* browser tabs that ask for pages, one request at a time
    Posts,      \* browser tabs that submit forms, one request at a time
    Panels,     \* those of them whose form can be answered with a page: a status move
                \* (when refused), archive and restore, the bulk actions
    PoolSize,   \* pool_size + max_overflow of create_engine
    Threads     \* size of the pool of threads

ASSUME PoolAssumption ==
    /\ IsFiniteSet(Pages) /\ IsFiniteSet(Posts)
    /\ Pages \cap Posts = {}
    /\ Panels \subseteq Posts
    /\ PoolSize \in Nat \ {0}
    /\ Threads \in Nat \ {0}

VARIABLES
    pc,         \* where the request of each tab is
    first,      \* the tabs whose request's session holds a connection
    second      \* the tabs whose page holds the connection it renders with

vars == <<pc, first, second>>

Tabs == Pages \cup Posts

\* The tabs whose requests can take a second connection.
Rendering == Pages \cup Panels

Init ==
    /\ pc = [t \in Tabs |-> "idle"]
    /\ first = {}
    /\ second = {}

Free_NoOverflow == PoolSize - 1 - (Cardinality(first) + Cardinality(second))
Free == PoolSize - (Cardinality(first) + Cardinality(second))

\* Each of these is a plain function that keeps its thread until it returns.
OnThread == {t \in Tabs : pc[t] \in {"authenticate", "route", "render", "rendering", "refresh"}}
ThreadFree == Cardinality(OnThread) < Threads

Goto(t, step) == pc' = [pc EXCEPT ![t] = step]
-----------------------------------------------------------------------------
\* The user clicks: the request waits for a thread to run get_current_user.
Arrive(t) ==
    /\ pc[t] = "idle"
    /\ Goto(t, "arrived")
    /\ UNCHANGED <<first, second>>

\* A thread for get_current_user, and later one for the route's own function.
GetThread(t) ==
    /\ ThreadFree
    /\ \/ pc[t] = "arrived" /\ Goto(t, "authenticate")
       \/ pc[t] = "resolved" /\ Goto(t, "route")
    /\ UNCHANGED <<first, second>>

\* The session's first query takes a connection, kept when the thread is given back.
Authenticate(t) ==
    /\ pc[t] = "authenticate"
    /\ Free > 0
    /\ first' = first \cup {t}
    /\ Goto(t, "resolved")
    /\ UNCHANGED second

\* A refusal, or an answer without a template: the badge of alerts, the CSV export.
Answer(t) ==
    /\ pc[t] = "route"
    /\ Goto(t, "close")
    /\ UNCHANGED <<first, second>>

\* A page, or the page that change_status shows with a refusal.
Render(t) ==
    /\ pc[t] = "route" /\ t \in Rendering
    /\ Goto(t, "render")
    /\ UNCHANGED <<first, second>>

\* _inject_current_user opens a session of its own and looks the user up again.
InjectCurrentUser(t) ==
    /\ pc[t] = "render"
    /\ Free > 0
    /\ second' = second \cup {t}
    /\ Goto(t, "rendering")
    /\ UNCHANGED first

\* Its generator is closed before the template is rendered, in a finally: also when the
\* look-up of the user raises, and then the request goes on to close() without a page.
CloseInjected(t) ==
    /\ pc[t] = "rendering"
    /\ second' = second \ {t}
    /\ Goto(t, "close")
    /\ UNCHANGED first

\* commit() ends the transaction and gives its connection back, and so does the
\* rollback() of a refused line of a batch.  An acknowledgement has nothing to refresh.
Commit(t) ==
    /\ pc[t] = "route" /\ t \in Posts
    /\ first' = first \ {t}
    /\ Goto(t, "refresh") \/ Goto(t, "close")
    /\ UNCHANGED second

\* refresh() takes a connection again; the answer is a redirect or a page.
Refresh(t) ==
    /\ pc[t] = "refresh"
    /\ Free > 0
    /\ first' = first \cup {t}
    /\ Goto(t, "close") \/ (t \in Panels /\ Goto(t, "render"))
    /\ UNCHANGED second

\* So does a batch, which then goes on to its next line.
NextLine(t) ==
    /\ pc[t] = "refresh" /\ t \in Panels
    /\ Free > 0
    /\ first' = first \cup {t}
    /\ Goto(t, "route")
    /\ UNCHANGED second

WantsConnection(t) == pc[t] \in {"authenticate", "render", "refresh"}

TimeOut_Retry(t) == WantsConnection(t) /\ Free = 0 /\ UNCHANGED vars

\* The pool's timeout raises in the waiting function; get_db still closes the session.
TimeOut(t) ==
    /\ WantsConnection(t)
    /\ Free = 0
    /\ Goto(t, "close")
    /\ UNCHANGED <<first, second>>

Close_NoFinally(t) ==
    /\ pc[t] = "close"
    /\ Goto(t, "idle")
    /\ UNCHANGED <<first, second>>

\* The finally of get_db, which has a thread of its own; then the answer is sent.
Close(t) ==
    /\ pc[t] = "close"
    /\ first' = first \ {t}
    /\ Goto(t, "idle")
    /\ UNCHANGED second

Proceed(t) ==
    \/ Authenticate(t) \/ Answer(t) \/ Render(t) \/ InjectCurrentUser(t) \/ CloseInjected(t)
    \/ Commit(t) \/ Refresh(t) \/ NextLine(t) \/ TimeOut(t) \/ Close(t)

Next == \E t \in Tabs : Arrive(t) \/ GetThread(t) \/ Proceed(t)

\* A running thread goes on, and a waiting one is woken, at the latest by its timeout.
\* Waits for a thread are served in order, so none is passed over for ever.  A batch is a
\* finite list of lines, so it does not go on to a next line for ever.
Fairness ==
    \A t \in Tabs : WF_vars(Proceed(t)) /\ SF_vars(GetThread(t)) /\ SF_vars(Refresh(t))

Spec == Init /\ [][Next]_vars /\ Fairness
-----------------------------------------------------------------------------
Steps == {"idle", "arrived", "authenticate", "resolved", "route", "render", "rendering",
          "refresh", "close"}

\* Neither limit is ever exceeded, and only a request that renders a page holds a
\* second connection.
TypeOK ==
    /\ pc \in [Tabs -> Steps]
    /\ first \subseteq Tabs
    /\ second \subseteq first \cap Rendering
    /\ Cardinality(first) + Cardinality(second) <= PoolSize
    /\ Cardinality(OnThread) <= Threads

\* No connection outlives its request, however the request ended: the finally of get_db
\* and of _inject_current_user.
NothingLeaks ==
    \A t \in Tabs : pc[t] \in {"idle", "arrived"} => t \notin first \cup second

\* Every request is answered, with a page or with an error, under any load.
EveryRequestAnswered == \A t \in Tabs : pc[t] = "arrived" ~> pc[t] = "idle"

\* Blocked for as long as nobody else moves, but for the timeout.
Blocked(t) ==
    \/ WantsConnection(t) /\ Free = 0
    \/ (pc[t] \in {"arrived", "resolved"} /\ ~ ThreadFree)

\* The requests in flight wait for each other in a ring that only a timeout can break.
Gridlock ==
    /\ \E t \in Tabs : Blocked(t)
    /\ \A t \in Tabs : pc[t] # "idle" => Blocked(t)

\* That takes a whole pool of requests that keep the connection they already have: those
\* that wait for their second one to render, and those that wait for their second thread.
\* A form post that waits to refresh holds none.
GridlockTakesThePool ==
    Gridlock =>
        /\ Cardinality(first) = PoolSize
        /\ \A t \in first : pc[t] = "render" \/ (pc[t] = "resolved" /\ ~ ThreadFree)
=============================================================================
