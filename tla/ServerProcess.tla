---------------------------- MODULE ServerProcess ----------------------------
(***************************************************************************)
(* cmd/evidence-api: run, from the environment to the exit, with the       *)
(* requests its HTTP server has accepted.  A handler visits the database a *)
(* few times (EvidenceAPI says what it does there); a visit holds a pooled *)
(* connection from the acquisition to the end of its transaction.          *)
(*                                                                         *)
(* On SIGTERM a goroutine calls Shutdown, which closes the listener and    *)
(* waits up to 10 seconds for the handlers; ListenAndServe returns at once *)
(* and run does not wait for that goroutine.  What holds the process up is *)
(* the deferred pool.Close, which refuses new acquisitions and waits for   *)
(* the connections that are out.                                           *)
(***************************************************************************)
EXTENDS Naturals, FiniteSets

CONSTANTS
    Requests,        \* requests clients will send to this process
    MaxConnections,  \* size of the pool
    MaxVisits        \* most visits of a handler: three of recordValidation

ASSUME ProcessAssumption ==
    /\ IsFiniteSet(Requests)
    /\ MaxConnections \in Nat \ {0}
    /\ MaxVisits \in Nat

VARIABLES
    main,       \* how far run has come
    signalled,  \* the context of NotifyContext is done
    stopping,   \* http.Server.inShutdown
    listening,  \* the listener is open
    poolOpen,   \* pool.Close has not been called
    request,    \* what has become of each request
    visits,     \* finished visits of each request
    killed      \* history variable: the process ended by SIGKILL or a fault

vars == <<main, signalled, stopping, listening, poolOpen, request, visits, killed>>
serverVars == <<stopping, listening, poolOpen>>
requestVars == <<request, visits>>

Alive == main # "exited"

Init ==
    /\ main = "configuring"
    /\ signalled = FALSE
    /\ stopping = FALSE
    /\ listening = FALSE
    /\ poolOpen = FALSE
    /\ request = [r \in Requests |-> "unsent"]
    /\ visits = [r \in Requests |-> 0]
    /\ killed = FALSE

-----------------------------------------------------------------------------
(* How the process ends. *)

Connected == {r \in Requests : request[r] = "connected"}

(* What is left of a request when its process is gone. *)
Remains(state) ==
    IF state = "running" THEN "cut" ELSE IF state = "connected" THEN "torn" ELSE state

Exit ==
    /\ main' = "exited"
    /\ request' = [r \in Requests |-> Remains(request[r])]
    /\ listening' = FALSE
    /\ UNCHANGED <<stopping, poolOpen, visits>>

(* A return from run before the pool exists. *)
ExitEarly == Exit /\ UNCHANGED <<signalled, killed>>

(* A return from run after that: the deferred pool.Close comes first. *)
ReturnFromRun ==
    /\ main' = "closing"
    /\ poolOpen' = FALSE
    /\ UNCHANGED <<signalled, stopping, listening, requestVars, killed>>

(* Mutant: Close does not wait for the connections that are out. *)
CloseAtOnce ==
    /\ main = "closing"
    /\ Exit
    /\ UNCHANGED <<signalled, killed>>

(* puddle.Pool.Close returns when every connection has been given back. *)
CloseReturns ==
    /\ main = "closing"
    /\ Connected = {}
    /\ Exit
    /\ UNCHANGED <<signalled, killed>>

-----------------------------------------------------------------------------
(* run, up to the listener *)

Proceed(from, to) ==
    /\ main = from
    /\ main' = to
    /\ UNCHANGED <<signalled, requestVars, killed>>

(* config.FromEnv and SignerFromEnv. *)
Configure ==
    \/ Proceed("configuring", "connecting") /\ poolOpen' = TRUE /\ UNCHANGED <<stopping, listening>>
    \/ main = "configuring" /\ ExitEarly

(* pool.Ping fails when its context is done. *)
Connect ==
    \/ ~signalled /\ Proceed("connecting", "wiring") /\ UNCHANGED serverVars
    \/ main = "connecting" /\ ReturnFromRun

(* The store, the object store client, the server and the authenticator. *)
Wire ==
    \/ Proceed("wiring", "wired") /\ UNCHANGED serverVars
    \/ main = "wiring" /\ ReturnFromRun

(* Mutant: a Shutdown before the listener exists is forgotten. *)
ListenAnyway ==
    \/ Proceed("wired", "serving") /\ listening' = TRUE /\ UNCHANGED <<stopping, poolOpen>>
    \/ main = "wired" /\ ReturnFromRun

(* ListenAndServe: ErrServerClosed when Shutdown has been called already,   *)
(* another error when the address cannot be had.                            *)
Listen ==
    \/ /\ ~stopping
       /\ Proceed("wired", "serving")
       /\ listening' = TRUE
       /\ UNCHANGED <<stopping, poolOpen>>
    \/ main = "wired" /\ ReturnFromRun

(* The goroutine that waits for ctx.Done, started before ListenAndServe. *)
Shutdown ==
    /\ main \in {"wired", "serving", "closing"}
    /\ signalled
    /\ ~stopping
    /\ stopping' = TRUE
    /\ listening' = FALSE
    /\ UNCHANGED <<main, signalled, poolOpen, requestVars, killed>>

ServeReturns == main = "serving" /\ ~listening /\ ReturnFromRun

-----------------------------------------------------------------------------
(* The requests. *)

Become(r, from, to) ==
    /\ Alive
    /\ request[r] = from
    /\ request' = [request EXCEPT ![r] = to]
    /\ UNCHANGED <<main, signalled, serverVars, killed>>

Send(r) ==
    Become(r, "unsent", IF listening THEN "running" ELSE "refused") /\ UNCHANGED visits

Acquire(r) ==
    /\ visits[r] < MaxVisits
    /\ poolOpen
    /\ Cardinality(Connected) < MaxConnections
    /\ Become(r, "running", "connected")
    /\ UNCHANGED visits

(* ErrClosedPool: the handler answers 500. *)
AcquireRefused(r) == ~poolOpen /\ Become(r, "running", "failed") /\ UNCHANGED visits

(* The visit ends, with a commit or a rollback, and the handler goes on. *)
Release(r) ==
    /\ Become(r, "connected", "running")
    /\ visits' = [visits EXCEPT ![r] = @ + 1]

(* Handlers differ in how often they visit the database. *)
Answer(r) == Become(r, "running", "answered") /\ UNCHANGED visits

-----------------------------------------------------------------------------
(* The environment: SIGTERM ends a process that has not called             *)
(* NotifyContext yet, SIGKILL any.                                         *)
Terminate ==
    /\ Alive
    /\ ~signalled
    /\ signalled' = TRUE
    /\ UNCHANGED killed
    /\ IF main = "configuring" THEN Exit ELSE UNCHANGED <<main, serverVars, requestVars>>

Kill == Alive /\ Exit /\ killed' = TRUE /\ UNCHANGED signalled

Main == Configure \/ Connect \/ Wire \/ Listen \/ ServeReturns \/ CloseReturns

Handle(r) == Acquire(r) \/ AcquireRefused(r) \/ Release(r) \/ Answer(r)

(* The process is gone, or serves with nothing to do. *)
Rest ==
    /\ ~Alive \/ main = "serving"
    /\ UNCHANGED vars

Next ==
    \/ Main \/ Shutdown \/ Terminate \/ Kill \/ Rest
    \/ \E r \in Requests : Send(r) \/ Handle(r)

Spec == Init /\ [][Next]_vars

(* The goroutines of a living process are scheduled; nobody has to send a   *)
(* request or a signal.                                                     *)
FairSpec ==
    /\ Spec
    /\ WF_vars(Main)
    /\ WF_vars(Shutdown)
    /\ \A r \in Requests : WF_vars(Handle(r))

-----------------------------------------------------------------------------
(* Properties *)

(* An orderly stop, and a failed start, tear no transaction: whatever a     *)
(* handler was cut off from, each of its visits to the database has         *)
(* committed or rolled back, although run waits for no handler.             *)
OrderlyStopTearsNothing == ~killed => \A r \in Requests : request[r] # "torn"

(* SIGTERM ends the process whenever it comes: during the start, between    *)
(* the start of the goroutine and the listener, under load, or while the    *)
(* pool is closing.                                                         *)
TerminationEnds == signalled ~> ~Alive
=============================================================================
