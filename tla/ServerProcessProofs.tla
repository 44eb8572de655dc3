-------------------------- MODULE ServerProcessProofs --------------------------
(* An orderly stop of cmd/evidence-api tears no transaction, for any number *)
(* of requests, connections and visits.                                     *)
EXTENDS ServerProcess, TLAPS

Fates == {"unsent", "refused", "running", "connected", "failed", "answered", "cut", "torn"}

(* Before the pool exists there is no listener, so no handler; after that   *)
(* the process ends by Close, by a termination of which run is told, or by  *)
(* force.                                                                   *)
ProcessInv ==
    /\ request \in [Requests -> Fates]
    /\ main = "configuring" =>
          ~listening /\ \A r \in Requests : request[r] \in {"unsent", "refused"}
    /\ OrderlyStopTearsNothing

(* What an exit makes of the requests. *)
LEMMA ExitStep ==
    ASSUME ProcessInv, Exit, Connected = {} \/ killed', UNCHANGED killed \/ killed'
    PROVE  ProcessInv'
<1>1. request' \in [Requests -> Fates]
  BY DEF ProcessInv, Exit, Remains, Fates
<1>2. main' # "configuring"
  BY DEF Exit
<1>3. ASSUME ~killed', NEW r \in Requests PROVE request'[r] # "torn"
  <2>1. request[r] \notin {"torn", "connected"}
    BY <1>3 DEF ProcessInv, OrderlyStopTearsNothing, Connected
  <2> QED
    BY <2>1 DEF ProcessInv, Exit, Remains
<1> QED
  BY <1>1, <1>2, <1>3 DEF ProcessInv, OrderlyStopTearsNothing

(* While it configures itself, the process has no connection out. *)
LEMMA NoneConnected ==
    ASSUME ProcessInv, main = "configuring" PROVE Connected = {}
BY DEF ProcessInv, Connected

(* A process that has not started has nothing to interrupt. *)
LEMMA InitProcess ==
    ASSUME Init PROVE ProcessInv
BY DEF Init, ProcessInv, OrderlyStopTearsNothing, Fates

(* A step of one request, which needs a living process. *)
LEMMA RequestStep ==
    ASSUME ProcessInv, NEW r \in Requests, Send(r) \/ Handle(r)
    PROVE  ProcessInv'
<1>1. CASE Send(r)
  BY <1>1 DEF ProcessInv, OrderlyStopTearsNothing, Send, Become, serverVars, Fates
<1>2. CASE Handle(r)
  <2>1. PICK to \in {"connected", "failed", "running", "answered"} :
            /\ request[r] \in {"running", "connected"}
            /\ request' = [request EXCEPT ![r] = to]
            /\ UNCHANGED <<main, listening, killed>>
    BY <1>2 DEF Handle, Acquire, AcquireRefused, Release, Answer, Become, serverVars
  <2>2. main # "configuring"
    BY <2>1 DEF ProcessInv
  <2> QED
    BY <2>1, <2>2 DEF ProcessInv, OrderlyStopTearsNothing, Fates
<1> QED
  BY <1>1, <1>2

(* run, while it goes on. *)
LEMMA GoOn ==
    ASSUME ProcessInv, main' # "configuring", UNCHANGED <<request, killed>>
    PROVE  ProcessInv'
BY DEF ProcessInv, OrderlyStopTearsNothing

(* The main goroutine leaves only when the pool has closed, or had nothing. *)
LEMMA MainStep ==
    ASSUME ProcessInv, Main PROVE ProcessInv'
<1>1. CASE main = "configuring" /\ ExitEarly
  BY <1>1, ExitStep, NoneConnected DEF ExitEarly
<1>2. CASE CloseReturns
  BY <1>2, ExitStep DEF CloseReturns
<1>3. CASE ~(main = "configuring" /\ ExitEarly) /\ ~CloseReturns
  <2>1. main' # "configuring" /\ UNCHANGED <<request, killed>>
    BY <1>3 DEF Main, Configure, Connect, Wire, Listen, ServeReturns, Proceed, ReturnFromRun,
                requestVars
  <2> QED
    BY <2>1, GoOn
<1> QED
  BY <1>1, <1>2, <1>3

(* The shutdown goroutine and the signals interrupt no request themselves. *)
LEMMA OtherStep ==
    ASSUME ProcessInv, Shutdown \/ Terminate \/ Kill \/ UNCHANGED vars PROVE ProcessInv'
<1>1. CASE Shutdown
  <2>1. main' # "configuring" /\ UNCHANGED <<request, killed>>
    BY <1>1 DEF Shutdown, requestVars
  <2> QED
    BY <2>1, GoOn
<1>2. CASE Terminate /\ main = "configuring"
  BY <1>2, ExitStep, NoneConnected DEF Terminate
<1>3. CASE Terminate /\ main # "configuring"
  <2>1. main' # "configuring" /\ UNCHANGED <<request, killed>>
    BY <1>3 DEF Terminate, requestVars
  <2> QED
    BY <2>1, GoOn
<1>4. CASE Kill
  BY <1>4, ExitStep DEF Kill
<1>5. CASE UNCHANGED vars
  BY <1>5 DEF ProcessInv, OrderlyStopTearsNothing, vars
<1> QED
  BY <1>1, <1>2, <1>3, <1>4, <1>5

(* Only a kill cuts a transaction: the deferred close of the pool waits for *)
(* the connections that are out, and before the pool exists there are none. *)
THEOREM OrderlyStop == Spec => []OrderlyStopTearsNothing
<1>1. Init => ProcessInv
  BY InitProcess
<1>2. ProcessInv /\ [Next]_vars => ProcessInv'
  BY MainStep, OtherStep, RequestStep DEF Next, Rest
<1>3. ProcessInv => OrderlyStopTearsNothing
  BY DEF ProcessInv
<1> QED
  BY <1>1, <1>2, <1>3, PTL DEF Spec
=============================================================================
