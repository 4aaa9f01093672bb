-------------------------------- MODULE Startup --------------------------------
(***************************************************************************)
(* The life of a service process around its catalogue of vectors.          *)
(*                                                                         *)
(*   main.py                  lifespan                                     *)
(*   query_initialization.py  the warm-up thread and its status            *)
(*   dependencies.py          initialize_query_catalog                     *)
(*   nacos_registry.py        the registration of the process              *)
(*                                                                         *)
(* The process starts the warm-up in a thread, registers itself and serves; *)
(* when it ends it asks the thread to stop, waits for it, takes back the    *)
(* registration and closes the HTTP client all model calls use.  The thread *)
(* is one of the workers of CatalogVectors; questions are refused until it  *)
(* has reported that the catalogue is ready.                               *)
(*                                                                         *)
(* The server hands the end of the process to lifespan when its requests    *)
(* are answered.  An embedding role that is switched off, with which the    *)
(* thread is ready at once, is left out.                                   *)
(***************************************************************************)
EXTENDS CatalogVectors

CONSTANT Warm      \* the warm-up thread

ASSUME WarmAssumption == Warm \in Workers

VARIABLES
  stage,         \* of lifespan
  stop,          \* QueryInitialization._stop
  status,        \* QueryInitialization._status
  thread,        \* where QueryInitialization.run is
  client,        \* NacosRegistry holds a naming client
  registered,    \* Nacos knows the instance
  tests,         \* places that tests of a model connection hold
  healthy        \* nothing fails, is reconfigured or tested any more

lifespanVars == <<stage, client, registered>>
cacheVars == vars
svars == <<vars, stage, stop, status, thread, client, registered, tests, healthy>>

Requests == Workers \ {Warm}

SInit ==
  /\ Init
  /\ stage = "starting"
  /\ stop = FALSE
  /\ status = "initializing"
  /\ thread = "loop"
  /\ client = FALSE /\ registered = FALSE
  /\ tests = 0
  /\ healthy = FALSE

-------------------------------------------------------------------------------
(* The warm-up thread *)

\* An attempt reads the catalogue; a thread that was told to stop begins none.
Attempt ==
  /\ thread = "loop"
  /\ \/ /\ ~stop
        /\ status' = "initializing"
        /\ thread' = "loading"
        /\ Ask(Warm)
     \/ /\ stop
        /\ thread' = "ended"
        /\ UNCHANGED <<cacheVars, status>>
  /\ UNCHANGED <<lifespanVars, stop, tests, healthy>>

\* Faulty variant of AfterFailure: the thread tries once.
EndAfterFailure == "ended"

\* A failed attempt is repeated after retry_seconds.
AfterFailure == "waiting"

\* What initialize_query_catalog does between two reports of progress.  No
\* question competes with it for the lock or a place, they wait until it is done;
\* tests of a connection compete for the places.
LoadStep ==
  \/ Acquire(Warm) \/ TakeSlot(Warm) \/ SlotTimeout(Warm) \/ AnswerBatch(Warm)
  \/ ~healthy /\ Fail(Warm)
  \/ ~stop /\ (CallForBatch(Warm) \/ Loaded(Warm))

\* A step of the load; one that raises ends the attempt.
Load ==
  /\ thread = "loading"
  /\ LoadStep
  /\ IF worker'[Warm] = Idle
     THEN status' = "failed" /\ thread' = AfterFailure
     ELSE UNCHANGED <<status, thread>>
  /\ UNCHANGED <<lifespanVars, stop, tests, healthy>>

\* progress raises InitializationStopped.
Interrupted ==
  /\ thread = "loading"
  /\ worker[Warm].pc = "batch"
  /\ stop
  /\ Leave(Warm)
  /\ thread' = "ended"
  /\ UNCHANGED <<config, returned, catalog, slots>>
  /\ UNCHANGED <<lifespanVars, stop, status, tests, healthy>>

\* warmup has returned: every text of the catalogue has its vector.
Finished == worker[Warm].pc = "loaded"

Ready ==
  /\ thread = "loading"
  /\ Finished
  /\ Leave(Warm)
  /\ thread' = "ended"
  /\ status' = IF stop THEN status ELSE "ready"
  /\ UNCHANGED <<config, returned, catalog, slots>>
  /\ UNCHANGED <<lifespanVars, stop, tests, healthy>>

\* _stop.wait(retry_seconds)
Wait ==
  /\ thread = "waiting"
  /\ thread' = IF stop THEN "ended" ELSE "loop"
  /\ UNCHANGED <<cacheVars, lifespanVars, stop, status, tests, healthy>>

ThreadStep == Attempt \/ Load \/ Interrupted \/ Ready \/ Wait

-------------------------------------------------------------------------------
(* Requests and surroundings *)

\* require_query_ready
Question(w) ==
  /\ stage = "serving"
  /\ status = "ready"
  /\ Ask(w)
  /\ UNCHANGED <<lifespanVars, stop, status, thread, tests, healthy>>

Answer(w) ==
  /\ WorkerStep(w)
  /\ UNCHANGED <<lifespanVars, stop, status, thread, tests, healthy>>

Administer ==
  /\ ~healthy
  /\ \/ \E m \in Models : Publish(m)
     \/ \E corpus \in Catalogs : ChangeCatalog(corpus)
  /\ UNCHANGED <<lifespanVars, stop, status, thread, tests, healthy>>

\* From here on models answer and nobody publishes or tests.
Recover ==
  /\ ~healthy
  /\ healthy' = TRUE
  /\ UNCHANGED <<cacheVars, lifespanVars, stop, status, thread, tests>>

\* test_model_connection takes a place of the same semaphore, whether or not the
\* catalogue is ready, and gives it back when the call is answered or has failed.
Test ==
  /\ stage = "serving" /\ ~healthy
  /\ slots > 0
  /\ slots' = slots - 1
  /\ tests' = tests + 1
  /\ UNCHANGED <<config, returned, catalog, cache, buffers, lock, worker>>
  /\ UNCHANGED <<lifespanVars, stop, status, thread, healthy>>

EndTest ==
  /\ tests > 0
  /\ slots' = slots + 1
  /\ tests' = tests - 1
  /\ UNCHANGED <<config, returned, catalog, cache, buffers, lock, worker>>
  /\ UNCHANGED <<lifespanVars, stop, status, thread, healthy>>

-------------------------------------------------------------------------------
(* The registration *)

\* NacosRegistry.stop: an error of the service is logged, the client is gone.
Deregistered(held, was) == IF held THEN {FALSE, was} ELSE {was}

\* The client is held from its creation, also if the registration fails.
HeldClient(created, confirmed) == created

\* NacosRegistry.start: a registration that is not confirmed may have arrived.
\* The process goes on without one unless nacos_fail_fast is set.
StartRegistry ==
  /\ stage = "starting"
  /\ \E created, confirmed, arrived, failFast \in BOOLEAN :
       LET held == HeldClient(created, confirmed) IN
       /\ confirmed => arrived
       /\ arrived => created
       /\ \/ /\ confirmed \/ ~failFast
             /\ stage' = "serving"
             /\ client' = held
             /\ registered' = arrived
          \/ /\ ~confirmed /\ failFast
             /\ stage' = "stopping"
             /\ client' = FALSE
             /\ registered' \in Deregistered(held, arrived)
  /\ UNCHANGED <<cacheVars, stop, status, thread, tests, healthy>>

-------------------------------------------------------------------------------
(* The end of the process *)

EndOfService ==
  /\ stage = "serving"
  /\ tests = 0 /\ \A w \in Requests : worker[w] = Idle
  /\ stage' = "stopping"
  /\ UNCHANGED <<cacheVars, stop, status, thread, client, registered, tests, healthy>>

\* Faulty variant of Signal: the thread is not told.
NoSignal == stop

\* initialization.stop()
Signal == TRUE

StopWarmup ==
  /\ stage = "stopping"
  /\ stop' = Signal
  /\ stage' = "awaiting"
  /\ UNCHANGED <<cacheVars, status, thread, client, registered, tests, healthy>>

\* Faulty variant of WarmupEnded: the task is cancelled, the thread goes on.
WarmupCancelled == TRUE

\* await warmup
WarmupEnded == thread = "ended"

\* The registration is taken back and the client closed.
Close ==
  /\ stage = "awaiting"
  /\ WarmupEnded
  /\ registered' \in Deregistered(client, registered)
  /\ client' = FALSE
  /\ stage' = "closed"
  /\ UNCHANGED <<cacheVars, stop, status, thread, tests, healthy>>

-------------------------------------------------------------------------------

SNext ==
  \/ ThreadStep
  \/ \E w \in Requests : Question(w) \/ Answer(w)
  \/ Administer \/ Recover \/ Test \/ EndTest
  \/ StartRegistry \/ EndOfService \/ StopWarmup \/ Close

SSpec == SInit /\ [][SNext]_svars

\* The thread and lifespan run, and calls have timeouts; when the service ends, and
\* whether anything ever recovers, is open.
SFairSpec ==
  /\ SSpec
  /\ WF_svars(ThreadStep) /\ WF_svars(EndTest)
  /\ WF_svars(StartRegistry) /\ WF_svars(StopWarmup) /\ WF_svars(Close)

-------------------------------------------------------------------------------
(* Properties *)

\* The shared HTTP client is closed when no model call can be out any more:
\* the warm-up thread has ended, and no question or test is left.
ClientOutlivesCalls ==
  stage = "closed" =>
    thread = "ended" /\ tests = 0 /\ \A w \in Workers : worker[w].pc # "post"

\* A process that is told to end gets to the end, whatever the models do.
ShutdownEnds == stage = "stopping" ~> stage = "closed"

\* Once models answer and nobody publishes or tests, the warm-up gets ready without
\* anybody's help, after any number of failed attempts.
BecomesReady == healthy ~> (status = "ready" \/ stop)
===============================================================================
