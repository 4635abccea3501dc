------------------------------ MODULE Gateway ------------------------------
(***************************************************************************)
(* The way of a request through the middlewares (api/main.py adds them so  *)
(* that logging is outermost, then authentication, then the rate limiter)  *)
(* to the router's engine, against the clock; and the idle watcher beside  *)
(* it.  What an engine does with the request is in the engines' modules.   *)
(***************************************************************************)
EXTENDS RateLimiter

CONSTANTS Requests,    \* requests in hand
          Serves,      \* the engines that may serve a path
          Preload,     \* engines loaded at start-up (PRELOAD_LLM, PRELOAD_VLM)
          Idle,        \* IDLE_UNLOAD_SECONDS
          Check        \* the watcher looks once a minute

Kinds == {"vllm", "vlm", "ocr", "docling"}

ASSUME GatewayAssumption == /\ Serves \in [Paths -> SUBSET Kinds]
                            /\ Preload \subseteq {"vllm", "vlm"}
                            /\ Idle \in Nat \ {0} /\ Check \in Nat \ {0}

VARIABLES last,        \* _last_request_time
          wake,        \* the end of the watcher's sleep
          engines,     \* engines the router has an object of
          loaded,      \* those whose object has loaded a model
          need,        \* the engine a request has yet to ask the router for
          use,         \* the router's engine it was given
          lastLoad     \* history: the time of the latest load

limiterVars == vars
routerVars  == <<engines, loaded, need, use, lastLoad>>
gatewayVars == <<limiterVars, last, wake, routerVars>>

GatewayTypeOK == /\ TypeOK
                 /\ last \in 0 .. now /\ wake \in now .. now + Idle + Check
                 /\ engines \subseteq Kinds /\ loaded \subseteq engines
                 /\ need \in [Requests -> Kinds \cup {"none"}]
                 /\ use \in [Requests -> engines \cup {"none"}]
                 /\ lastLoad \in 0 .. now

(* The lifespan makes the engines it is to load, and goes on without those *)
(* whose load failed; then the watcher starts.                             *)
GatewayInit == /\ Init
               /\ last = 0
               /\ wake = Check
               /\ engines = Preload
               /\ loaded \in SUBSET Preload
               /\ need = [r \in Requests |-> "none"]
               /\ use = [r \in Requests |-> "none"]
               /\ lastLoad = 0
-----------------------------------------------------------------------------
\* LoggingMiddleware sets the timer back before anything else is decided.
Touch == /\ last' = now
         /\ UNCHANGED wake

\* A public path, which neither the key nor the limit is asked for; the
\* container's health check is one, twice a minute.
Public == /\ Touch
          /\ UNCHANGED <<limiterVars, routerVars>>

\* 401
Unauthorized(c) == /\ ~Authorized(c)
                   /\ Touch
                   /\ UNCHANGED <<limiterVars, routerVars>>

\* 429
TooMany(h, c, p) == /\ Refuse(h, c, p)
                    /\ Touch
                    /\ UNCHANGED routerVars

\* The body is refused, the model's name is not known, or nothing is needed.
WithoutEngine(h, c, p) == /\ Admit(h, c, p)
                          /\ Touch
                          /\ UNCHANGED routerVars

\* A request that will use engine e; its body has yet to be read.
Arrive(r, h, c, p) == /\ need[r] = "none" /\ use[r] = "none"
                      /\ Admit(h, c, p)
                      /\ Touch
                      /\ \E e \in Serves[p] : need' = [need EXCEPT ![r] = e]
                      /\ UNCHANGED <<engines, loaded, use, lastLoad>>
-----------------------------------------------------------------------------
(* A request in hand: whatever lies between its steps, an upload, the wait *)
(* for a lock, a job of ten minutes, nothing of it sets the timer back.    *)

GetEngine(r) == /\ need[r] # "none"
                /\ engines' = engines \cup {need[r]}
                /\ use'     = [use EXCEPT ![r] = need[r]]
                /\ need'    = [need EXCEPT ![r] = "none"]
                /\ UNCHANGED <<limiterVars, last, wake, loaded, lastLoad>>

\* The first use of an engine's object loads its model.
Load(r) == /\ use[r] \notin loaded \cup {"none"}
           /\ loaded'   = loaded \cup {use[r]}
           /\ lastLoad' = now
           /\ UNCHANGED <<limiterVars, last, wake, engines, need, use>>

\* With a result, or with an error of whatever step it was at.
Answer(r) == /\ need[r] # "none" \/ use[r] # "none"
             /\ need' = [need EXCEPT ![r] = "none"]
             /\ use'  = [use EXCEPT ![r] = "none"]
             /\ UNCHANGED <<limiterVars, last, wake, engines, loaded, lastLoad>>
-----------------------------------------------------------------------------
(* idle_watcher_loop *)

Due == now - last >= Idle

\* _unload_all_models: the engines of GPU 2 always, the others when loaded.
Dropped == (engines \cap {"ocr", "docling"}) \cup loaded

Look == /\ wake = now
        /\ ~Due
        /\ wake' = now + Check
        /\ UNCHANGED <<limiterVars, last, routerVars>>

\* Mutant of Unload: the sleep after an unload is added to the one after that.
UnloadOversleeps == /\ wake = now
                    /\ Due
                    /\ engines' = engines \ Dropped
                    /\ loaded'  = loaded \ Dropped
                    /\ use'     = [r \in Requests |-> IF use[r] \in Dropped THEN "none" ELSE use[r]]
                    /\ wake'    = now + Idle + Check + Idle
                    /\ UNCHANGED <<limiterVars, last, need, lastLoad>>

\* After an unload it sleeps for the idle time, and then until its next look.
\* A request that used an engine goes on with an object the router let go of.
Unload == /\ wake = now
          /\ Due
          /\ engines' = engines \ Dropped
          /\ loaded'  = loaded \ Dropped
          /\ use'     = [r \in Requests |-> IF use[r] \in Dropped THEN "none" ELSE use[r]]
          /\ wake'    = now + Idle + Check
          /\ UNCHANGED <<limiterVars, last, need, lastLoad>>

\* The watcher runs when its sleep ends.
Time == /\ now < wake
        /\ Tick
        /\ UNCHANGED <<last, wake, routerVars>>

GatewayNext == \/ Time \/ Look \/ Unload \/ Public
               \/ \E c \in Credentials : Unauthorized(c)
               \/ \E h \in Hosts, c \in Credentials, p \in Paths :
                     \/ TooMany(h, c, p) \/ WithoutEngine(h, c, p)
                     \/ \E r \in Requests : Arrive(r, h, c, p)
               \/ \E r \in Requests : GetEngine(r) \/ Load(r) \/ Answer(r)

GatewaySpec == GatewayInit /\ [][GatewayNext]_gatewayVars
-----------------------------------------------------------------------------
(* The router lets go of a model at the latest a look after the idle time, *)
(* counted from the last arrival or from the latest load: whatever sleep   *)
(* the watcher was in at the time, the long one after an unload included,  *)
(* and although a load may come long after the arrival that asked for it.  *)
FreedInTime == loaded # {} => \/ now <= last + Idle + Check
                              \/ now <= lastLoad + Idle + Check
=============================================================================
