----------------------------- MODULE ModelChoice -----------------------------
(***************************************************************************)
(* The model of a thread as the composer shows, seeds, repairs and writes it  *)
(* (Composer.tsx, ModelPicker.tsx, runtime.tsx). The model is kept by the     *)
(* server; the composer reads it on every change of route (thread and         *)
(* catalog), puts a model the catalog knows in place of one it does not, and  *)
(* the user picks another one meanwhile.                                     *)
(*                                                                         *)
(* A thread stands for a session with the agent its tab shows. A request is   *)
(* served at one step and answered at a later one.                           *)
(***************************************************************************)
EXTENDS Naturals, FiniteSets, FiniteSetsExt

CONSTANTS
  Threads, None,
  Providers,     \* the values of providerOverride but None, the native one
  CatalogIds,    \* CLI_CATALOG_IDS
  Registered,    \* the providers the server has
  Catalog,       \* the models of each catalog
  Preferred,     \* preferredCatalogModel of each catalog
  MaxMoves,      \* changes of route and picks
  MaxJobs        \* operations in flight

Models == UNION {Catalog[provider] : provider \in CatalogIds \cup {None}}

VARIABLES
  active, provider,   \* the thread on screen, providerOverride
  models,     \* the model of each thread at the server
  last,       \* the last model picked by hand with each catalog
  seeds,      \* threads that wait for their first model
  shown,      \* agentModel
  loading,    \* agentModelLoading
  cache,      \* agentModelCache
  jobs,       \* fetchAgentModel and resetActiveAgentModelToProviderDefault under way
  pick,       \* the model picker's write in flight
  chosen,     \* the model picked by hand for a thread with the provider of now, unless
              \* a first model was written over it or the thread left contested
  contested,  \* threads written while another operation on them was under way or with the
              \* provider gone, by a reset (the composer is not told), or by a failed request
  unread,     \* whether the last read of what is on screen failed
  moves

vars == <<active, provider, models, last, seeds, shown, loading, cache, jobs, pick,
          chosen, contested, unread, moves>>

---------------------------------------------------------------------------
(* catalogOf: only some providers have a catalog of their own. *)
CatalogOf(name) == IF name \in CatalogIds THEN name ELSE None

CanSwitch(name) == name \in CatalogIds \cup {None}

\* Mutant: the session is not compared.
MutStillCurrent(job) == job.catalog = CatalogOf(provider)

(* stillCurrent: what a job was started for is still on screen. *)
StillCurrent(job) == job.thread = active /\ job.catalog = CatalogOf(provider)

(* initialSessionCatalogModel: the model last picked, if the catalog has it. *)
InitialModel(catalog) == IF last[catalog] \in Catalog[catalog] THEN last[catalog] ELSE None

(* The choice of a reset: the remembered model, else the first. *)
DefaultModel(catalog) ==
  IF InitialModel(catalog) # None THEN InitialModel(catalog) ELSE Preferred[catalog]

Others(thread, own) == {job \in jobs : job.thread = thread} \ own

(* A write meets another operation on its thread, or outlives its provider. *)
Meets(write) ==
  \/ Others(write.thread, {write}) # {}
  \/ pick \notin {None, write} /\ pick.thread = write.thread
  \/ write.catalog # CatalogOf(provider)

Contested(write) == IF Meets(write) THEN contested \cup {write.thread} ELSE contested

Id == Min({id \in 1..MaxJobs : \A job \in jobs : job.id # id})

Read(thread, catalog) ==
  [id |-> Id, reset |-> FALSE, thread |-> thread, catalog |-> catalog,
   seed |-> thread \in seeds, stage |-> "get", got |-> None, target |-> None]

\* Bounds: so many changes, the last of them with nothing in flight.
Move == /\ moves < MaxMoves /\ Cardinality(jobs) + 2 <= MaxJobs
        /\ moves + 1 = MaxMoves => jobs = {} /\ pick = None
        /\ moves' = moves + 1

---------------------------------------------------------------------------
(* The effect of a change of route: what the cache knows is painted at once,  *)
(* and the model is read.                                                   *)
Paint(thread, name, running) ==
  LET catalog == CatalogOf(name)
      known == cache[<<thread, catalog>>]
  IN /\ active' = thread
     /\ provider' = name
     /\ unread' = FALSE
     /\ IF CanSwitch(name)
        THEN /\ shown' = known
             /\ loading' = (known = None)
             /\ jobs' = running \cup {Read(thread, catalog)}
             /\ contested' = IF Others(thread, {}) = {} /\ (pick = None \/ pick.thread # thread)
                             THEN contested \ {thread} ELSE contested
        ELSE /\ shown' = None
             /\ loading' = FALSE
             /\ jobs' = running
             /\ UNCHANGED contested

SelectThread ==
  \E thread \in Threads \ {active} :
    /\ Move
    /\ Paint(thread, provider, jobs)
    /\ chosen' = [chosen EXCEPT ![thread] = IF thread \in contested THEN None ELSE @]
    /\ UNCHANGED <<models, last, seeds, cache, pick>>

Reset(catalog) ==
  [id |-> MaxJobs + 1, reset |-> TRUE, thread |-> active, catalog |-> catalog,
   seed |-> FALSE, stage |-> "catalog", got |-> None, target |-> None]

(* The settings of the host install another provider, and may ask for the      *)
(* default model of its catalog.                                             *)
SetProvider ==
  \E name \in (Providers \cup {None}) \ {provider} :
    /\ Move
    /\ \/ Paint(active, name, jobs)
       \/ /\ CanSwitch(name)
          /\ \A job \in jobs : ~job.reset
          /\ Paint(active, name, jobs \cup {Reset(CatalogOf(name))})
    /\ chosen' = [thread \in Threads |-> None]
    /\ UNCHANGED <<models, last, seeds, cache, pick>>

(* fetchProviders: a provider the server no longer has is given up. *)
Heal ==
  /\ provider \notin Registered \cup {None}
  /\ Cardinality(jobs) < MaxJobs
  /\ Paint(active, None, jobs)
  /\ chosen' = [thread \in Threads |-> None]
  /\ UNCHANGED <<models, last, seeds, cache, pick, moves>>

---------------------------------------------------------------------------
(* fetchAgentModel. *)

Replaced(job, next) == (jobs \ {job}) \cup {next}

(* The composer shows the result if its route is still on screen. *)
Committed(job, model) ==
  /\ cache' = [cache EXCEPT ![<<job.thread, job.catalog>>] = model]
  /\ jobs' = jobs \ {job}
  /\ IF StillCurrent(job)
     THEN shown' = model /\ loading' = FALSE /\ unread' = FALSE
     ELSE UNCHANGED <<shown, loading, unread>>

GetAnswered ==
  \E job \in jobs :
    /\ job.stage = "get"
    /\ jobs' = Replaced(job, [job EXCEPT !.stage = "catalog", !.got = models[job.thread]])
    /\ UNCHANGED <<active, provider, models, last, seeds, shown, loading, cache, pick,
                   chosen, contested, unread, moves>>

GetFails ==
  \E job \in jobs :
    /\ job.stage = "get"
    /\ jobs' = jobs \ {job}
    /\ IF StillCurrent(job)
       THEN shown' = None /\ loading' = FALSE /\ unread' = TRUE
       ELSE UNCHANGED <<shown, loading, unread>>
    /\ UNCHANGED <<active, provider, models, last, seeds, cache, pick, chosen, contested, moves>>

(* The model to write instead of the one read, if any. *)
Fallback(job) ==
  LET initial == IF job.seed THEN InitialModel(job.catalog) ELSE None
  IN IF initial # None THEN initial
     ELSE IF job.got \in Catalog[job.catalog] THEN None ELSE Preferred[job.catalog]

Repairs(job) == Fallback(job) \notin {None, job.got} /\ StillCurrent(job)

SeedResolved(job) ==
  /\ job.seed
  /\ StillCurrent(job)
  /\ InitialModel(job.catalog) \in {None, job.got}

CatalogAnswered ==
  \E job \in jobs :
    /\ ~job.reset
    /\ job.stage = "catalog"
    /\ IF Repairs(job)
       THEN /\ jobs' = Replaced(job, [job EXCEPT !.stage = "write", !.target = Fallback(job)])
            /\ UNCHANGED <<seeds, shown, loading, cache, unread>>
       ELSE /\ Committed(job, job.got)
            /\ seeds' = IF SeedResolved(job) THEN seeds \ {job.thread} ELSE seeds
    /\ UNCHANGED <<active, provider, models, last, pick, chosen, contested, moves>>

CatalogFails ==
  \E job \in jobs :
    /\ ~job.reset
    /\ job.stage = "catalog"
    /\ Committed(job, job.got)
    /\ UNCHANGED <<active, provider, models, last, seeds, pick, chosen, contested, moves>>

(* The server takes a write of a read or of a reset. *)
WriteServed ==
  \E job \in jobs :
    /\ job.stage = "write"
    /\ models' = [models EXCEPT ![job.thread] = job.target]
    /\ contested' = IF job.reset THEN contested \cup {job.thread}
                    ELSE Contested(job)
    /\ jobs' = IF job.reset THEN jobs \ {job} ELSE Replaced(job, [job EXCEPT !.stage = "written"])
    /\ chosen' = IF job.seed THEN [chosen EXCEPT ![job.thread] = None] ELSE chosen
    /\ UNCHANGED <<active, provider, last, seeds, shown, loading, cache, pick, unread, moves>>

WriteAnswered ==
  \E job \in jobs :
    /\ job.stage = "written"
    /\ Committed(job, job.target)
    /\ seeds' = IF job.seed /\ StillCurrent(job) THEN seeds \ {job.thread} ELSE seeds
    /\ UNCHANGED <<active, provider, models, last, pick, chosen, contested, moves>>

(* The write fails, before or after the server took it. *)
WriteFails ==
  \E job \in jobs :
    /\ job.stage \in {"write", "written"}
    /\ IF job.reset THEN jobs' = jobs \ {job} /\ UNCHANGED <<shown, loading, cache, unread>>
                    ELSE Committed(job, job.got)
    /\ contested' = IF job.stage = "written" THEN contested \cup {job.thread} ELSE contested
    /\ UNCHANGED <<active, provider, models, last, seeds, pick, chosen, moves>>

(* resetActiveAgentModelToProviderDefault has the catalog. *)
ResetGoesOn ==
  \E job \in jobs :
    /\ job.reset
    /\ job.stage = "catalog"
    /\ jobs' = IF StillCurrent(job)
               THEN Replaced(job, [job EXCEPT !.stage = "write",
                                              !.target = DefaultModel(job.catalog)])
               ELSE jobs \ {job}
    /\ UNCHANGED <<active, provider, models, last, seeds, shown, loading, cache, pick,
                   chosen, contested, unread, moves>>

---------------------------------------------------------------------------
(* The picker. *)

(* onChange, with the thread and the catalog the picker was rendered with. *)
Chosen(thread, catalog, model) ==
  /\ last' = [last EXCEPT ![catalog] = model]
  /\ shown' = model
  /\ cache' = [cache EXCEPT ![<<thread, catalog>>] = model]

(* A model that is shown already is remembered and not written. *)
Pick ==
  \E model \in Catalog[CatalogOf(provider)] :
    /\ CanSwitch(provider)
    /\ Move
    /\ IF model = shown
       THEN /\ Chosen(active, CatalogOf(provider), model)
            /\ UNCHANGED pick
       ELSE /\ pick = None
            /\ pick' = [thread |-> active, catalog |-> CatalogOf(provider),
                        model |-> model, stage |-> "write"]
            /\ UNCHANGED <<last, shown, cache>>
    /\ UNCHANGED <<active, provider, models, seeds, loading, jobs, chosen, contested, unread>>

PickServed ==
  /\ pick # None
  /\ pick.stage = "write"
  /\ models' = [models EXCEPT ![pick.thread] = pick.model]
  /\ contested' = Contested(pick)
  /\ pick' = [pick EXCEPT !.stage = "written"]
  /\ chosen' = [chosen EXCEPT ![pick.thread] =
                  IF pick.catalog = CatalogOf(provider) THEN pick.model ELSE None]
  /\ UNCHANGED <<active, provider, last, seeds, shown, loading, cache, jobs, unread, moves>>

(* The picker shows its model on whatever thread is on screen by then. *)
PickAnswered ==
  /\ pick # None
  /\ pick.stage = "written"
  /\ Chosen(pick.thread, pick.catalog, pick.model)
  /\ pick' = None
  /\ unread' = (unread /\ ~StillCurrent(pick))
  /\ contested' = IF StillCurrent(pick) THEN Contested(pick)
                  ELSE contested \cup {active}
  /\ UNCHANGED <<active, provider, models, seeds, loading, jobs, chosen, moves>>

PickFails ==
  /\ pick # None
  /\ contested' = IF pick.stage = "written" THEN contested \cup {pick.thread} ELSE contested
  /\ pick' = None
  /\ UNCHANGED <<active, provider, models, last, seeds, shown, loading, cache, jobs, chosen,
                 unread, moves>>

---------------------------------------------------------------------------
Init ==
  /\ active \in Threads
  /\ provider = None
  /\ models \in [Threads -> {Preferred[None]}]
  /\ last = [catalog \in CatalogIds \cup {None} |-> None]
  /\ seeds \in SUBSET Threads
  /\ shown = None
  /\ loading = TRUE
  /\ cache = [route \in Threads \X (CatalogIds \cup {None}) |-> None]
  /\ jobs = {[id |-> 1, reset |-> FALSE, thread |-> active, catalog |-> None,
              seed |-> active \in seeds, stage |-> "get", got |-> None, target |-> None]}
  /\ pick = None
  /\ chosen = [thread \in Threads |-> None]
  /\ contested = {}
  /\ unread = FALSE
  /\ moves = 0

Next ==
  \/ SelectThread \/ SetProvider \/ Heal
  \/ GetAnswered \/ GetFails
  \/ CatalogAnswered \/ CatalogFails
  \/ WriteServed \/ WriteAnswered \/ WriteFails
  \/ ResetGoesOn
  \/ Pick \/ PickServed \/ PickAnswered \/ PickFails

Spec == Init /\ [][Next]_vars

---------------------------------------------------------------------------
(* The placeholder of the picker goes away: something under way will paint     *)
(* what is on screen.                                                       *)
LoadingEnds ==
  loading => \E job \in jobs : ~job.reset /\ StillCurrent(job)

(* When nothing is under way the picker tells the model of the thread on       *)
(* screen, unless the last read failed or two operations met on the thread.         *)
ShownIsServed ==
  jobs = {} /\ pick = None /\ CanSwitch(provider) =>
    \/ shown = models[active] \/ unread \/ active \in contested

(* A model picked by hand stays the model of its thread while the provider     *)
(* stays, however often the thread is left, read and repaired again. Only the   *)
(* first model of a thread may be written over it.                            *)
PickKept ==
  \A thread \in Threads :
    chosen[thread] # None => models[thread] = chosen[thread] \/ thread \in contested

(* "This is a HAND-PICK -> remember it as this provider's "last model" so the    *)
(* next new session seeds onto it" (Composer.tsx:2407): a session with a model    *)
(* picked by hand is no new one. It does not hold: a thread whose first read      *)
(* failed or was left stays due, and the model picked since on another thread is   *)
(* written over the one picked on it.                                          *)
SeedSparesPick ==
  \A job \in jobs :
    job.seed /\ job.stage = "write" =>
      chosen[job.thread] \in {None, job.target} \/ job.thread \in contested \/ Meets(job)

ModelTold == LoadingEnds /\ ShownIsServed /\ PickKept
=============================================================================
