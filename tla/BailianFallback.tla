----------------------------- MODULE BailianFallback -----------------------------
(***************************************************************************)
(* BailianProvider.stream_response and BailianModelState: requests that fail *)
(* go on with the next model; what failed is kept for all requests, in a     *)
(* file and in .env.  One attempt is a stream of OpenAIStream, here only its  *)
(* outcome.  The steps between two awaits are atomic, but for a crash while   *)
(* the files are written.                                                    *)
(***************************************************************************)
EXTENDS Collections, SequencesExt

CONSTANTS
  Request,      \* requests to the provider
  Configured,   \* BAILIAN_MODELS: a sequence of models
  Asked,        \* the model each request asks for
  MaxRestarts,  \* bound: restarts of the server
  Unset         \* no working model

ASSUME BailianAssumption ==
  Configured \in Seq(ToSet(Configured)) /\ Unset \notin ToSet(Configured)

VARIABLES
  rq,        \* a request: where it is, its attempt, the bound on them, its model
  state,     \* BailianModelState._state: failed, working, available
  disk,      \* the state that the file holds
  env,       \* .env: BAILIAN_MODELS and MODEL
  models,    \* _bailian_models
  original,  \* _original_bailian_models
  restarts,
  tried      \* history: the models a request has tried while some were left

bailianVars == <<rq, state, disk, env, models, original, restarts, tried>>

Fresh == [failed |-> {}, working |-> Unset, available |-> <<>>]
Without(seq, set) == Keep(seq, {i \in DOMAIN seq : seq[i] \notin set})
-----------------------------------------------------------------------------
(* BailianModelState.                                                       *)

\* remove_failed_from_available.
RemoveFailed(st, all) == [st EXCEPT !.available = Without(all, st.failed)]

MarkFailed(st, m) == [st EXCEPT !.failed = @ \cup {m}]

\* set_working_model.
SetWorking(st, m) ==
  [st EXCEPT !.working = m,
             !.available = IF Contains(@, m) THEN @ ELSE Append(@, m)]

\* sync_to_env_file: only with a working model and available ones.
Sync(st) ==
  env' = IF st.working = Unset \/ st.available = <<>> THEN env
         ELSE [models |-> st.available, model |-> st.working]

\* _load_state: a file that is missing or cannot be read means a fresh state.
Load(readable) == IF readable THEN disk ELSE Fresh
-----------------------------------------------------------------------------
(* Requests.                                                                *)

IndexOf(seq, m) == CHOOSE i \in DOMAIN seq : seq[i] = m /\ \A j \in 1..(i - 1) : seq[j] # m

\* (mutant) the model after the one that failed, in the order of the configuration.
NextConfigured(m) ==
  IF Contains(original, m)
  THEN original[1 + (IndexOf(original, m) % Len(original))]
  ELSE original[1]

\* _get_next_model: after its failure a model is not in the list, so the first
\* one of what is left; a model that another request has put back in its place
\* is followed by the next.
NextModel(m) ==
  IF Contains(models', m)
  THEN models'[1 + (IndexOf(models', m) % Len(models'))]
  ELSE models'[1]

BBegin(r) ==
  /\ rq[r].at = "new"
  /\ rq' = [rq EXCEPT ![r] = [at |-> IF models = <<>> THEN "plain" ELSE "trying",
                              attempt |-> 0, max |-> Len(models) + 1, model |-> Asked[r]]]
  /\ tried' = [tried EXCEPT ![r] = <<Asked[r]>>]
  /\ UNCHANGED <<state, disk, env, models, original, restarts>>

\* An error is seen in a chunk: the model is out, and the next one is tried.
Fails(r) ==
  /\ rq[r].at = "trying"
  /\ LET st == RemoveFailed(MarkFailed(state, rq[r].model), original) IN
     /\ state' = st /\ disk' = st /\ models' = st.available
     /\ Sync(st)
  /\ IF rq[r].attempt + 1 = rq[r].max
     THEN rq' = [rq EXCEPT ![r].at = "over"] /\ UNCHANGED tried
     ELSE LET next == IF models' = <<>> THEN Asked[r] ELSE NextModel(rq[r].model) IN
          /\ rq' = [rq EXCEPT ![r].attempt = @ + 1, ![r].model = next]
          /\ tried' = IF models' = <<>> THEN tried ELSE [tried EXCEPT ![r] = Append(@, next)]
  /\ UNCHANGED <<original, restarts>>

\* The stream ends without an error.
Succeeds(r) ==
  /\ rq[r].at = "trying"
  /\ LET st == RemoveFailed(SetWorking(state, rq[r].model), original) IN
     state' = st /\ disk' = st
  /\ rq' = [rq EXCEPT ![r].at = "over"]
  /\ UNCHANGED <<env, models, original, restarts, tried>>

\* A stream without fallback ends, or one is cut or raises.
Ends(r) ==
  /\ rq[r].at \in {"plain", "trying"}
  /\ rq' = [rq EXCEPT ![r].at = "over"]
  /\ UNCHANGED <<state, disk, env, models, original, restarts, tried>>
-----------------------------------------------------------------------------
(* The world outside.                                                       *)

\* view_state --reset and --clear, beside the running server.
Reset ==
  /\ disk' \in {[disk EXCEPT !.failed = {}], Fresh}
  /\ UNCHANGED <<rq, state, env, models, original, restarts, tried>>

\* The server stops between two steps, or while a step writes its file, and
\* begins anew with what .env and the file say.
BRestart ==
  /\ restarts < MaxRestarts /\ restarts' = restarts + 1
  /\ \E readable \in {TRUE} \cup {rq[r].at # "trying" : r \in Request} :
       LET st == RemoveFailed(Load(readable), env.models) IN
       /\ state' = st /\ disk' = st /\ models' = st.available
       /\ original' = env.models
       /\ Sync(st)
  /\ rq' = [r \in Request |-> IF rq[r].at = "new" THEN rq[r] ELSE [rq[r] EXCEPT !.at = "over"]]
  /\ UNCHANGED tried

BailianInit ==
  /\ rq = [r \in Request |-> [at |-> "new", attempt |-> 0, max |-> 0, model |-> Unset]]
  /\ original = Configured
  /\ \E gone \in SUBSET ToSet(Configured) :
       state = [Fresh EXCEPT !.failed = gone, !.available = Without(Configured, gone)]
  /\ disk = state /\ models = state.available
  /\ env = [models |-> Configured, model |-> Unset]
  /\ restarts = 0 /\ tried = [r \in Request |-> <<>>]

BailianNext ==
  \/ \E r \in Request : BBegin(r) \/ Fails(r) \/ Succeeds(r) \/ Ends(r)
  \/ Reset \/ BRestart
-----------------------------------------------------------------------------
\* Whatever other requests fail meanwhile, a request that goes through the models
\* tries none a second time while there are others left, and never one that is
\* known to have failed.
NoModelTwice ==
  [][\A r \in Request :
       tried'[r] # tried[r] /\ Len(tried[r]) > 0 =>
         ~Contains(tried[r], Last(tried'[r])) /\ Last(tried'[r]) \notin state'.failed]_bailianVars
=============================================================================
