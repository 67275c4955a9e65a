------------------------------ MODULE ModelStore ------------------------------
(***************************************************************************)
(* The bucket aiops-models: src/ml/train_model.py and the streaming job    *)
(* both write their model to the same two paths, each with overwrite(),    *)
(* which removes the path before it writes; the trainer adds metadata.     *)
(* A model is the number of the fit it came from; 0 is no model.           *)
(***************************************************************************)
EXTENDS Naturals, FiniteSets

CONSTANT MaxFits  \* bound: how many models are fitted

ModelWriter == {"trainer", "job"}

Artefact == {"nlp_pipeline", "kmeans_model"}

Idle == <<"idle">>

VARIABLES
    store,   \* the fit of each artefact
    meta,    \* the fit model_metadata.json describes
    fit,     \* the last fit of each writer
    stage,   \* what a writer does next: nothing, remove or write an artefact, or "meta"
    fits,    \* how many models were fitted
    dirty,   \* history: the fits whose saves were cut short or met another's
    clean    \* history: the fit saved last, if nothing disturbed it; 0 otherwise

storeVars == <<store, meta, fit, stage, fits, dirty, clean>>

Saving(w) == stage[w] # Idle

Goto(w, here, there) == stage[w] = here /\ stage' = [stage EXCEPT ![w] = there]

\* A model is fitted and its first artefact is about to be saved.
Fit(w) ==
    /\ fits < MaxFits /\ fits' = fits + 1
    /\ Goto(w, Idle, <<"remove", "nlp_pipeline">>)
    /\ fit' = [fit EXCEPT ![w] = fits']
    /\ dirty' = IF \E v \in ModelWriter : Saving(v)
                THEN dirty \cup {fits'} \cup {fit[v] : v \in {u \in ModelWriter : Saving(u)}}
                ELSE dirty
    /\ clean' = 0
    /\ UNCHANGED <<store, meta>>

RemovePath(w, a) ==
    /\ Goto(w, <<"remove", a>>, <<"write", a>>)
    /\ store' = [store EXCEPT ![a] = 0]
    /\ UNCHANGED <<meta, fit, fits, dirty, clean>>

\* Mutant of After: the job saves the pipeline only.
AfterPipelineOnly(w, a) ==
    CASE w = "job"                              -> Idle
      [] w = "trainer" /\ a = "nlp_pipeline"   -> <<"remove", "kmeans_model">>
      [] w = "trainer" /\ a = "kmeans_model"   -> <<"meta">>

After(w, a) ==
    CASE a = "nlp_pipeline"                     -> <<"remove", "kmeans_model">>
      [] a = "kmeans_model" /\ w = "trainer"   -> <<"meta">>
      [] a = "kmeans_model" /\ w = "job"       -> Idle

Finished(w) == clean' = IF fit[w] \in dirty THEN 0 ELSE fit[w]

\* The files are written.
Write(w, a) ==
    /\ store[a] = 0
    /\ Goto(w, <<"write", a>>, After(w, a))
    /\ store' = [store EXCEPT ![a] = fit[w]]
    /\ IF After(w, a) = Idle THEN Finished(w) ELSE UNCHANGED clean
    /\ UNCHANGED <<meta, fit, fits, dirty>>

\* A save raises - the store is away, or a path is there again - or the process
\* dies.  The trainer ends with it, the job goes on with the model in memory.
GivesUp(w) ==
    /\ Saving(w)
    /\ stage' = [stage EXCEPT ![w] = Idle]
    /\ dirty' = dirty \cup {fit[w]}
    /\ UNCHANGED <<store, meta, fit, fits, clean>>

PutMetadata ==
    /\ Goto("trainer", <<"meta">>, Idle)
    /\ meta' = fit["trainer"]
    /\ Finished("trainer")
    /\ UNCHANGED <<store, fit, fits, dirty>>

StoreInit ==
    /\ store = [a \in Artefact |-> 0] /\ meta = 0
    /\ fit = [w \in ModelWriter |-> 0] /\ stage = [w \in ModelWriter |-> Idle]
    /\ fits = 0 /\ dirty = {} /\ clean = 0

StoreNext ==
    \/ \E w \in ModelWriter :
          Fit(w) \/ GivesUp(w) \/ \E a \in Artefact : RemovePath(w, a) \/ Write(w, a)
    \/ PutMetadata

StoreSpec == StoreInit /\ [][StoreNext]_storeVars

-----------------------------------------------------------------------------
(* Properties.                                                             *)

\* After a save that was neither cut short nor met by the other writer's, both paths
\* hold that model: the order of removals and writes of earlier saves, broken ones
\* among them, leaves no trace (train_model.py:210-213, stream_processor.py:212-213).
CleanSaveIsStored == clean # 0 => \A a \in Artefact : store[a] = clean

\* Two artefacts of different fits are side by side, with nobody writing, only if one
\* of the two fits was disturbed.
MixedOnlyIfDisturbed ==
    (\A w \in ModelWriter : ~Saving(w)) /\ (\A a \in Artefact : store[a] # 0)
        => \/ \A a, b \in Artefact : store[a] = store[b]
           \/ \E a \in Artefact : store[a] \in dirty

\* The pipeline and the clustering that are loaded together were fitted together.
ModelsMatch == CleanSaveIsStored /\ MixedOnlyIfDisturbed

=============================================================================
