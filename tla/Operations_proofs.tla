--------------------------- MODULE Operations_proofs ---------------------------
(***************************************************************************)
(* What StackStartup, ModelStore and OfflineTrainer promise, proved for any*)
(* stack, any number of fits and any rows.                                 *)
(***************************************************************************)
EXTENDS StackStartup, ModelStore, OfflineTrainer, FiniteSetTheorems, TLAPS

-----------------------------------------------------------------------------
(* The start of the stack.                                                 *)

\* Why nothing writes too early: kafka-init reaches a command only behind those before it.
StepsInv ==
    /\ topics \subseteq AllTopics
    /\ init = Topics[2] => Topics[1] \in topics
    /\ init \in {"list", "completed"} => topics = AllTopics
    /\ WritersAfterTopics /\ SetupTruthful

\* What answered is among what ran since the attempt began.
SeenInv ==
    /\ asked \in Nat
    /\ answered \subseteq seen
    /\ \A c \in Container : Runs(c) => c \in seen
    /\ HealthySeen

StatusInv == status \in [Container -> {"created", "starting", "healthy", "dead"}]

StartupInv == StatusInv /\ StepsInv /\ SeenInv

LEMMA TopicsFacts ==
    /\ DOMAIN Topics = 1..2 /\ Len(Topics) = 2
    /\ Topics[1] = "system-logs" /\ Topics[2] = "critical-alerts"
    /\ AllTopics = {"system-logs", "critical-alerts"}
<1>1. /\ DOMAIN Topics = 1..2 /\ Len(Topics) = 2
      /\ Topics[1] = "system-logs" /\ Topics[2] = "critical-alerts"
  BY DEF Topics
<1>2. \A i : i \in 1..2 <=> i = 1 \/ i = 2
  OBVIOUS
<1>3. AllTopics = {Topics[i] : i \in DOMAIN Topics}
  BY DEF AllTopics, ToSet
<1>4. QED
  BY <1>1, <1>2, <1>3

\* The next status of a container; the rest of the stack keeps its own.
LEMMA StatusStep ==
    ASSUME StartupInv, NEW c \in Container, NEW to \in {"starting", "healthy", "dead"},
           SetStatus(c, to), (c \in Writer /\ status[c] = "created") => topics = AllTopics
    PROVE  StartupInv'
<1>1. /\ status' = [status EXCEPT ![c] = to]
      /\ UNCHANGED <<init, topics, setup, attempt, asked, answered, verdict>>
      /\ seen' = IF to = "dead" THEN seen ELSE seen \cup {c}
  BY DEF SetStatus
<1>2. StatusInv'
  BY <1>1 DEF StartupInv, StatusInv
<1>3. /\ status'[c] = to
      /\ \A d \in Container : d # c => status'[d] = status[d]
  BY <1>1 DEF StartupInv, StatusInv
<1>4. StepsInv'
  <2>1. ASSUME NEW w \in Writer, status'[w] # "created" PROVE topics' = AllTopics
    BY <1>1, <1>3, <2>1 DEF StartupInv, StepsInv, WritersAfterTopics, Container
  <2>2. QED
    BY <1>1, <2>1 DEF StartupInv, StepsInv, WritersAfterTopics, SetupTruthful
<1>5. SeenInv'
  <2>1. ASSUME NEW d \in Container, status'[d] \in {"starting", "healthy"} PROVE d \in seen'
    BY <1>1, <1>3, <2>1 DEF StartupInv, SeenInv, Runs
  <2>2. QED
    BY <1>1, <2>1 DEF StartupInv, SeenInv, HealthySeen, Runs
<1>6. QED
  BY <1>2, <1>4, <1>5 DEF StartupInv

LEMMA ContainerStep ==
    ASSUME StartupInv, NEW c \in Container, OfContainer(c) \/ Die(c) \/ StartAgain(c)
    PROVE  StartupInv'
<1>1. ASSUME Start(c) PROVE StartupInv'
  <2>1. ASSUME c \in Writer PROVE topics = AllTopics
    BY <1>1, <2>1, ContainerAssumption DEF Start, Dependencies, StartupInv, StepsInv
  <2>2. QED
    BY <1>1, <2>1, StatusStep DEF Start
<1>2. ASSUME Ready(c) PROVE StartupInv'
  BY <1>2, StatusStep DEF Ready
<1>3. ASSUME StartAgain(c) PROVE StartupInv'
  BY <1>3, StatusStep DEF StartAgain
<1>4. ASSUME Die(c) PROVE StartupInv'
  BY <1>4, StatusStep DEF Die
<1>5. QED
  BY <1>1, <1>2, <1>3, <1>4 DEF OfContainer

LEMMA InitStep ==
    ASSUME StartupInv, InitStart \/ InitCreate \/ InitList
    PROVE  StartupInv'
<1>1. UNCHANGED <<status, setup, attempt, asked, answered, verdict, seen>>
  BY DEF InitStart, InitCreate, InitList, checkVars
<1>2. StatusInv' /\ SeenInv'
  BY <1>1 DEF StartupInv, StatusInv, SeenInv, HealthySeen, Runs
<1>3. /\ topics \subseteq topics' /\ topics' \subseteq AllTopics
      /\ init' = Topics[2] => Topics[1] \in topics'
      /\ init' \in {"list", "completed"} => topics' = AllTopics
  <2>1. ASSUME InitStart
        PROVE  topics' = topics /\ init' = Topics[1]
    BY <2>1 DEF InitStart
  <2>2. ASSUME InitCreate
        PROVE  \/ topics' = topics /\ init' = "exited"
               \/ /\ topics' = topics \cup {Topics[1]} /\ init' = Topics[2]
               \/ /\ topics' = topics \cup {Topics[2]} /\ init' = "list"
                  /\ Topics[1] \in topics
    <3>1. PICK i \in 1..2 :
             /\ init = Topics[i]
             /\ LET created == Up(Bootstrap) /\ (Topics[i] \in topics \/ CanCreate)
                IN /\ topics' = IF created THEN topics \cup {Topics[i]} ELSE topics
                   /\ init' = AfterCreate(i, created)
      BY <2>2, TopicsFacts DEF InitCreate
    <3>2. CASE i = 1
      BY <3>1, <3>2, TopicsFacts DEF AfterCreate
    <3>3. CASE i = 2
      BY <3>1, <3>3, TopicsFacts DEF AfterCreate, StartupInv, StepsInv
    <3>4. QED
      BY <3>2, <3>3
  <2>3. ASSUME InitList
        PROVE  topics' = topics /\ init = "list" /\ init' \in {"completed", "exited"}
    BY <2>3 DEF InitList
  <2>4. QED
    BY <2>1, <2>2, <2>3, TopicsFacts DEF StartupInv, StepsInv
<1>4. StepsInv'
  BY <1>1, <1>3 DEF StartupInv, StepsInv, WritersAfterTopics, SetupTruthful
<1>5. QED
  BY <1>2, <1>4 DEF StartupInv

LEMMA ComposeStep ==
    ASSUME StartupInv, ComposeAborts \/ ComposeAgain
    PROVE  StartupInv'
<1>1. /\ UNCHANGED <<status, setup, topics, attempt, asked, answered, verdict, seen>>
      /\ init' = init \/ init' = "created"
  BY DEF ComposeAborts, ComposeAgain, checkVars
<1>2. StatusInv' /\ SeenInv'
  BY <1>1 DEF StartupInv, StatusInv, SeenInv, HealthySeen, Runs
<1>3. StepsInv'
  BY <1>1, TopicsFacts DEF StartupInv, StepsInv, WritersAfterTopics, SetupTruthful
<1>4. QED
  BY <1>2, <1>3 DEF StartupInv

LEMMA SetupStep ==
    ASSUME StartupInv, SetupWait \/ SetupCreate \/ SetupVerify
    PROVE  StartupInv'
<1>1. UNCHANGED <<status, init, attempt, asked, answered, verdict, seen>>
  BY DEF SetupWait, SetupCreate, SetupVerify, checkVars
<1>2. StatusInv' /\ SeenInv'
  BY <1>1 DEF StartupInv, StatusInv, SeenInv, HealthySeen, Runs
<1>3. topics \subseteq topics' /\ topics' \subseteq AllTopics
  BY DEF SetupWait, SetupCreate, SetupVerify, StartupInv, StepsInv
<1>4. setup' = "complete" => topics' = AllTopics
  <2>1. ASSUME SetupVerify PROVE setup' = "complete" => topics' = AllTopics
    BY <2>1 DEF SetupVerify, Verified, StartupInv, StepsInv
  <2>2. ASSUME SetupWait \/ SetupCreate PROVE setup' # "complete"
    BY <2>2 DEF SetupWait, SetupCreate
  <2>3. QED
    BY <2>1, <2>2
<1>5. StepsInv'
  BY <1>1, <1>3, <1>4 DEF StartupInv, StepsInv, WritersAfterTopics, SetupTruthful
<1>6. QED
  BY <1>2, <1>5 DEF StartupInv

LEMMA CheckStep ==
    ASSUME StartupInv, Ask \/ Conclude
    PROVE  StartupInv'
<1>1. UNCHANGED <<status, init, topics, setup>>
  BY DEF Ask, Conclude
<1>2. StatusInv' /\ StepsInv'
  BY <1>1 DEF StartupInv, StatusInv, StepsInv, WritersAfterTopics, SetupTruthful
<1>3. ASSUME Ask PROVE SeenInv'
  <2> DEFINE c == Services[asked + 1]
  <2>1. c \in Container
    BY <1>3, ServicesAssumption DEF Ask, StartupInv, SeenInv, Container
  <2>2. (Runs(c) /\ answered' = answered \cup {c}) \/ answered' = answered
    BY <1>3 DEF Ask
  <2> HIDE DEF c
  <2>3. asked' = asked + 1 /\ UNCHANGED <<verdict, seen>> /\ verdict = "none"
    BY <1>3 DEF Ask
  <2>4. QED
    BY <1>1, <2>1, <2>2, <2>3 DEF StartupInv, SeenInv, HealthySeen, Runs
<1>4. ASSUME Conclude PROVE SeenInv'
  <2>1. CASE ToSet(Services) \subseteq answered
    BY <1>1, <1>4, <2>1 DEF Conclude, StartupInv, SeenInv, HealthySeen, Runs
  <2>2. CASE ~(ToSet(Services) \subseteq answered) /\ attempt < Retries
    BY <1>1, <1>4, <2>2 DEF Conclude, StartupInv, SeenInv, HealthySeen, Runs, Kept, Container
  <2>3. CASE ~(ToSet(Services) \subseteq answered) /\ ~(attempt < Retries)
    BY <1>1, <1>4, <2>3 DEF Conclude, StartupInv, SeenInv, HealthySeen, Runs
  <2>4. QED
    BY <2>1, <2>2, <2>3
<1>5. QED
  BY <1>2, <1>3, <1>4 DEF StartupInv

\* The invariant of the start.
THEOREM StartupInvariance == StartupSpec => []StartupInv
<1>1. StartupInit => StartupInv
  BY TopicsFacts DEF StartupInit, StartupInv, StatusInv, StepsInv, SeenInv, WritersAfterTopics,
     SetupTruthful, HealthySeen, Runs, Container
<1>2. StartupInv /\ [StartupNext]_stackVars => StartupInv'
  <2> SUFFICES ASSUME StartupInv, [StartupNext]_stackVars PROVE StartupInv'
    OBVIOUS
  <2>1. ASSUME UNCHANGED stackVars PROVE StartupInv'
    BY <2>1 DEF stackVars, checkVars, StartupInv, StatusInv, StepsInv, SeenInv,
       WritersAfterTopics, SetupTruthful, HealthySeen, Runs
  <2>2. QED
    BY <2>1, ContainerStep, InitStep, ComposeStep, SetupStep, CheckStep DEF StartupNext
<1>3. QED
  BY <1>1, <1>2, PTL DEF StartupSpec

\* Nothing writes before both topics exist, "topic setup complete" is true, and each
\* service counted as healthy ran at some time of the last attempt, whatever dies
\* meanwhile and however often docker-compose up gives up and is run again.
THEOREM StartupIsTruthful == StartupSpec => []StartupTruthful
<1>1. StartupInv => StartupTruthful
  BY DEF StartupInv, StepsInv, SeenInv, StartupTruthful
<1>2. QED
  BY <1>1, StartupInvariance, PTL

-----------------------------------------------------------------------------
(* The model store.                                                        *)

\* Two models saved at the same time are both disturbed.
Alone == \A w, v \in ModelWriter : Saving(w) /\ Saving(v) /\ w # v => fit[w] \in dirty

\* What an undisturbed save has done so far.
Progress(w) ==
    /\ stage[w] = <<"write", "nlp_pipeline">> => store["nlp_pipeline"] = 0
    /\ stage[w] = <<"remove", "kmeans_model">> => store["nlp_pipeline"] = fit[w]
    /\ stage[w] = <<"write", "kmeans_model">>
          => store["nlp_pipeline"] = fit[w] /\ store["kmeans_model"] = 0
    /\ stage[w] = <<"meta">> => \A a \in Artefact : store[a] = fit[w]

Stages == {<<"remove", a>> : a \in Artefact} \cup {<<"write", a>> : a \in Artefact}
             \cup {Idle, <<"meta">>}

\* Artefacts of two undisturbed fits stand together only halfway through a save.
MixedInv ==
    /\ \A a \in Artefact : store[a] # 0 /\ store[a] \notin dirty
    /\ store["nlp_pipeline"] # store["kmeans_model"]
    => \E w \in ModelWriter : /\ stage[w] = <<"remove", "kmeans_model">>
                              /\ store["nlp_pipeline"] = fit[w]

StoreInv ==
    /\ store \in [Artefact -> Nat] /\ fit \in [ModelWriter -> Nat]
    /\ stage \in [ModelWriter -> Stages] /\ fits \in Nat
    /\ Alone
    /\ \A w \in ModelWriter : Saving(w) /\ fit[w] \notin dirty => Progress(w)
    /\ clean # 0 => \A w \in ModelWriter : ~Saving(w)
    /\ CleanSaveIsStored
    /\ MixedInv

LEMMA StageFacts ==
    /\ Idle \in Stages /\ <<"meta">> \in Stages /\ <<"meta">> # Idle
    /\ \A a \in Artefact : /\ <<"remove", a>> \in Stages /\ <<"write", a>> \in Stages
                           /\ <<"remove", a>> # Idle /\ <<"write", a>> # Idle
                           /\ <<"remove", a>> # <<"meta">> /\ <<"write", a>> # <<"meta">>
                           /\ \A b \in Artefact : <<"remove", a>> # <<"write", b>>
                           /\ \A b \in Artefact : <<"remove", a>> = <<"remove", b>> => a = b
                           /\ \A b \in Artefact : <<"write", a>> = <<"write", b>> => a = b
    /\ Artefact = {"nlp_pipeline", "kmeans_model"}
    /\ "nlp_pipeline" # "kmeans_model"
BY DEF Stages, Idle, Artefact

LEMMA FitKept ==
    ASSUME StoreInv, NEW w \in ModelWriter, Fit(w)
    PROVE  StoreInv'
<1> DEFINE busy == {u \in ModelWriter : Saving(u)}
<1> DEFINE marked == IF \E v \in ModelWriter : Saving(v)
                     THEN dirty \cup {fits'} \cup {fit[v] : v \in busy} ELSE dirty
<1>1. /\ fits' = fits + 1 /\ stage[w] = Idle
      /\ stage' = [stage EXCEPT ![w] = <<"remove", "nlp_pipeline">>]
      /\ fit' = [fit EXCEPT ![w] = fits'] /\ dirty' = marked /\ clean' = 0
      /\ store' = store
  BY DEF Fit, Goto
<1>2. /\ store' \in [Artefact -> Nat] /\ fit' \in [ModelWriter -> Nat]
      /\ stage' \in [ModelWriter -> Stages] /\ fits' \in Nat
  BY <1>1, StageFacts DEF StoreInv
<1>3. /\ stage'[w] = <<"remove", "nlp_pipeline">> /\ fit'[w] = fits'
      /\ \A v \in ModelWriter : v # w => stage'[v] = stage[v] /\ fit'[v] = fit[v]
  BY <1>1 DEF StoreInv
<1>4. /\ dirty \subseteq dirty'
      /\ \A v \in busy : fit[v] \in dirty' /\ fits' \in dirty'
  BY <1>1
<1>5. \A v \in ModelWriter : v # w /\ Saving(v)' => v \in busy
  BY <1>3 DEF Saving
<1> HIDE DEF busy, marked
<1>6. Alone'
  <2>1. ASSUME NEW u \in ModelWriter, NEW v \in ModelWriter, Saving(u)', Saving(v)', u # v
        PROVE  fit'[u] \in dirty'
    BY <1>3, <1>4, <1>5, <2>1
  <2>2. QED
    BY <2>1 DEF Alone
<1>7. \A v \in ModelWriter : Saving(v)' /\ fit'[v] \notin dirty' => Progress(v)'
  <2>1. Progress(w)'
    BY <1>3, StageFacts DEF Progress
  <2>2. ASSUME NEW v \in ModelWriter, v # w, Saving(v)' PROVE fit'[v] \in dirty'
    BY <1>3, <1>4, <1>5, <2>2
  <2>3. QED
    BY <2>1, <2>2
<1>8. CleanSaveIsStored' /\ (clean' # 0 => \A v \in ModelWriter : ~Saving(v)')
  BY <1>1 DEF CleanSaveIsStored
<1>9. MixedInv'
  <2>1. ASSUME NEW v \in ModelWriter, stage[v] = <<"remove", "kmeans_model">>
        PROVE  stage'[v] = stage[v] /\ fit'[v] = fit[v]
    BY <1>1, <1>3, <2>1, StageFacts
  <2>2. QED
    BY <1>1, <1>4, <2>1 DEF StoreInv, MixedInv
<1>10. QED
  BY <1>2, <1>6, <1>7, <1>8, <1>9 DEF StoreInv

\* A writer goes on or ends; the other, if it saves too, is disturbed.
LEMMA GoesOn ==
    ASSUME StoreInv, NEW w \in ModelWriter, Saving(w), NEW there \in Stages,
           stage' = [stage EXCEPT ![w] = there], fit' = fit, dirty \subseteq dirty'
    PROVE  /\ stage' \in [ModelWriter -> Stages] /\ stage'[w] = there
           /\ \A v \in ModelWriter : v # w => stage'[v] = stage[v]
           /\ \A v \in ModelWriter : v # w /\ Saving(v)' => Saving(v) /\ fit[v] \in dirty'
           /\ Alone' /\ clean = 0
           /\ \A v \in ModelWriter : v # w /\ Saving(v) => fit[w] \in dirty
<1>1. /\ stage' \in [ModelWriter -> Stages] /\ stage'[w] = there
      /\ \A v \in ModelWriter : v # w => stage'[v] = stage[v]
  BY DEF StoreInv
<1>2. \A v \in ModelWriter : v # w /\ Saving(v)' => Saving(v)
  BY <1>1 DEF Saving
<1>3. \A v \in ModelWriter : Saving(v)' => Saving(v)
  BY <1>2
<1>4. Alone'
  BY <1>3 DEF Alone, StoreInv
<1>5. \A v \in ModelWriter : v # w /\ Saving(v) => fit[v] \in dirty /\ fit[w] \in dirty
  BY DEF Alone, StoreInv
<1>6. clean = 0
  BY DEF StoreInv
<1>7. QED
  BY <1>1, <1>2, <1>4, <1>5, <1>6

LEMMA RemoveKept ==
    ASSUME StoreInv, NEW w \in ModelWriter, NEW a \in Artefact, RemovePath(w, a)
    PROVE  StoreInv'
<1>1. /\ stage[w] = <<"remove", a>> /\ stage' = [stage EXCEPT ![w] = <<"write", a>>]
      /\ store' = [store EXCEPT ![a] = 0] /\ UNCHANGED <<fit, fits, dirty, clean>>
  BY DEF RemovePath, Goto
<1>2. Saving(w)
  BY <1>1, StageFacts DEF Saving
<1>3. <<"write", a>> \in Stages
  BY StageFacts
<1>4. /\ stage' \in [ModelWriter -> Stages] /\ stage'[w] = <<"write", a>>
      /\ \A v \in ModelWriter : v # w => stage'[v] = stage[v]
      /\ \A v \in ModelWriter : v # w /\ Saving(v)' => fit[v] \in dirty'
      /\ Alone' /\ clean = 0
  BY <1>1, <1>2, <1>3, GoesOn
<1>5. /\ store' \in [Artefact -> Nat] /\ store'[a] = 0
      /\ \A b \in Artefact : b # a => store'[b] = store[b]
  BY <1>1 DEF StoreInv
<1>6. ASSUME fit[w] \notin dirty PROVE Progress(w)'
  <2>1. a = "kmeans_model" => store["nlp_pipeline"] = fit[w]
    BY <1>1, <1>2, <1>6 DEF StoreInv, Progress
  <2>2. stage'[w] = <<"write", a>> /\ fit' = fit
    BY <1>1, <1>4
  <2>3. /\ a = "nlp_pipeline" => Progress(w)'
        /\ a = "kmeans_model" => Progress(w)'
    BY <1>5, <2>1, <2>2, StageFacts DEF Progress
  <2>4. QED
    BY <2>3, StageFacts
<1>7. \A v \in ModelWriter : Saving(v)' /\ fit'[v] \notin dirty' => Progress(v)'
  BY <1>1, <1>4, <1>6
<1>8. CleanSaveIsStored' /\ (clean' # 0 => \A v \in ModelWriter : ~Saving(v)')
  BY <1>1, <1>4 DEF CleanSaveIsStored
<1>9. MixedInv'
  BY <1>5, StageFacts DEF MixedInv
<1>10. QED
  BY <1>1, <1>4, <1>5, <1>7, <1>8, <1>9 DEF StoreInv

\* What a writer does after an artefact.
LEMMA AfterFacts ==
    ASSUME NEW w \in ModelWriter, NEW a \in Artefact
    PROVE  /\ After(w, a) \in Stages
           /\ a = "nlp_pipeline" => After(w, a) = <<"remove", "kmeans_model">>
           /\ a = "kmeans_model" => After(w, a) \in {<<"meta">>, Idle}
<1>1. a = "nlp_pipeline" => After(w, a) = <<"remove", "kmeans_model">>
  BY DEF After
<1>2. a = "kmeans_model" => After(w, a) \in {<<"meta">>, Idle}
  BY StageFacts DEF After, ModelWriter
<1>3. QED
  BY <1>1, <1>2, StageFacts

LEMMA WriteKept ==
    ASSUME StoreInv, NEW w \in ModelWriter, NEW a \in Artefact, Write(w, a)
    PROVE  StoreInv'
<1> DEFINE there == After(w, a)
<1>1. /\ stage[w] = <<"write", a>> /\ stage' = [stage EXCEPT ![w] = there]
      /\ store' = [store EXCEPT ![a] = fit[w]] /\ UNCHANGED <<fit, fits, dirty>>
      /\ IF there = Idle THEN Finished(w) ELSE UNCHANGED clean
  BY DEF Write, Goto
<1>2. /\ there \in Stages
      /\ a = "nlp_pipeline" => there = <<"remove", "kmeans_model">>
      /\ a = "kmeans_model" => there \in {<<"meta">>, Idle}
  BY AfterFacts
<1> HIDE DEF there
<1>3. Saving(w)
  BY <1>1, StageFacts DEF Saving
<1>4. /\ stage' \in [ModelWriter -> Stages] /\ stage'[w] = there
      /\ \A v \in ModelWriter : v # w => stage'[v] = stage[v]
      /\ \A v \in ModelWriter : v # w /\ Saving(v)' => Saving(v) /\ fit[v] \in dirty'
      /\ Alone' /\ clean = 0
      /\ \A v \in ModelWriter : v # w /\ Saving(v) => fit[w] \in dirty
  BY <1>1, <1>2, <1>3, GoesOn
<1>5. /\ store' \in [Artefact -> Nat] /\ store'[a] = fit[w]
      /\ \A b \in Artefact : b # a => store'[b] = store[b]
  BY <1>1 DEF StoreInv
<1>6. ASSUME fit[w] \notin dirty, a = "kmeans_model"
      PROVE  \A b \in Artefact : store'[b] = fit[w]
  <2>1. store["nlp_pipeline"] = fit[w]
    BY <1>1, <1>3, <1>6 DEF StoreInv, Progress
  <2>2. QED
    BY <1>5, <1>6, <2>1, StageFacts
<1>7. ASSUME fit[w] \notin dirty PROVE Progress(w)'
  <2>1. CASE a = "nlp_pipeline"
    BY <1>1, <1>2, <1>4, <1>5, <2>1, StageFacts DEF Progress
  <2>2. CASE a = "kmeans_model"
    <3>1. /\ stage'[w] # <<"write", "nlp_pipeline">> /\ stage'[w] # <<"remove", "kmeans_model">>
          /\ stage'[w] # <<"write", "kmeans_model">>
      BY <1>2, <1>4, <2>2, StageFacts
    <3>2. QED
      BY <1>1, <1>6, <1>7, <2>2, <3>1 DEF Progress
  <2>3. QED
    BY <2>1, <2>2, StageFacts
<1>8. \A v \in ModelWriter : Saving(v)' /\ fit'[v] \notin dirty' => Progress(v)'
  BY <1>1, <1>4, <1>7
<1>9. CleanSaveIsStored' /\ (clean' # 0 => \A v \in ModelWriter : ~Saving(v)')
  <2>1. ASSUME clean' # 0
        PROVE  /\ \A v \in ModelWriter : ~Saving(v)'
               /\ \A b \in Artefact : store'[b] = clean'
    <3>1. there = Idle /\ clean' = fit[w] /\ fit[w] \notin dirty
      BY <1>1, <1>4, <2>1 DEF Finished
    <3>2. a = "kmeans_model"
      BY <1>2, <3>1, StageFacts
    <3>3. \A v \in ModelWriter : ~Saving(v)'
      BY <1>4, <3>1 DEF Saving
    <3>4. QED
      BY <1>6, <3>1, <3>2, <3>3
  <2>2. QED
    BY <2>1 DEF CleanSaveIsStored
<1>10. MixedInv'
  <2> SUFFICES ASSUME \A b \in Artefact : store'[b] # 0 /\ store'[b] \notin dirty',
                      store'["nlp_pipeline"] # store'["kmeans_model"]
               PROVE  stage'[w] = <<"remove", "kmeans_model">> /\ store'["nlp_pipeline"] = fit'[w]
    BY DEF MixedInv
  <2>1. fit[w] \notin dirty
    BY <1>1, <1>5
  <2>2. a # "kmeans_model"
    BY <1>6, <2>1, StageFacts
  <2>3. QED
    BY <1>1, <1>2, <1>4, <1>5, <2>2, StageFacts
<1>11. QED
  BY <1>1, <1>4, <1>5, <1>8, <1>9, <1>10 DEF StoreInv

LEMMA GivesUpKept ==
    ASSUME StoreInv, NEW w \in ModelWriter, GivesUp(w)
    PROVE  StoreInv'
<1>1. /\ Saving(w) /\ stage' = [stage EXCEPT ![w] = Idle]
      /\ dirty' = dirty \cup {fit[w]} /\ UNCHANGED <<store, fit, fits, clean>>
  BY DEF GivesUp
<1>2. /\ stage' \in [ModelWriter -> Stages] /\ stage'[w] = Idle
      /\ \A v \in ModelWriter : v # w => stage'[v] = stage[v]
      /\ \A v \in ModelWriter : v # w /\ Saving(v)' => Saving(v) /\ fit[v] \in dirty'
      /\ Alone' /\ clean = 0
  BY <1>1, StageFacts, GoesOn
<1>3. \A v \in ModelWriter : Saving(v)' => fit'[v] \in dirty'
  BY <1>1, <1>2
<1>4. MixedInv'
  <2> SUFFICES ASSUME \A b \in Artefact : store[b] # 0 /\ store[b] \notin dirty',
                      store["nlp_pipeline"] # store["kmeans_model"]
               PROVE  \E v \in ModelWriter : /\ stage'[v] = <<"remove", "kmeans_model">>
                                             /\ store["nlp_pipeline"] = fit[v]
    BY <1>1 DEF MixedInv
  <2>1. PICK v \in ModelWriter : /\ stage[v] = <<"remove", "kmeans_model">>
                                 /\ store["nlp_pipeline"] = fit[v]
    BY <1>1 DEF StoreInv, MixedInv
  <2>2. v # w
    BY <1>1, <2>1, StageFacts
  <2>3. QED
    BY <1>2, <2>1, <2>2
<1>5. CleanSaveIsStored' /\ (clean' # 0 => \A v \in ModelWriter : ~Saving(v)')
  BY <1>1, <1>2 DEF CleanSaveIsStored
<1>6. QED
  BY <1>1, <1>2, <1>3, <1>4, <1>5 DEF StoreInv

LEMMA MetadataKept ==
    ASSUME StoreInv, PutMetadata
    PROVE  StoreInv'
<1> DEFINE w == "trainer"
<1>1. /\ stage[w] = <<"meta">> /\ stage' = [stage EXCEPT ![w] = Idle]
      /\ clean' = IF fit[w] \in dirty THEN 0 ELSE fit[w]
      /\ UNCHANGED <<store, fit, fits, dirty>> /\ w \in ModelWriter
  BY DEF PutMetadata, Goto, Finished, ModelWriter
<1> HIDE DEF w
<1>2. Saving(w)
  BY <1>1, StageFacts DEF Saving
<1>3. /\ stage' \in [ModelWriter -> Stages] /\ stage'[w] = Idle
      /\ \A v \in ModelWriter : v # w => stage'[v] = stage[v]
      /\ \A v \in ModelWriter : v # w /\ Saving(v)' => Saving(v) /\ fit[v] \in dirty'
      /\ Alone'
      /\ \A v \in ModelWriter : v # w /\ Saving(v) => fit[w] \in dirty
  BY <1>1, <1>2, StageFacts, GoesOn
<1>4. ~Saving(w)'
  BY <1>3 DEF Saving
<1>5. \A v \in ModelWriter : Saving(v)' => fit'[v] \in dirty'
  BY <1>1, <1>3, <1>4
<1>6. ASSUME clean' # 0
      PROVE  (\A v \in ModelWriter : ~Saving(v)') /\ \A b \in Artefact : store'[b] = clean'
  <2>1. clean' = fit[w] /\ fit[w] \notin dirty
    BY <1>1, <1>6
  <2>2. \A b \in Artefact : store[b] = fit[w]
    BY <1>1, <1>2, <2>1 DEF StoreInv, Progress
  <2>3. QED
    BY <1>1, <1>3, <1>4, <2>1, <2>2
<1>7. MixedInv'
  <2>1. \A v \in ModelWriter : stage[v] = <<"remove", "kmeans_model">> => stage'[v] = stage[v]
    BY <1>1, <1>3, StageFacts
  <2>2. QED
    BY <1>1, <2>1 DEF StoreInv, MixedInv
<1>8. QED
  BY <1>1, <1>3, <1>5, <1>6, <1>7 DEF StoreInv, CleanSaveIsStored

\* The invariant of the store.
THEOREM StoreInvariance == StoreSpec => []StoreInv
<1>1. StoreInit => StoreInv
  BY StageFacts DEF StoreInit, StoreInv, Alone, Saving, CleanSaveIsStored, MixedInv
<1>2. StoreInv /\ [StoreNext]_storeVars => StoreInv'
  <2> SUFFICES ASSUME StoreInv, [StoreNext]_storeVars PROVE StoreInv'
    OBVIOUS
  <2>1. ASSUME UNCHANGED storeVars PROVE StoreInv'
    BY <2>1 DEF storeVars, StoreInv, Alone, Saving, Progress, CleanSaveIsStored, MixedInv
  <2>2. QED
    BY <2>1, FitKept, RemoveKept, WriteKept, GivesUpKept, MetadataKept DEF StoreNext
<1>3. QED
  BY <1>1, <1>2, PTL DEF StoreSpec

\* After a save nothing disturbed both paths hold that model, and artefacts of two fits
\* stand together only if one of the two was disturbed, however many fits there are.
THEOREM ModelsAreMatched == StoreSpec => []ModelsMatch
<1>1. StoreInv => ModelsMatch
  <2> SUFFICES ASSUME StoreInv PROVE MixedOnlyIfDisturbed
    BY DEF StoreInv, ModelsMatch
  <2>1. ASSUME \A w \in ModelWriter : ~Saving(w), \A a \in Artefact : store[a] # 0,
               \A a \in Artefact : store[a] \notin dirty
        PROVE  store["nlp_pipeline"] = store["kmeans_model"]
    BY <2>1, StageFacts DEF StoreInv, MixedInv, Saving
  <2>2. QED
    BY <2>1, StageFacts DEF MixedOnlyIfDisturbed
<1>2. QED
  BY <1>1, StoreInvariance, PTL

-----------------------------------------------------------------------------
(* The trainer.                                                            *)

TrainerInv ==
    /\ df \subseteq Row
    /\ pc \in {"evaluate", "save"} => cluster \in [df -> Cluster]
    /\ EvaluationSound

\* A set of subsets of a finite set has a minimal one.
LEMMA MinimalSubset ==
    ASSUME NEW S, IsFiniteSet(S), NEW T \in SUBSET (SUBSET S), T # {}
    PROVE  \E D \in T : \A E \in T : E \subseteq D => E = D
<1>1. IsWellFoundedOn(StrictSubsetOrdering(S), FiniteSubsetsOf(S))
  BY FS_StrictSubsetOrderingWellFounded
<1>2. T \subseteq FiniteSubsetsOf(S)
  BY FS_FiniteSubsetsOfFinite
<1>3. \E D \in T : \A E \in T : ~(<<E, D>> \in StrictSubsetOrdering(S))
  BY <1>1, <1>2, WFMin
<1>4. QED
  BY <1>3 DEF StrictSubsetOrdering

LEMMA LabelCounts ==
    ASSUME NEW S \in SUBSET Row
    PROVE  /\ WithLabel(S, 0) \in Nat /\ WithLabel(S, 1) \in Nat /\ Labels(S) \in Nat
           /\ Labels(S) = WithLabel(S, 0) + WithLabel(S, 1)
           /\ WithLabel(S, 1) <= Labels(S)
<1>1. ASSUME NEW l PROVE WithLabel(S, l) \in Nat
  <2>1. IsFiniteSet({r \in S : IsAnomaly(r) = l})
    <3>1. {r \in S : IsAnomaly(r) = l} \in SUBSET Row
      OBVIOUS
    <3>2. QED
      BY <3>1, RowAssumption, FS_Subset
  <2>2. QED
    BY <2>1, FS_CardinalityType DEF WithLabel
<1>2. WithLabel(S, 0) \in Nat /\ WithLabel(S, 1) \in Nat
  BY <1>1
<1>3. QED
  BY <1>2 DEF Labels

\* Disjoint sets of rows.
LEMMA LabelsAdd ==
    ASSUME NEW S \in SUBSET Row, NEW T \in SUBSET Row, S \cap T = {}
    PROVE  /\ WithLabel(S \cup T, 0) = WithLabel(S, 0) + WithLabel(T, 0)
           /\ WithLabel(S \cup T, 1) = WithLabel(S, 1) + WithLabel(T, 1)
           /\ Labels(S \cup T) = Labels(S) + Labels(T)
<1>1. ASSUME NEW l PROVE WithLabel(S \cup T, l) = WithLabel(S, l) + WithLabel(T, l)
  <2> DEFINE A == {r \in S : IsAnomaly(r) = l}
  <2> DEFINE B == {r \in T : IsAnomaly(r) = l}
  <2>1. IsFiniteSet(A) /\ IsFiniteSet(B)
    <3>1. A \in SUBSET Row /\ B \in SUBSET Row
      OBVIOUS
    <3>2. QED
      BY <3>1, RowAssumption, FS_Subset
  <2>2. {r \in S \cup T : IsAnomaly(r) = l} = A \cup B /\ A \cap B = {}
    OBVIOUS
  <2>3. /\ WithLabel(S, l) = Cardinality(A) /\ WithLabel(T, l) = Cardinality(B)
        /\ WithLabel(S \cup T, l) = Cardinality(A \cup B)
    BY <2>2 DEF WithLabel
  <2> HIDE DEF A, B
  <2>4. Cardinality(A \cup B) = Cardinality(A) + Cardinality(B) - Cardinality({})
    BY <2>1, <2>2, FS_Union
  <2>5. Cardinality({}) = 0 /\ Cardinality(A) \in Nat /\ Cardinality(B) \in Nat
    BY <2>1, FS_EmptySet, FS_CardinalityType
  <2>6. QED
    BY <2>3, <2>4, <2>5
<1>2. /\ WithLabel(S, 0) \in Nat /\ WithLabel(S, 1) \in Nat
      /\ WithLabel(T, 0) \in Nat /\ WithLabel(T, 1) \in Nat
  BY LabelCounts
<1>3. /\ WithLabel(S \cup T, 0) = WithLabel(S, 0) + WithLabel(T, 0)
      /\ WithLabel(S \cup T, 1) = WithLabel(S, 1) + WithLabel(T, 1)
  BY <1>1
<1>4. QED
  BY <1>2, <1>3 DEF Labels

LEMMA Mediant ==
    ASSUME NEW x \in Nat, NEW y \in Nat, NEW p \in Nat, NEW q \in Nat, NEW s \in Nat,
           NEW t \in Nat, x * p >= s * y, x * q >= t * y
    PROVE  x * (p + q) >= (s + t) * y
<1>1. x * (p + q) = x * p + x * q /\ (s + t) * y = s * y + t * y
  OBVIOUS
<1>2. x * p \in Nat /\ x * q \in Nat /\ s * y \in Nat /\ t * y \in Nat
  OBVIOUS
<1>3. ASSUME NEW a \in Nat, NEW b \in Nat, NEW c \in Nat, NEW d \in Nat, a >= c, b >= d
      PROVE  a + b >= c + d
  BY <1>3
<1>4. QED
  BY <1>1, <1>2, <1>3

\* A cluster at least as dense as each is at least as dense as all together.
LEMMA DenserThanAll ==
    ASSUME df \in SUBSET Row, NEW M \in SUBSET Row,
           \A d \in Used :
              WithLabel(M, 1) * Labels(Members(d)) >= WithLabel(Members(d), 1) * Labels(M)
    PROVE  WithLabel(M, 1) * Labels(df) >= WithLabel(df, 1) * Labels(M)
<1> DEFINE Closed(D) == \A r \in D : Members(cluster[r]) \subseteq D
<1> DEFINE Dense(D) == WithLabel(M, 1) * Labels(D) >= WithLabel(D, 1) * Labels(M)
<1> DEFINE bad == {D \in SUBSET df : Closed(D) /\ ~Dense(D)}
<1>1. Closed(df)
  BY DEF Members
<1>2. bad = {}
  <2> SUFFICES ASSUME bad # {} PROVE FALSE
    OBVIOUS
  <2>1. IsFiniteSet(df)
    BY RowAssumption, FS_Subset
  <2>2. bad \in SUBSET (SUBSET df)
    OBVIOUS
  <2>3. PICK D \in bad : \A E \in bad : E \subseteq D => E = D
    <3> HIDE DEF bad
    <3>1. QED
      BY <2>1, <2>2, MinimalSubset
  <2>4. D \in SUBSET df /\ Closed(D) /\ ~Dense(D)
    BY <2>3
  <2>5. CASE D = {}
    <3>1. WithLabel(D, 0) = 0 /\ WithLabel(D, 1) = 0 /\ Labels(D) = 0
      BY <2>5, FS_EmptySet DEF WithLabel, Labels
    <3>2. WithLabel(M, 1) \in Nat /\ Labels(M) \in Nat
      BY LabelCounts
    <3>3. Dense(D)
      BY <3>1, <3>2
    <3>4. QED
      BY <2>4, <3>3
  <2>6. CASE D # {}
    <3>1. PICK r \in D : TRUE
      BY <2>6
    <3> DEFINE C == Members(cluster[r])
    <3> DEFINE E == D \ C
    <3>2. r \in C /\ C \subseteq D /\ cluster[r] \in Used
      BY <2>4, <3>1 DEF Members, Used
    <3>3. E \in SUBSET df /\ Closed(E) /\ E # D
      BY <2>4, <3>2 DEF Members
    <3>4. Dense(E)
      BY <2>3, <3>3
    <3>5. WithLabel(M, 1) * Labels(C) >= WithLabel(C, 1) * Labels(M)
      BY <3>2
    <3>6. D = E \cup C /\ E \cap C = {} /\ E \in SUBSET Row /\ C \in SUBSET Row
      BY <2>4, <3>2
    <3> HIDE DEF C, E
    <3>7. /\ WithLabel(D, 1) = WithLabel(E, 1) + WithLabel(C, 1)
          /\ Labels(D) = Labels(E) + Labels(C)
      BY <3>6, LabelsAdd
    <3>8. /\ WithLabel(M, 1) \in Nat /\ Labels(M) \in Nat
          /\ WithLabel(E, 1) \in Nat /\ Labels(E) \in Nat
          /\ WithLabel(C, 1) \in Nat /\ Labels(C) \in Nat
      BY <3>6, LabelCounts
    <3>9. Dense(D)
      BY <3>4, <3>5, <3>7, <3>8, Mediant
    <3>10. QED
      BY <2>4, <3>9
  <2>7. QED
    BY <2>5, <2>6
<1>3. QED
  BY <1>1, <1>2

\* The cluster chosen is the densest of those with labels, if there are labels at all.
LEMMA DensestFacts ==
    ASSUME df \in SUBSET Row, NEW c \in DensestClusters
    PROVE  /\ Members(c) \in SUBSET df /\ c \in Used
           /\ WithLabel(Members(c), 1) * Labels(df) >= WithLabel(df, 1) * Labels(Members(c))
           /\ WithLabel(df, 1) > 0 => WithLabel(Members(c), 1) > 0
<1> DEFINE M == Members(c)
<1>1. M \in SUBSET df /\ M \in SUBSET Row /\ c \in Used
  BY DEF Members, DensestClusters
<1>2. \A d \in Used : Members(d) \in SUBSET Row
  BY DEF Members
<1>3. WithLabel(M, 1) \in Nat /\ Labels(M) \in Nat
  BY <1>1, LabelCounts
<1>4. ASSUME NEW d \in Used
      PROVE  WithLabel(M, 1) * Labels(Members(d)) >= WithLabel(Members(d), 1) * Labels(M)
  <2> DEFINE N == Members(d)
  <2>1. /\ WithLabel(N, 1) \in Nat /\ Labels(N) \in Nat /\ WithLabel(N, 1) <= Labels(N)
    BY <1>2, LabelCounts
  <2>2. AtLeastAsDense(c, d)
    BY DEF DensestClusters
  <2>3. CASE Labels(N) = 0
    <3>1. WithLabel(N, 1) = 0
      BY <2>1, <2>3
    <3>2. QED
      BY <1>3, <2>3, <3>1
  <2>4. CASE Labels(N) # 0
    BY <2>2, <2>4 DEF AtLeastAsDense
  <2>5. QED
    BY <2>3, <2>4
<1>5. WithLabel(M, 1) * Labels(df) >= WithLabel(df, 1) * Labels(M)
  <2> HIDE DEF M
  <2>1. QED
    BY <1>1, <1>4, DenserThanAll
<1>6. ASSUME WithLabel(df, 1) > 0 PROVE WithLabel(M, 1) > 0
  <2>1. PICK r \in df : IsAnomaly(r) = 1
    <3>1. {r \in df : IsAnomaly(r) = 1} # {}
      BY <1>6, FS_EmptySet DEF WithLabel
    <3>2. QED
      BY <3>1
  <2> DEFINE N == Members(cluster[r])
  <2>2. r \in N /\ cluster[r] \in Used /\ N \in SUBSET Row
    BY DEF Members, Used
  <2>3. /\ WithLabel(N, 1) \in Nat /\ Labels(N) \in Nat /\ WithLabel(N, 1) <= Labels(N)
        /\ WithLabel(N, 1) > 0
    <3>1. /\ WithLabel(N, 1) \in Nat /\ Labels(N) \in Nat /\ WithLabel(N, 1) <= Labels(N)
      BY <2>2, LabelCounts
    <3>2. {s \in N : IsAnomaly(s) = 1} # {}
      BY <2>1, <2>2
    <3>3. IsFiniteSet({s \in N : IsAnomaly(s) = 1})
      <4>1. {s \in N : IsAnomaly(s) = 1} \in SUBSET Row
        BY <2>2
      <4>2. QED
        BY <4>1, RowAssumption, FS_Subset
    <3>4. WithLabel(N, 1) # 0
      BY <3>2, <3>3, FS_EmptySet DEF WithLabel
    <3>5. QED
      BY <3>1, <3>4
  <2>4. AtLeastAsDense(c, cluster[r])
    BY <2>2 DEF DensestClusters
  <2>5. Labels(M) > 0 /\ WithLabel(M, 1) * Labels(N) >= WithLabel(N, 1) * Labels(M)
    BY <2>3, <2>4 DEF AtLeastAsDense
  <2> HIDE DEF N, M
  <2>6. WithLabel(M, 1) # 0
    <3> SUFFICES ASSUME WithLabel(M, 1) = 0 PROVE FALSE
      OBVIOUS
    <3>1. WithLabel(N, 1) * Labels(M) > 0
      BY <1>3, <2>3, <2>5
    <3>2. WithLabel(M, 1) * Labels(N) = 0
      BY <2>3
    <3>3. QED
      BY <2>3, <2>5, <3>1, <3>2, <1>3
  <2>7. QED
    BY <1>3, <2>6
<1>7. QED
  BY <1>1, <1>5, <1>6

\* The evaluation of a chosen cluster in the terms of its members.
LEMMA MatrixFacts ==
    ASSUME df \in SUBSET Row, NEW c, anomalous' = c
    PROVE  /\ CountOf(1, 1) = WithLabel(Members(c), 1) /\ CountOf(1, 0) = WithLabel(Members(c), 0)
           /\ CountOf(0, 1) = WithLabel(df \ Members(c), 1)
           /\ CountOf(0, 0) = WithLabel(df \ Members(c), 0)
<1>1. \A r \in df : /\ Predicted(r) = 1 <=> r \in Members(c)
                    /\ Predicted(r) = 0 <=> r \in df \ Members(c)
  BY DEF Predicted, Members
<1>2. ASSUME NEW l
      PROVE  /\ {r \in df : Predicted(r) = 1 /\ IsAnomaly(r) = l}
                   = {r \in Members(c) : IsAnomaly(r) = l}
             /\ {r \in df : Predicted(r) = 0 /\ IsAnomaly(r) = l}
                   = {r \in df \ Members(c) : IsAnomaly(r) = l}
  BY <1>1 DEF Members
<1>3. ASSUME NEW l
      PROVE  /\ CountOf(1, l) = WithLabel(Members(c), l)
             /\ CountOf(0, l) = WithLabel(df \ Members(c), l)
  BY <1>2 DEF CountOf, WithLabel
<1>4. QED
  BY <1>3

LEMMA EvaluateSound ==
    ASSUME TrainerInv, Evaluate
    PROVE  EvaluationSound'
<1>1. /\ df \in SUBSET Row /\ UNCHANGED <<inputVars, df, cluster>>
  BY DEF TrainerInv, Evaluate
<1>2. \A r : IsAnomaly(r)' = IsAnomaly(r)
  BY <1>1 DEF IsAnomaly, inputVars
<1>3. /\ WithLabel(df, 0)' = WithLabel(df, 0) /\ WithLabel(df, 1)' = WithLabel(df, 1)
      /\ Labels(df)' = Labels(df) /\ Labelled' = Labelled
  BY <1>1, <1>2 DEF WithLabel, Labels, Labelled, inputVars
<1>4. /\ WithLabel(df, 0) \in Nat /\ WithLabel(df, 1) \in Nat
      /\ Labels(df) = WithLabel(df, 0) + WithLabel(df, 1)
  BY <1>1, LabelCounts
<1>5. CASE Labelled /\ Labels(df) > 0
  <2>1. PICK c \in DensestClusters : anomalous' = c
    BY <1>5 DEF Evaluate
  <2> DEFINE M == Members(c)
  <2> DEFINE a == WithLabel(M, 1)
  <2> DEFINE b == WithLabel(M, 0)
  <2> DEFINE d == WithLabel(df \ M, 1)
  <2> DEFINE e == WithLabel(df \ M, 0)
  <2>2. report' = [tp |-> a, fp |-> b, tn |-> e, fn |-> d]
    BY <1>1, <1>5, <2>1, MatrixFacts DEF Evaluate
  <2>3. /\ M \in SUBSET df
        /\ a * Labels(df) >= WithLabel(df, 1) * Labels(M)
        /\ WithLabel(df, 1) > 0 => a > 0
    BY <1>1, DensestFacts
  <2>4. /\ M \in SUBSET Row /\ df \ M \in SUBSET Row /\ M \cap (df \ M) = {} /\ df = M \cup (df \ M)
    BY <1>1, <2>3
  <2>5. /\ WithLabel(df, 0) = b + e /\ WithLabel(df, 1) = a + d
    BY <2>4, LabelsAdd
  <2>6. a \in Nat /\ b \in Nat /\ d \in Nat /\ e \in Nat /\ Labels(M) = b + a
    BY <2>4, LabelCounts
  <2> HIDE DEF a, b, d, e
  <2>7. /\ report'.tp = a /\ report'.fp = b /\ report'.tn = e /\ report'.fn = d
    BY <2>2
  <2>8. Total' = a + b + e + d /\ Total' = Labels(df) /\ Labels(M) = a + b
    BY <1>4, <2>5, <2>6, <2>7 DEF Total
  <2>9. a * (a + b + e + d) >= (a + d) * (a + b)
    BY <2>3, <2>5, <2>8
  <2>10. BetterThanChance'
    <3>1. report'.tp * Total' >= (report'.tp + report'.fn) * (report'.tp + report'.fp)
      BY <2>7, <2>8, <2>9
    <3>2. report'.tp + report'.fn > 0 => report'.tp > 0
      BY <2>3, <2>5, <2>7
    <3>3. QED
      BY <3>1, <3>2 DEF BetterThanChance
  <2>11. MatrixComplete'
    BY <1>3, <2>5, <2>7, <2>8 DEF MatrixComplete
  <2>12. QED
    BY <2>10, <2>11 DEF EvaluationSound
<1>6. CASE ~(Labelled /\ Labels(df) > 0)
  <2>1. report' = [tp |-> 0, fp |-> 0, tn |-> 0, fn |-> 0]
    BY <1>6 DEF Evaluate
  <2>2. report'.tp = 0 /\ report'.fp = 0 /\ report'.tn = 0 /\ report'.fn = 0
    BY <2>1
  <2>3. Total' = 0
    BY <2>2 DEF Total
  <2>4. BetterThanChance'
    BY <2>2, <2>3 DEF BetterThanChance
  <2>5. Labelled => Labels(df) = 0 /\ WithLabel(df, 1) = 0
    BY <1>4, <1>6
  <2>6. MatrixComplete'
    BY <1>3, <2>2, <2>3, <2>5 DEF MatrixComplete
  <2>7. QED
    BY <2>4, <2>6 DEF EvaluationSound
<1>7. QED
  BY <1>5, <1>6

\* The invariant of the trainer.
THEOREM TrainerInvariance == TrainerSpec => []TrainerInv
<1>1. TrainerInit => TrainerInv
  BY DEF TrainerInit, TrainerInv, EvaluationSound, BetterThanChance, MatrixComplete
<1>2. TrainerInv /\ [TrainerNext]_trainerVars => TrainerInv'
  <2> SUFFICES ASSUME TrainerInv, [TrainerNext]_trainerVars PROVE TrainerInv'
    OBVIOUS
  <2>1. ASSUME Load PROVE TrainerInv'
    BY <2>1 DEF Load, TrainerInv, EvaluationSound, BetterThanChance, MatrixComplete
  <2>2. ASSUME Train PROVE TrainerInv'
    BY <2>2 DEF Train, TrainerInv, EvaluationSound, BetterThanChance, MatrixComplete
  <2>3. ASSUME Evaluate PROVE TrainerInv'
    BY <2>3, EvaluateSound DEF Evaluate, TrainerInv
  <2>4. ASSUME EvaluatorRaises PROVE TrainerInv'
    BY <2>4 DEF EvaluatorRaises, TrainerInv, EvaluationSound, BetterThanChance, MatrixComplete
  <2>5. ASSUME UNCHANGED trainerVars PROVE TrainerInv'
    BY <2>5 DEF trainerVars, inputVars, TrainerInv, EvaluationSound, BetterThanChance,
       MatrixComplete, Total, Labelled, Labels, WithLabel, IsAnomaly
  <2>6. QED
    BY <2>1, <2>2, <2>3, <2>4, <2>5 DEF TrainerNext
<1>3. QED
  BY <1>1, <1>2, PTL DEF TrainerSpec

\* The cluster the trainer calls anomalous is no worse than chance and finds an anomaly
\* if there is one, and the matrix counts every labelled row once, for any set of rows.
THEOREM EvaluationIsSound == TrainerSpec => []EvaluationSound
<1>1. TrainerInv => EvaluationSound
  BY DEF TrainerInv
<1>2. QED
  BY <1>1, TrainerInvariance, PTL

=============================================================================
