------------------------------ MODULE Ingestion -------------------------------
(***************************************************************************)
(* Log replay and the Fluentd agent: docker/log-generator/log_replay.py    *)
(* appends a dataset to system.log over and over; Fluentd, configured by   *)
(* config/fluentd/fluent.conf, tails that file into a buffer on disk and   *)
(* sends the buffer to the topic system-logs.                              *)
(*                                                                         *)
(* A line is known by its position in system.log, so that a line produced  *)
(* twice stays visible.                                                    *)
(***************************************************************************)
EXTENDS Naturals, FiniteSets, SequencesExt

CONSTANTS Dataset,       \* the dataset: "log", "odd" (fails the regexp) or "blank" lines
          BatchSize,     \* BATCH_SIZE
          MaxFile,       \* bound: how long system.log gets
          ChunkLimit,    \* chunk_limit_size, in lines
          TotalLimit,    \* total_limit_size, in lines
          FlushThreads,  \* flush_thread_count
          MaxCrashes,    \* bound: how often each process is killed
          MaxFailures    \* bound: how many flushes fail

ASSUME DatasetAssumption == Dataset \in Seq({"log", "odd", "blank"})
ASSUME SizeAssumption ==
    /\ {BatchSize, ChunkLimit, TotalLimit, FlushThreads} \subseteq Nat \ {0}
    /\ {MaxFile, MaxCrashes, MaxFailures} \subseteq Nat

\* load_dataset: the blank lines are left out.
Lines == FoldLeft(LAMBDA kept, l : IF l = "blank" THEN kept ELSE Append(kept, l),
                  <<>>, Dataset)

Position == 1..MaxFile

VARIABLES
    \* log_replay
    cursor,    \* how many lines of this pass are in the file
    file,      \* system.log: the line of the dataset at each position
    \* Fluentd
    up,        \* whether the agent runs
    tail,      \* the last position the tail input has emitted
    saved,     \* the position in pos_file
    stage,     \* the staged chunk
    queue,     \* the queued chunks
    sending,   \* the chunks the flush threads hold, and whether Kafka has them
    \* Kafka
    topic,     \* how often each position was produced to system-logs
    \* history
    atRisk,    \* the positions that were between two steps when something failed
    ncrashes,
    nfailures

fileVars   == <<cursor, file>>
tailVars   == <<up, tail, saved>>
bufferVars == <<stage, queue, sending>>
vars == <<fileVars, tailVars, bufferVars, topic, atRisk, ncrashes, nfailures>>

Matches(p) == Lines[file[p]] = "log"

\* The chunks being sent, and the positions in a sequence of chunks and in the buffer.
TakenChunks     == [i \in DOMAIN sending |-> sending[i].chunk]
LinesIn(chunks) == UNION {Range(chunks[k]) : k \in DOMAIN chunks}
Buffered == Range(stage) \cup LinesIn(queue) \cup LinesIn(TakenChunks)
Produced == {p \in Position : topic[p] > 0}

-----------------------------------------------------------------------------
(* log_replay.                                                             *)

\* How many lines the next write carries: a batch, or what is left of the pass.
BatchOf(n) == IF Len(Lines) - n < BatchSize THEN Len(Lines) - n ELSE BatchSize

\* One write and flush; at the end of the dataset the next pass begins.
Replay == LET n == BatchOf(cursor) IN
    /\ Lines # <<>> /\ Len(file) + n <= MaxFile
    /\ file' = file \o [k \in 1..n |-> cursor + k]
    /\ cursor' = IF cursor + n = Len(Lines) \/ n = 0 THEN 0 ELSE cursor + n
    /\ UNCHANGED <<tailVars, bufferVars, topic, atRisk, ncrashes, nfailures>>

\* No position is persisted: a restarted replay begins a pass and appends.
RestartReplay ==
    /\ ncrashes < MaxCrashes /\ cursor > 0
    /\ cursor' = 0
    /\ ncrashes' = ncrashes + 1
    /\ UNCHANGED <<file, tailVars, bufferVars, topic, atRisk, nfailures>>

-----------------------------------------------------------------------------
(* Fluentd.                                                                *)

Size == Len(stage) + Len(FlattenSeq(queue \o TakenChunks))

\* Emit into the buffer.  overflow_action block: wait while it is full.
Stage(p) ==
    /\ Size < TotalLimit
    /\ IF Len(stage) < ChunkLimit
       THEN stage' = Append(stage, p) /\ UNCHANGED queue
       ELSE stage' = <<p>> /\ queue' = Append(queue, stage)
    /\ UNCHANGED sending

\* The tail input emits the next line; one that does not match is only logged.
EmitLine ==
    /\ up /\ tail < Len(file)
    /\ tail' = tail + 1
    /\ IF Matches(tail') THEN Stage(tail') ELSE UNCHANGED bufferVars
    /\ UNCHANGED <<fileVars, up, saved, topic, atRisk, ncrashes, nfailures>>

\* pos_file follows once what was read has been emitted.
SavePosition ==
    /\ up /\ saved < tail
    /\ saved' = tail
    /\ UNCHANGED <<fileVars, up, tail, bufferVars, topic, atRisk, ncrashes, nfailures>>

\* flush_mode interval: the staged chunk is queued.
EnqueueStage ==
    /\ up /\ stage # <<>>
    /\ queue' = Append(queue, stage)
    /\ stage' = <<>>
    /\ UNCHANGED <<fileVars, tailVars, sending, topic, atRisk, ncrashes, nfailures>>

\* A flush thread takes the chunk at the head of the queue.
TakeChunk ==
    /\ up /\ queue # <<>> /\ Len(sending) < FlushThreads
    /\ sending' = Append(sending, [chunk |-> Head(queue), acked |-> FALSE])
    /\ queue' = Tail(queue)
    /\ UNCHANGED <<fileVars, tailVars, stage, topic, atRisk, ncrashes, nfailures>>

\* The records of chunk c at the indices S reach the topic.
Produce(c, S) ==
    topic' = [p \in Position |-> topic[p] + Cardinality({i \in S : c[i] = p})]

\* required_acks -1: every record of the chunk is acknowledged.
Acknowledge(i) ==
    /\ up /\ i \in DOMAIN sending /\ ~sending[i].acked
    /\ Produce(sending[i].chunk, DOMAIN sending[i].chunk)
    /\ sending' = [sending EXCEPT ![i].acked = TRUE]
    /\ UNCHANGED <<fileVars, tailVars, stage, queue, atRisk, ncrashes, nfailures>>

\* Mutant of PutBack: a chunk that could not be sent is discarded.
PutBackNot(c) == UNCHANGED queue

\* retry_forever: the chunk goes back to the head of the queue.
PutBack(c) == queue' = <<c>> \o queue

\* After max_send_retries some of the records may be in Kafka all the same.
FlushFails(i) ==
    /\ up /\ i \in DOMAIN sending /\ ~sending[i].acked
    /\ nfailures < MaxFailures /\ nfailures' = nfailures + 1
    /\ \E some \in SUBSET DOMAIN sending[i].chunk : Produce(sending[i].chunk, some)
    /\ sending' = RemoveAt(sending, i)
    /\ PutBack(sending[i].chunk)
    /\ atRisk' = atRisk \cup Range(sending[i].chunk)
    /\ UNCHANGED <<fileVars, tailVars, stage, ncrashes>>

\* The chunk's file is removed.
PurgeChunk(i) ==
    /\ up /\ i \in DOMAIN sending /\ sending[i].acked
    /\ sending' = RemoveAt(sending, i)
    /\ UNCHANGED <<fileVars, tailVars, stage, queue, topic, atRisk, ncrashes, nfailures>>

\* Mutant of Die: the buffer is kept in memory (@type memory).
DieWithBuffer == /\ up /\ up' = FALSE
                 /\ tail' = saved
                 /\ stage' = <<>> /\ queue' = <<>> /\ sending' = <<>>
                 /\ atRisk' = atRisk \cup LinesIn(TakenChunks) \cup (saved + 1 .. tail)
                 /\ UNCHANGED <<fileVars, saved, topic, nfailures>>

\* What the process loses when it ends, with or without SIGTERM: everything but
\* pos_file and the chunk files, those the flush threads held among them.
Die == /\ up /\ up' = FALSE
       /\ tail' = saved
       /\ queue' = TakenChunks \o queue
       /\ sending' = <<>>
       /\ atRisk' = atRisk \cup LinesIn(TakenChunks) \cup (saved + 1 .. tail)
       /\ UNCHANGED <<fileVars, saved, stage, topic, nfailures>>

CrashAgent == Die /\ ncrashes < MaxCrashes /\ ncrashes' = ncrashes + 1

\* Mutant of StartAgent: without pos_file the tail input begins at the head.
StartAtHead == /\ ~up /\ up' = TRUE
               /\ tail' = 0 /\ saved' = 0
               /\ UNCHANGED <<fileVars, bufferVars, topic, atRisk, ncrashes, nfailures>>

\* restart: unless-stopped.  The tail input resumes at pos_file, or at the head.
StartAgent == /\ ~up /\ up' = TRUE
              /\ UNCHANGED <<fileVars, tail, saved, bufferVars, topic, atRisk,
                             ncrashes, nfailures>>

-----------------------------------------------------------------------------
Init == /\ cursor = 0 /\ file = <<>>
        /\ up = TRUE /\ tail = 0 /\ saved = 0
        /\ stage = <<>> /\ queue = <<>> /\ sending = <<>>
        /\ topic = [p \in Position |-> 0]
        /\ atRisk = {} /\ ncrashes = 0 /\ nfailures = 0

Flush == TakeChunk \/ \E i \in 1..FlushThreads : Acknowledge(i) \/ PurgeChunk(i)

Agent == EmitLine \/ SavePosition \/ EnqueueStage \/ Flush

Next == \/ Replay \/ RestartReplay
        \/ Agent \/ \E i \in 1..FlushThreads : FlushFails(i)
        \/ CrashAgent \/ StartAgent

Spec == Init /\ [][Next]_vars

\* The agent's threads go on while it runs, and Docker restarts it.
FairSpec == /\ Spec
            /\ WF_vars(EmitLine) /\ WF_vars(EnqueueStage) /\ WF_vars(TakeChunk)
            /\ \A i \in 1..FlushThreads : WF_vars(Acknowledge(i)) /\ WF_vars(PurgeChunk(i))
            /\ WF_vars(StartAgent)

-----------------------------------------------------------------------------
(* Properties.                                                             *)

\* A line is produced twice only if a kill or a failed flush met it between its
\* emission and the saving of its position, or between its send and its purge.
DuplicatesOnlyAtRisk == \A p \in Position : topic[p] > 1 => p \in atRisk

\* The agent implements the hand-over it is there for.  Every line up to the position
\* in pos_file is in a chunk on disk, in Kafka, or never matched the expression; a
\* crash is a step that changes nothing there.
Handoff == INSTANCE ReliableHandoff WITH
    Line      <- Position,
    written   <- DOMAIN file,
    refused   <- {p \in DOMAIN file : ~Matches(p)},
    held      <- Buffered,
    delivered <- Produced,
    forgotten <- 1..saved

\* The agent lets go only of lines that are in Kafka and forgets only what it holds or
\* has handed over, whatever is killed or fails (fluent.conf:108, "to prevent log
\* loss"): the chunks, pos_file and the topic together are ReliableHandoff.
ImplementsHandoff == Handoff!Spec

\* Every line that matches is produced in the end, although the buffer blocks the
\* tail when it is full, flushes fail and the agent dies on the way.
EventuallyProduced ==
    \A p \in Position : (p \in DOMAIN file /\ Matches(p)) ~> p \in Produced
=============================================================================
