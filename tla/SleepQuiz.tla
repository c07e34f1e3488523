------------------------------ MODULE SleepQuiz ------------------------------
(***************************************************************************)
(* The sleep quiz (src/src/modules/sleep-quiz): answers are stored as a    *)
(* PENDING document and a job is queued; a worker with two slots asks an   *)
(* AI strategy and writes the result, or FAILED and throws, whereupon      *)
(* BullMQ tries again.  A customer polls the document.                     *)
(*                                                                         *)
(* A result is represented by its being there.  The route is public and    *)
(* the guard sets no session on public routes, so userId is never known:   *)
(* the cache of recommendations is never written, and is left out.  An AI  *)
(* call that fails is answered with a fallback inside the strategy; a step *)
(* fails where the database does.                                          *)
(***************************************************************************)
EXTENDS Naturals

CONSTANTS
  Quizzes,          \* submissions, each made once
  WorkerSlots,      \* concurrency of the worker
  JobAttempts,      \* attempts in the defaultJobOptions of QueueService
  StallLimit,       \* how often BullMQ takes a stalled job up again
  NoQuiz,
  MaxQuizFaults

ASSUME QuizBoundsAssumption == JobAttempts \in Nat \ {0} /\ StallLimit \in Nat /\ MaxQuizFaults \in Nat
ASSUME NoQuizAssumption == NoQuiz \notin Quizzes

VARIABLES
  quiz,      \* status of each document, "absent" before it is created
  answer,    \* whether the document holds a result
  quizJob,   \* state of the job of each quiz in BullMQ
  tries,     \* attempts of the job that have failed
  stalls,    \* how often the job was found stalled
  slot,      \* what each slot of the worker is doing
  doubted,   \* quizzes whose result was stored by a write that threw (history)
  quizFaults

quizVars == <<quiz, answer, quizJob, tries, stalls, slot, doubted, quizFaults>>

Resting == [quiz |-> NoQuiz, at |-> "free"]
QuizStatus == {"PENDING", "COMPLETED", "FAILED"}

QuizInit ==
  /\ quiz = [q \in Quizzes |-> "absent"]
  /\ answer = [q \in Quizzes |-> FALSE]
  /\ quizJob = [q \in Quizzes |-> "none"]
  /\ tries = [q \in Quizzes |-> 0]
  /\ stalls = [q \in Quizzes |-> 0]
  /\ slot = [w \in WorkerSlots |-> Resting]
  /\ doubted = {}
  /\ quizFaults = 0

SlotAt(w, l) == slot' = [slot EXCEPT ![w].at = l]
QuizFault == quizFaults < MaxQuizFaults /\ quizFaults' = quizFaults + 1

-----------------------------------------------------------------------------
(* submitQuiz *)

CreateQuiz(q) ==
  /\ quiz[q] = "absent"
  /\ quiz' = [quiz EXCEPT ![q] = "PENDING"]
  /\ quizJob' = [quizJob EXCEPT ![q] = "toAdd"]
  /\ UNCHANGED <<answer, tries, stalls, slot, doubted, quizFaults>>

EnqueueQuiz(q) ==
  /\ quizJob[q] = "toAdd"
  /\ quizJob' = [quizJob EXCEPT ![q] = "waiting"]
  /\ UNCHANGED <<quiz, answer, tries, stalls, slot, doubted, quizFaults>>

\* The queue does not answer, or the process stops: the document stays, alone.
EnqueueFails(q) ==
  /\ quizJob[q] = "toAdd"
  /\ QuizFault
  /\ quizJob' = [quizJob EXCEPT ![q] = "lost"]
  /\ UNCHANGED <<quiz, answer, tries, stalls, slot, doubted>>

-----------------------------------------------------------------------------
(* processJob *)

TakeQuizJob(w) ==
  /\ slot[w] = Resting
  /\ \E q \in Quizzes :
       /\ quizJob[q] = "waiting"
       /\ quizJob' = [quizJob EXCEPT ![q] = "active"]
       /\ slot' = [slot EXCEPT ![w] = [quiz |-> q, at |-> "analyze"]]
  /\ UNCHANGED <<quiz, answer, tries, stalls, doubted, quizFaults>>

\* The catalog (and the Groq strategy's rules) are read and the model is asked.
AnalyzeSleepQuiz(w) ==
  /\ slot[w].at = "analyze"
  /\ SlotAt(w, "complete")
  /\ UNCHANGED <<quiz, answer, quizJob, tries, stalls, doubted, quizFaults>>

MarkCompleted(w) ==
  /\ slot[w].at = "complete"
  /\ quiz' = [quiz EXCEPT ![slot[w].quiz] = "COMPLETED"]
  /\ answer' = [answer EXCEPT ![slot[w].quiz] = TRUE]
  /\ SlotAt(w, "ack")
  /\ UNCHANGED <<quizJob, tries, stalls, doubted, quizFaults>>

QuizJobCompletes(w) ==
  /\ slot[w].at = "ack"
  /\ quizJob' = [quizJob EXCEPT ![slot[w].quiz] = "completed"]
  /\ slot' = [slot EXCEPT ![w] = Resting]
  /\ UNCHANGED <<quiz, answer, tries, stalls, doubted, quizFaults>>

\* What is awaited in the try block throws; the write of the result may have
\* been applied all the same.
AnalysisFails(w) ==
  /\ slot[w].at \in {"analyze", "complete"}
  /\ QuizFault
  /\ SlotAt(w, "failed")
  /\ \/ UNCHANGED <<quiz, answer, doubted>>
     \/ /\ slot[w].at = "complete"
        /\ quiz' = [quiz EXCEPT ![slot[w].quiz] = "COMPLETED"]
        /\ answer' = [answer EXCEPT ![slot[w].quiz] = TRUE]
        /\ doubted' = doubted \union {slot[w].quiz}
  /\ UNCHANGED <<quizJob, tries, stalls>>

MarkFailed(w) ==
  /\ slot[w].at = "failed"
  /\ quiz' = [quiz EXCEPT ![slot[w].quiz] = "FAILED"]
  /\ SlotAt(w, "throw")
  /\ UNCHANGED <<answer, quizJob, tries, stalls, doubted, quizFaults>>

\* The write of the failure fails too; it may have been applied.
MarkFailedFails(w) ==
  /\ slot[w].at = "failed"
  /\ QuizFault
  /\ SlotAt(w, "throw")
  /\ UNCHANGED quiz \/ quiz' = [quiz EXCEPT ![slot[w].quiz] = "FAILED"]
  /\ UNCHANGED <<answer, quizJob, tries, stalls, doubted>>

\* Variant: a job is tried once.
TriedOnce(q) == FALSE

TriesLeft(q) == tries[q] + 1 < JobAttempts

\* Variant: the error is not thrown on.
Swallowed(q) == "completed"

AfterThrow(q) == IF TriesLeft(q) THEN "waiting" ELSE "failed"

Rethrow(w) ==
  /\ slot[w].at = "throw"
  /\ LET q == slot[w].quiz IN
       /\ tries' = [tries EXCEPT ![q] = @ + 1]
       /\ quizJob' = [quizJob EXCEPT ![q] = AfterThrow(q)]
  /\ slot' = [slot EXCEPT ![w] = Resting]
  /\ UNCHANGED <<quiz, answer, stalls, doubted, quizFaults>>

\* The process stops: its jobs stall.  BullMQ hands a job out again, the first
\* time; after that it fails the job without the worker knowing.
WorkerStops(w) ==
  /\ slot[w] # Resting
  /\ QuizFault
  /\ LET q == slot[w].quiz IN
       /\ stalls' = [stalls EXCEPT ![q] = @ + 1]
       /\ quizJob' = [quizJob EXCEPT ![q] = IF stalls[q] < StallLimit THEN "waiting" ELSE "failed"]
  /\ slot' = [slot EXCEPT ![w] = Resting]
  /\ UNCHANGED <<quiz, answer, tries, doubted>>

WorkerStep(w) ==
  \/ TakeQuizJob(w) \/ AnalyzeSleepQuiz(w) \/ MarkCompleted(w) \/ QuizJobCompletes(w)
  \/ AnalysisFails(w) \/ MarkFailed(w) \/ MarkFailedFails(w) \/ Rethrow(w) \/ WorkerStops(w)

QuizNext ==
  \/ \E q \in Quizzes : CreateQuiz(q) \/ EnqueueQuiz(q) \/ EnqueueFails(q)
  \/ \E w \in WorkerSlots : WorkerStep(w)

\* submitQuiz goes on once it has created the document, and the worker runs:
\* BullMQ leaves no job waiting while a slot is free.
QuizFairness ==
  /\ \A q \in Quizzes : WF_quizVars(EnqueueQuiz(q))
  /\ \A w \in WorkerSlots :
       WF_quizVars(TakeQuizJob(w) \/ AnalyzeSleepQuiz(w) \/ MarkCompleted(w) \/ QuizJobCompletes(w)
                     \/ MarkFailed(w) \/ Rethrow(w))

QuizSpec == QuizInit /\ [][QuizNext]_quizVars /\ QuizFairness

-----------------------------------------------------------------------------
QuizTypeOK ==
  /\ quiz \in [Quizzes -> QuizStatus \union {"absent"}]
  /\ answer \in [Quizzes -> BOOLEAN]
  /\ quizJob \in [Quizzes -> {"none", "toAdd", "waiting", "active", "completed", "failed", "lost"}]
  /\ doubted \subseteq Quizzes
  /\ tries \in [Quizzes -> 0..JobAttempts] /\ stalls \in [Quizzes -> Nat]
  /\ slot \in [WorkerSlots -> [quiz : Quizzes \union {NoQuiz},
                               at : {"free", "analyze", "complete", "ack", "failed", "throw"}]]

(* What the customer polls agrees with the queue: COMPLETED means there is *)
(* a result, and a job that BullMQ counts as completed left COMPLETED,     *)
(* whatever the attempts before it wrote.  FAILED comes with a result only *)
(* where the worker had stopped between the result and the end of the job, *)
(* or the write of the result threw although it was applied, and markFailed *)
(* went over it (processJob at sleep-quiz.worker.ts:86 and 104).           *)
StatusAgreesWithJob ==
  \A q \in Quizzes :
    /\ quiz[q] = "COMPLETED" => answer[q]
    /\ quizJob[q] = "completed" => quiz[q] = "COMPLETED"
    /\ quiz[q] = "FAILED" /\ answer[q] => stalls[q] > 0 \/ q \in doubted

(* Every quiz comes to COMPLETED or FAILED and stays there, unless its job *)
(* was never queued, stalled more often than BullMQ allows, or failed      *)
(* without its failure being written.  In the instance, faults are fewer   *)
(* than attempts, so it is COMPLETED (submitQuiz and processJob, at        *)
(* sleep-quiz.service.ts:76 and sleep-quiz.worker.ts:102).                 *)
Abandoned(q) == quizJob[q] = "lost" \/ stalls[q] > StallLimit
QuizzesComplete ==
  \A q \in Quizzes : quiz[q] = "PENDING" ~> (<>[](quiz[q] = "COMPLETED") \/ <>Abandoned(q))

=============================================================================
