---------------------------- MODULE ReviewFixLoop ----------------------------
(***************************************************************************)
(* The review/fix engine of src/review/reviewFixLoop.ts with the parse     *)
(* repair of src/llm/structured.ts: one gate's loop of one session, over   *)
(* its runs.  Each step below is one call of a driver or one write of a    *)
(* hook, so that a crash may fall between any two of them.  The worker     *)
(* that calls the engine and the human who answers it appear only with     *)
(* what they do to the loop's columns (see Pipeline for the rest).         *)
(***************************************************************************)
EXTENDS Naturals

CONSTANTS
  MaxRounds,          \* cfg.maxRounds
  MaxRoundsPerTick,   \* cfg.maxRoundsPerTick
  MaxFixFailures,     \* cfg.maxFixFailures
  MaxRepairs,         \* cfg.maxParseRepairRetries
  ReEmitRetries,      \* reEmitCallRetries of parseStructured
  MaxAnswers,         \* bound on the answers of the human
  MaxCrashes          \* bound on the crashes

ASSUME ReviewFixLoopAssumption ==
  /\ MaxRounds \in Nat \ {0}
  /\ MaxRoundsPerTick \in 1..MaxRounds
  /\ MaxFixFailures \in Nat \ {0}
  /\ MaxRepairs \in Nat
  /\ ReEmitRetries \in Nat
  /\ MaxAnswers \in Nat
  /\ MaxCrashes \in Nat

VARIABLES
  round,     \* getRound
  streak,    \* getFixFailStreak
  answer,    \* peekHumanAnswer is not null
  stored,    \* the version of the artefact that is persisted
  pc,        \* where the run is
  outcome,   \* what the last run returned
  art,       \* the version of the artefact the run holds
  job,       \* what is being parsed: an applied "answer", a "verdict", a "revision"
  attempt,   \* repairs of the present parse
  call,      \* failed calls of the present repair
  ticks,     \* roundsThisTick
  fixes,     \* calls of drv.fix in this run
  reviews,   \* calls of drv.review in this run
  owed,      \* the human's answer has not reached the artefact
  lost,      \* an answer was replaced before it reached the artefact
  approved,  \* the version of the artefact that was last found clean
  revised,   \* revisions of a round persisted so far
  pauses,    \* pauses since a human last gave the loop a budget
  answers,   \* answers so far
  crashes    \* crashes so far

columns == <<round, streak, answer, stored>>
repair  == <<job, attempt, call>>
calls   == <<fixes, reviews>>
ghosts  == <<owed, lost, approved, revised, pauses, answers, crashes>>

vars == <<columns, pc, outcome, art, repair, ticks, calls, ghosts>>

InRun == {"fixFirst", "parse", "reEmit", "persist", "clear", "review",
          "revise", "setRound", "closeBreaker", "returned"}

\* between runs: to be run again, resting with a human, failed for good or
\* for a retry, or concluded
OutOfRun == {"rest", "parked", "failed", "broken", "done"}

Outcomes == {"none", "resolved", "skipped", "needsHuman", "stalled", "paused"}

(***************************************************************************)
(* The type invariant.                                                     *)
(***************************************************************************)
TypeOK ==
  /\ round \in Nat /\ streak \in Nat /\ stored \in Nat /\ art \in Nat
  /\ answer \in BOOLEAN /\ owed \in BOOLEAN /\ lost \in BOOLEAN
  /\ pc \in InRun \cup OutOfRun
  /\ outcome \in Outcomes
  /\ job \in {"answer", "verdict", "revision"}
  /\ attempt \in 0..MaxRepairs /\ call \in 0..ReEmitRetries
  /\ ticks \in Nat /\ fixes \in Nat /\ reviews \in Nat
  /\ approved \in Nat /\ revised \in Nat /\ pauses \in Nat
  /\ answers \in 0..MaxAnswers /\ crashes \in 0..MaxCrashes

Init ==
  /\ round = 0 /\ streak = 0 /\ answer = FALSE /\ stored = 1
  /\ pc = "rest" /\ outcome = "none" /\ art = 1
  /\ job = "verdict" /\ attempt = 0 /\ call = 0
  /\ ticks = 0 /\ fixes = 0 /\ reviews = 0
  /\ owed = FALSE /\ lost = FALSE /\ approved = 0 /\ revised = 0
  /\ pauses = 0 /\ answers = 0 /\ crashes = 0

Go(from, to) == pc = from /\ pc' = to

Returns(from, result) ==
  /\ Go(from, "returned")
  /\ outcome' = result

-----------------------------------------------------------------------------
\* mutant: the answer is left to the first revision a review asks for
BeginReviewFirst ==
  /\ Go("rest", "review")
  /\ art' = stored
  /\ ticks' = 0 /\ fixes' = 0 /\ reviews' = 0
  /\ UNCHANGED <<columns, outcome, repair, ghosts>>

\* an answer that waits is landed before anything is reviewed
Begin ==
  /\ Go("rest", IF answer THEN "fixFirst" ELSE "review")
  /\ art' = stored
  /\ ticks' = 0 /\ fixes' = 0 /\ reviews' = 0
  /\ UNCHANGED <<columns, outcome, repair, ghosts>>

-----------------------------------------------------------------------------
(***************************************************************************)
(* drv.fix: it applies an answer or revises for the findings of a review.  *)
(***************************************************************************)
Fix(from) == pc = from /\ fixes' = fixes + 1

\* mutant: the circuit breaker never trips
FixFailsForEver(from) ==
  /\ Fix(from)
  /\ streak' = streak + 1
  /\ Returns(from, "paused")
  /\ pauses' = pauses + 1
  /\ UNCHANGED <<round, answer, stored, art, repair, ticks, reviews, owed, lost, approved,
                 revised, answers, crashes>>

\* the call failed: the round stands still, the circuit breaker counts it
FixFails(from) ==
  /\ Fix(from)
  /\ streak' = streak + 1
  /\ IF streak + 1 >= MaxFixFailures
       THEN Returns(from, "stalled") /\ UNCHANGED pauses
       ELSE Returns(from, "paused") /\ pauses' = pauses + 1
  /\ UNCHANGED <<round, answer, stored, art, repair, ticks, reviews, owed, lost, approved,
                 revised, answers, crashes>>

\* the driver itself threw (Gates C and D: a commit, the CI or a push)
FixThrows(from) ==
  /\ Fix(from)
  /\ pc' = "failed"
  /\ UNCHANGED <<columns, outcome, art, repair, ticks, reviews, ghosts>>

\* applying an answer closes the breaker before its output has been parsed
FixReplies(from) ==
  /\ Fix(from)
  /\ pc' = "parse"
  /\ streak' = IF from = "fixFirst" THEN 0 ELSE streak
  /\ job' = IF from = "fixFirst" THEN "answer" ELSE "revision"
  /\ attempt' = 0
  /\ UNCHANGED <<round, answer, stored, outcome, art, call, ticks, reviews, ghosts>>

-----------------------------------------------------------------------------
(***************************************************************************)
(* parseStructured: a reply that does not parse is sent back, MaxRepairs   *)
(* times; a call that sends it back may itself fail ReEmitRetries times.   *)
(***************************************************************************)
\* mutant: one repair too many
MisparsesOnceMore ==
  /\ IF attempt <= MaxRepairs
       THEN Go("parse", "reEmit") /\ attempt' = attempt + 1 /\ call' = 0
       ELSE Go("parse", "broken") /\ UNCHANGED <<attempt, call>>
  /\ UNCHANGED <<columns, outcome, art, job, ticks, calls, ghosts>>

\* the error of an exhausted repair is no transient one: it waits for a human
Misparses ==
  /\ IF attempt < MaxRepairs
       THEN Go("parse", "reEmit") /\ attempt' = attempt + 1 /\ call' = 0
       ELSE Go("parse", "broken") /\ UNCHANGED <<attempt, call>>
  /\ UNCHANGED <<columns, outcome, art, job, ticks, calls, ghosts>>

CountCall ==
  IF job = "verdict" THEN reviews' = reviews + 1 /\ UNCHANGED fixes
                     ELSE fixes' = fixes + 1 /\ UNCHANGED reviews

\* mutant: a call that fails is repeated one time too many
ReEmitOnceMore ==
  /\ CountCall
  /\ \/ Go("reEmit", "parse") /\ UNCHANGED call
     \/ call <= ReEmitRetries /\ Go("reEmit", "reEmit") /\ call' = call + 1
     \/ call > ReEmitRetries /\ Go("reEmit", "broken") /\ UNCHANGED call
  /\ UNCHANGED <<columns, outcome, art, job, attempt, ticks, ghosts>>

ReEmit ==
  /\ CountCall
  /\ \/ Go("reEmit", "parse") /\ UNCHANGED call
     \/ call < ReEmitRetries /\ Go("reEmit", "reEmit") /\ call' = call + 1
     \/ call = ReEmitRetries /\ Go("reEmit", "broken") /\ UNCHANGED call
  /\ UNCHANGED <<columns, outcome, art, job, attempt, ticks, ghosts>>

\* mutant: the answer is cleared with the reply, before the artefact is written
FixParsesClearing ==
  /\ job # "verdict"
  /\ Go("parse", "persist")
  /\ art' = art + 1
  /\ answer' = (answer /\ job # "answer")
  /\ UNCHANGED <<round, streak, stored, outcome, repair, ticks, calls, ghosts>>

\* a revision that parses is the artefact the run goes on with
FixParses ==
  /\ job # "verdict"
  /\ Go("parse", "persist")
  /\ art' = art + 1
  /\ UNCHANGED <<columns, outcome, repair, ticks, calls, ghosts>>

-----------------------------------------------------------------------------
(***************************************************************************)
(* The writes after a fix: the artefact first, then what it stands for.    *)
(***************************************************************************)
\* mutant: only the answers are written back
PersistAnswerOnly ==
  /\ Go("persist", IF job = "answer" THEN "clear" ELSE "setRound")
  /\ stored' = IF job = "answer" THEN art ELSE stored
  /\ owed' = (owed /\ job # "answer")
  /\ UNCHANGED <<round, streak, answer, outcome, art, repair, ticks, calls, lost, approved,
                 revised, pauses, answers, crashes>>

Persist ==
  /\ Go("persist", IF job = "answer" THEN "clear" ELSE "setRound")
  /\ stored' = art
  /\ owed' = (owed /\ job # "answer")
  /\ revised' = IF job = "revision" THEN revised + 1 ELSE revised
  /\ UNCHANGED <<round, streak, answer, outcome, art, repair, ticks, calls, lost, approved,
                 pauses, answers, crashes>>

ClearHumanAnswer ==
  /\ answer' = FALSE
  /\ \/ Returns("clear", "needsHuman") /\ UNCHANGED ticks
     \/ Go("clear", "review") /\ ticks' = ticks + 1 /\ UNCHANGED outcome
  /\ UNCHANGED <<round, streak, stored, art, repair, calls, ghosts>>

\* mutant: a revision does not count as a round
SetRoundNever ==
  /\ Go("setRound", "closeBreaker")
  /\ UNCHANGED <<columns, outcome, art, repair, ticks, calls, ghosts>>

SetRound ==
  /\ Go("setRound", "closeBreaker")
  /\ round' = round + 1
  /\ UNCHANGED <<streak, answer, stored, outcome, art, repair, ticks, calls, ghosts>>

\* mutant: the cap of a tick is checked one round late
CloseBreakerLate ==
  /\ streak' = 0
  /\ ticks' = ticks + 1
  /\ IF ticks > MaxRoundsPerTick
       THEN Returns("closeBreaker", "paused") /\ pauses' = pauses + 1
       ELSE Go("closeBreaker", "review") /\ UNCHANGED <<outcome, pauses>>
  /\ UNCHANGED <<round, answer, stored, art, repair, calls, owed, lost, approved, revised,
                 answers, crashes>>

CloseBreaker ==
  /\ streak' = 0
  /\ \/ Returns("closeBreaker", "needsHuman") /\ UNCHANGED <<ticks, pauses>>
     \/ /\ ticks' = ticks + 1
        /\ IF ticks + 1 >= MaxRoundsPerTick /\ round < MaxRounds
             THEN Returns("closeBreaker", "paused") /\ pauses' = pauses + 1
             ELSE Go("closeBreaker", "review") /\ UNCHANGED <<outcome, pauses>>
  /\ UNCHANGED <<round, answer, stored, art, repair, calls, owed, lost, approved, revised,
                 answers, crashes>>

-----------------------------------------------------------------------------
(***************************************************************************)
(* drv.review and what its verdict leads to.                               *)
(***************************************************************************)
Review ==
  /\ reviews' = reviews + 1
  /\ \/ Returns("review", "skipped") /\ UNCHANGED <<job, attempt>>
     \/ Go("review", "failed") /\ UNCHANGED <<outcome, job, attempt>>
     \/ /\ Go("review", "parse")
        /\ job' = "verdict" /\ attempt' = 0
        /\ UNCHANGED outcome
  /\ UNCHANGED <<columns, art, call, ticks, fixes, ghosts>>

Clean ==
  /\ job = "verdict"
  /\ Returns("parse", "resolved")
  /\ round' = round + 1
  /\ approved' = art
  /\ UNCHANGED <<streak, answer, stored, art, repair, ticks, calls, owed, lost, revised, pauses,
                 answers, crashes>>

\* mutant: one round past the cap
ChangesRequestedLate ==
  /\ job = "verdict"
  /\ IF round + 1 > MaxRounds
       THEN Returns("parse", "stalled") /\ round' = round + 1
       ELSE Go("parse", "revise") /\ UNCHANGED <<outcome, round>>
  /\ UNCHANGED <<streak, answer, stored, art, repair, ticks, calls, ghosts>>

\* at the cap the findings are handed to a human
ChangesRequested ==
  /\ job = "verdict"
  /\ IF round + 1 >= MaxRounds
       THEN Returns("parse", "stalled") /\ round' = round + 1
       ELSE Go("parse", "revise") /\ UNCHANGED <<outcome, round>>
  /\ UNCHANGED <<streak, answer, stored, art, repair, ticks, calls, ghosts>>

-----------------------------------------------------------------------------
(***************************************************************************)
(* Around a run: the worker's conclusion, retries, the human's answer, and *)
(* a crash of the process.                                                 *)
(***************************************************************************)
Conclude ==
  /\ Go("returned", CASE outcome = "paused" -> "rest"
                      [] outcome \in {"resolved", "skipped"} -> "done"
                      [] OTHER -> "parked")
  /\ UNCHANGED <<columns, outcome, art, repair, ticks, calls, ghosts>>

\* an automatic retry goes on with the loop as it is
AutoRetry ==
  /\ Go("failed", "rest")
  /\ UNCHANGED <<columns, outcome, art, repair, ticks, calls, ghosts>>

\* a manual one also clears the circuit breaker
ManualRetry ==
  /\ \/ Go("failed", "rest")
     \/ Go("broken", "rest")
  /\ streak' = 0
  /\ pauses' = 0
  /\ UNCHANGED <<round, answer, stored, outcome, art, repair, ticks, calls, owed, lost, approved,
                 revised, answers, crashes>>

\* submitGateBAnswers and its siblings: the answer replaces what is stored
SubmitAnswers ==
  /\ answers < MaxAnswers
  /\ Go("parked", "rest")
  /\ answer' = TRUE
  /\ owed' = TRUE
  /\ lost' = (lost \/ owed)
  /\ pauses' = 0
  /\ answers' = answers + 1
  /\ UNCHANGED <<round, streak, stored, outcome, art, repair, ticks, calls, approved, revised,
                 crashes>>

Crash ==
  /\ crashes < MaxCrashes
  /\ pc \in InRun
  /\ pc' = "rest"
  /\ crashes' = crashes + 1
  /\ UNCHANGED <<columns, outcome, art, repair, ticks, calls, owed, lost, approved, revised,
                 pauses, answers>>

Run ==
  \/ \E from \in {"fixFirst", "revise"} : FixFails(from) \/ FixThrows(from) \/ FixReplies(from)
  \/ Misparses \/ ReEmit \/ FixParses
  \/ Persist \/ ClearHumanAnswer \/ SetRound \/ CloseBreaker
  \/ Review \/ Clean \/ ChangesRequested

Next == Begin \/ Run \/ Conclude \/ AutoRetry \/ ManualRetry \/ SubmitAnswers \/ Crash

Spec == Init /\ [][Next]_vars

-----------------------------------------------------------------------------
(***************************************************************************)
(* "A failure does not clear it, the next tick retries, and the answer is  *)
(* never lost": inside the loop an answer stays stored until a persisted   *)
(* artefact holds it, whatever fails or dies in between.                   *)
(***************************************************************************)
AnswerKept == owed => answer

(***************************************************************************)
(* No run resolves or escalates past an answer: the reviewer cannot find   *)
(* the old artefact clean while the maintainer's decision is not in it.    *)
(***************************************************************************)
AnswerBeforeVerdict ==
  pc = "returned" /\ outcome \in {"resolved", "skipped", "needsHuman"} => ~owed /\ ~answer

(***************************************************************************)
(* What a loop that resolved leaves on disk is the version that was found  *)
(* clean, not one a later or a lost revision made of it.                   *)
(***************************************************************************)
ApprovedIsStored == pc = "done" /\ outcome = "resolved" => stored = approved

(***************************************************************************)
(* What a human decided is what a gate passes on: the answer waits until   *)
(* it is in the artefact, no verdict overtakes it, and the artefact that   *)
(* was found clean is the one that is stored.                              *)
(***************************************************************************)
AnswersLand == AnswerKept /\ AnswerBeforeVerdict /\ ApprovedIsStored

(***************************************************************************)
(* "Recovery loses at most one round": a revision that is persisted has    *)
(* its round counted, one per crash excepted, so that the cap is reached.  *)
(***************************************************************************)
RoundsCounted ==
  revised <= round + crashes + (IF pc = "setRound" THEN 1 ELSE 0)

(***************************************************************************)
(* "The hard cap": rounds end at MaxRounds, plus one look at the artefact  *)
(* per answer given after that and per conclusion a crash swallowed.       *)
(***************************************************************************)
RoundsCapped == round <= MaxRounds + answers + crashes

(***************************************************************************)
(* "A poison pill must never spin forever": since a human last looked at   *)
(* it, the loop has paused at most MaxFixFailures times per round it got   *)
(* through, one breaker's worth more for an answer and for each crash.     *)
(***************************************************************************)
PausesBounded == pauses <= MaxFixFailures * (round + crashes + 2)

(***************************************************************************)
(* No mixture of revisions, failures, pauses, answers and crashes keeps a  *)
(* loop going: its rounds are counted and capped, and so are its pauses.   *)
(***************************************************************************)
LoopEnds == RoundsCounted /\ RoundsCapped /\ PausesBounded

(***************************************************************************)
(* A run calls its drivers a bounded number of times: it fixes in at most  *)
(* MaxRoundsPerTick rounds, or one more if an answer was applied before    *)
(* the only one, each with its repairs and the repeated calls of each.     *)
(***************************************************************************)
CallsBounded ==
  LET block == 1 + MaxRepairs * (1 + ReEmitRetries)
  IN  /\ fixes <= (IF MaxRoundsPerTick = 1 THEN 2 ELSE MaxRoundsPerTick) * block
      /\ reviews <= MaxRoundsPerTick * block

(***************************************************************************)
(* lockMaxHoldSec's count of the same calls: "each fix block is 1 drv.fix  *)
(* plus at most P parse repairs => (1+P) drv.fix calls".                   *)
(***************************************************************************)
CallsFitTheLockHold ==
  /\ fixes <= (MaxRoundsPerTick + 1) * (1 + MaxRepairs)
  /\ reviews <= (MaxRoundsPerTick + 1) * (1 + MaxRepairs)

(***************************************************************************)
(* A breaker that trips while it applies an answer keeps it: "the answer   *)
(* is not cleared, so a manual retry tries again".                         *)
(***************************************************************************)
NoAnswerReplaced == ~lost

-----------------------------------------------------------------------------
\* how the contract names the point a run is at
At ==
  IF pc \in OutOfRun THEN "out"
  ELSE IF pc # "returned" THEN "loop"
  ELSE IF outcome = "skipped" THEN "resolved" ELSE outcome

R == INSTANCE ReviewRounds WITH waiting <- answer, at <- At

(***************************************************************************)
(* The engine implements ReviewRounds, what module Pipeline takes it for.  *)
(***************************************************************************)
RefinesRounds == R!Spec
=============================================================================
