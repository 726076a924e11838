--------------------------- MODULE GateDTreeProofs ---------------------------
(***************************************************************************)
(* Proofs about the worktree of Gate D.  What is pushed and what is        *)
(* offered for a merge is green whatever fails or dies; what is reviewed   *)
(* is green as long as the process does not die in a revision.             *)
(***************************************************************************)
EXTENDS GateDTree, TLAPS

Writing == {"claude", "commit", "ci", "rollback"}
Landing == {"report", "pushHardened", "rePush", "hardened"}

\* which steps belong to which stage, and what is pinned there
StageInv ==
  /\ stage = "merge" => pc = "idle"
  /\ stage = "loop" => /\ pc \notin Landing \cup {"normalise", "pin"}
                       /\ ~hardening /\ verified = None
  /\ stage = "harden" => /\ pc \in {"idle", "failed", "normalise", "pin"} \cup Writing \cup Landing
                         /\ green # None
                         /\ pc # "idle" => hardening
  /\ verified # None => hardening
  /\ pc = "pinned" => green # None
  /\ pc \in Writing \cup {"push", "mark"} => anchor # None
  /\ pc = "recover" => rollbackTo # None

\* what was pushed or verified passed the CI; a hardened commit holds its baseline
VerifiedInv ==
  /\ remote \in passed
  /\ pc \in {"push", "pin"} => head \in passed
  /\ pc \in Landing \/ stage = "merge" => verified = head /\ verified # None
  /\ pc \in Writing \cup {"normalise", "pin"} => verified = None
  /\ verified # None => verified \in passed /\ green \in anc[verified]
  /\ stage = "harden" /\ pc \in Writing => anchor = green
  /\ stage = "harden" /\ pc \in {"claude", "commit", "ci", "pin"} => green \in anc[head]
  /\ pc = "hardened" \/ stage = "merge" => remote = head
  /\ \A c \in Commits : c \in anc[c]

IInv == TypeOK /\ StageInv /\ VerifiedInv

\* without crashes: a worktree that is not clean and green is marked before the step ends
GreenInv ==
  /\ rollbackTo # None => rollbackTo \in passed
  /\ pc \in Writing \cup {"push", "mark"} => anchor \in passed
  /\ pc \in {"enter", "review", "revise", "resolved", "pinned", "push", "pushed"} =>
       head \in passed /\ ~dirty
  /\ stage = "loop" /\ pc \in {"idle", "failed"} => rollbackTo # None \/ (head \in passed /\ ~dirty)
  /\ green # None => green \in passed

-----------------------------------------------------------------------------
(* A new commit descends from HEAD; the others keep their ancestors. *)
LEMMA NewCommitGrows ==
  ASSUME TypeOK, NewCommit
  PROVE  /\ DOMAIN anc' \in SUBSET (1..MaxCommits)
         /\ anc' \in [DOMAIN anc' -> SUBSET DOMAIN anc']
         /\ DOMAIN anc \subseteq DOMAIN anc'
         /\ head' \in DOMAIN anc'
         /\ anc'[head'] = anc[head] \cup {head'}
         /\ \A d \in DOMAIN anc : anc'[d] = anc[d]
         /\ \A d \in DOMAIN anc' : d \in DOMAIN anc \/ d = head'
<1> DEFINE new == CHOOSE n \in 1..MaxCommits : n \notin Commits
<1>1. new \in 1..MaxCommits /\ new \notin Commits
  <2>1. \E n \in 1..MaxCommits : n \notin Commits
    BY DEF TypeOK, NewCommit
  <2>2. QED
    BY <2>1
<1>2. /\ head' = new
      /\ anc' = [d \in Commits \cup {new} |-> IF d = new THEN anc[head] \cup {new} ELSE anc[d]]
  BY DEF NewCommit
<1> HIDE DEF new
<1>3. QED
  BY <1>1, <1>2 DEF TypeOK, Commits

(* What a commit changes. *)
LEMMA CommitGrows ==
  ASSUME TypeOK, Commit
  PROVE  /\ pc = "commit" /\ pc' \in {"ci", "rollback"}
         /\ dirty' \in BOOLEAN /\ after' \in {"idle", "failed"}
         /\ UNCHANGED <<stage, attempt, anchor, passed, remote, row, crashes>>
         /\ DOMAIN anc' \in SUBSET (1..MaxCommits)
         /\ anc' \in [DOMAIN anc' -> SUBSET DOMAIN anc']
         /\ DOMAIN anc \subseteq DOMAIN anc'
         /\ head' \in DOMAIN anc'
         /\ anc[head] \subseteq anc'[head']
         /\ \A d \in DOMAIN anc : anc'[d] = anc[d]
         /\ (\A d \in DOMAIN anc : d \in anc[d]) => \A d \in DOMAIN anc' : d \in anc'[d]
<1>1. /\ pc = "commit" /\ pc' \in {"ci", "rollback"}
      /\ UNCHANGED <<stage, attempt, anchor, passed, remote, row, crashes>>
  BY DEF Commit, Go
<1>2. dirty' \in BOOLEAN /\ after' \in {"idle", "failed"}
  BY DEF Commit, TypeOK
<1>3. NewCommit \/ UNCHANGED <<head, anc>>
  BY DEF Commit
<1>4. CASE NewCommit
  BY <1>1, <1>2, <1>4, NewCommitGrows
<1>5. CASE UNCHANGED <<head, anc>>
  BY <1>1, <1>2, <1>5 DEF TypeOK, Commits
<1>6. QED
  BY <1>3, <1>4, <1>5

(* Every step keeps the types. *)
LEMMA TypeStep ==
  ASSUME TypeOK, StageInv, [Next]_vars
  PROVE  TypeOK'
<1> USE GateDTreeAssumption DEF TypeOK, StageInv, Writing, Landing, Commits, None, Steps, tree, history, row, local
<1>1. CASE EnterLoop
  BY <1>1 DEF EnterLoop, Go
<1>2. CASE RecoverRollback
  BY <1>2 DEF RecoverRollback, Go, ResetTo, ResetFails
<1>3. CASE Loop
  BY <1>3 DEF Loop, Go
<1>4. CASE Review
  BY <1>4 DEF Review
<1>5. CASE PinGreen
  BY <1>5 DEF PinGreen, Go
<1>6. CASE ToHardening
  BY <1>6 DEF ToHardening, Go
<1>7. CASE BeginFix
  BY <1>7 DEF BeginFix, Go
<1>8. CASE Claude
  BY <1>8 DEF Claude, Go
<1>9. CASE Commit
  BY <1>9, CommitGrows
<1>10. CASE CI
  BY <1>10 DEF CI
<1>11. CASE Push
  BY <1>11 DEF Push, Go, PushOk, PushFails, FastForward
<1>12. CASE Revised
  BY <1>12 DEF Revised
<1>13. CASE Rollback
  BY <1>13 DEF Rollback, Go, ResetTo, ResetFails
<1>14. CASE MarkRollback
  BY <1>14 DEF MarkRollback, Go
<1>15. CASE EnterHardening
  BY <1>15 DEF EnterHardening, Go, Reusable
<1>16. CASE Normalise
  <2>1. green \in Commits /\ head' \in Commits /\ anchor' \in Commits \cup {None}
    BY <1>16 DEF Normalise, Go, ResetTo, ResetFails
  <2>2. dirty' \in BOOLEAN
    BY <1>16 DEF Normalise, ResetTo, ResetFails
  <2>3. attempt' \in 0..MaxSelfFixes /\ pc' \in {"claude", "failed"}
    BY <1>16 DEF Normalise, Go
  <2>4. QED
    BY <1>16, <2>1, <2>2, <2>3 DEF Normalise
<1>17. CASE PinVerified
  BY <1>17 DEF PinVerified, Go
<1>18. CASE WriteReport
  BY <1>18 DEF WriteReport, Go
<1>19. CASE PushHardened
  BY <1>19 DEF PushHardened, Go, PushOk, PushFails, FastForward
<1>20. CASE FinishHardening
  BY <1>20 DEF FinishHardening, Go
<1>21. CASE Retry
  BY <1>21 DEF Retry, Go
<1>22. CASE Crash
  <2>1. crashes' \in 0..MaxCrashes
    BY <1>22 DEF Crash
  <2>2. dirty' \in BOOLEAN
    BY <1>22 DEF Crash
  <2>3. QED
    BY <1>22, <2>1, <2>2 DEF Crash
<1>23. CASE UNCHANGED vars
  BY <1>23 DEF vars
<1>24. QED
  BY <1>1, <1>2, <1>3, <1>4, <1>5, <1>6, <1>7, <1>8, <1>9, <1>10, <1>11, <1>12, <1>13, <1>14, <1>15, <1>16, <1>17, <1>18, <1>19, <1>20, <1>21, <1>22, <1>23 DEF Next

(* Every step belongs to its stage. *)
LEMMA StageStep ==
  ASSUME TypeOK, StageInv, VerifiedInv, [Next]_vars
  PROVE  StageInv'
<1> USE GateDTreeAssumption DEF TypeOK, StageInv, VerifiedInv, Writing, Landing, Commits, None, Steps, tree, history, row, local
<1>1. CASE EnterLoop
  BY <1>1 DEF EnterLoop, Go
<1>2. CASE RecoverRollback
  BY <1>2 DEF RecoverRollback, Go, ResetTo, ResetFails
<1>3. CASE Loop
  BY <1>3 DEF Loop, Go
<1>4. CASE Review
  BY <1>4 DEF Review
<1>5. CASE PinGreen
  BY <1>5 DEF PinGreen, Go
<1>6. CASE ToHardening
  BY <1>6 DEF ToHardening, Go
<1>7. CASE BeginFix
  BY <1>7 DEF BeginFix, Go
<1>8. CASE Claude
  BY <1>8 DEF Claude, Go
<1>9. CASE Commit
  BY <1>9, CommitGrows
<1>10. CASE CI
  BY <1>10 DEF CI
<1>11. CASE Push
  BY <1>11 DEF Push, Go, PushOk, PushFails, FastForward
<1>12. CASE Revised
  BY <1>12 DEF Revised
<1>13. CASE Rollback
  BY <1>13 DEF Rollback, Go, ResetTo, ResetFails
<1>14. CASE MarkRollback
  BY <1>14 DEF MarkRollback, Go
<1>15. CASE EnterHardening
  BY <1>15 DEF EnterHardening, Go, Reusable
<1>16. CASE Normalise
  BY <1>16 DEF Normalise, Go, ResetTo, ResetFails
<1>17. CASE PinVerified
  BY <1>17 DEF PinVerified, Go
<1>18. CASE WriteReport
  BY <1>18 DEF WriteReport, Go
<1>19. CASE PushHardened
  BY <1>19 DEF PushHardened, Go, PushOk, PushFails, FastForward
<1>20. CASE FinishHardening
  BY <1>20 DEF FinishHardening, Go
<1>21. CASE Retry
  BY <1>21 DEF Retry, Go
<1>22. CASE Crash
  BY <1>22 DEF Crash
<1>23. CASE UNCHANGED vars
  BY <1>23 DEF vars
<1>24. QED
  BY <1>1, <1>2, <1>3, <1>4, <1>5, <1>6, <1>7, <1>8, <1>9, <1>10, <1>11, <1>12, <1>13, <1>14, <1>15, <1>16, <1>17, <1>18, <1>19, <1>20, <1>21, <1>22, <1>23 DEF Next

(* Nothing that is pushed or verified has not passed the CI. *)
LEMMA VerifiedStep ==
  ASSUME TypeOK, StageInv, VerifiedInv, [Next]_vars
  PROVE  VerifiedInv'
<1> USE GateDTreeAssumption DEF TypeOK, StageInv, VerifiedInv, Writing, Landing, Commits, None, Steps, tree, history, row, local
<1>1. CASE EnterLoop
  BY <1>1 DEF EnterLoop, Go
<1>2. CASE RecoverRollback
  BY <1>2 DEF RecoverRollback, Go, ResetTo, ResetFails
<1>3. CASE Loop
  BY <1>3 DEF Loop, Go
<1>4. CASE Review
  BY <1>4 DEF Review
<1>5. CASE PinGreen
  BY <1>5 DEF PinGreen, Go
<1>6. CASE ToHardening
  BY <1>6 DEF ToHardening, Go
<1>7. CASE BeginFix
  BY <1>7 DEF BeginFix, Go
<1>8. CASE Claude
  BY <1>8 DEF Claude, Go
<1>9. CASE Commit
  BY <1>9, CommitGrows
<1>10. CASE CI
  BY <1>10 DEF CI
<1>11. CASE Push
  BY <1>11 DEF Push, Go, PushOk, PushFails, FastForward
<1>12. CASE Revised
  BY <1>12 DEF Revised
<1>13. CASE Rollback
  BY <1>13 DEF Rollback, Go, ResetTo, ResetFails
<1>14. CASE MarkRollback
  BY <1>14 DEF MarkRollback, Go
<1>15. CASE EnterHardening
  BY <1>15 DEF EnterHardening, Go, Reusable
<1>16. CASE Normalise
  BY <1>16 DEF Normalise, Go, ResetTo, ResetFails
<1>17. CASE PinVerified
  BY <1>17 DEF PinVerified, Go
<1>18. CASE WriteReport
  BY <1>18 DEF WriteReport, Go
<1>19. CASE PushHardened
  BY <1>19 DEF PushHardened, Go, PushOk, PushFails, FastForward
<1>20. CASE FinishHardening
  BY <1>20 DEF FinishHardening, Go
<1>21. CASE Retry
  BY <1>21 DEF Retry, Go
<1>22. CASE Crash
  BY <1>22 DEF Crash
<1>23. CASE UNCHANGED vars
  BY <1>23 DEF vars
<1>24. QED
  BY <1>1, <1>2, <1>3, <1>4, <1>5, <1>6, <1>7, <1>8, <1>9, <1>10, <1>11, <1>12, <1>13, <1>14, <1>15, <1>16, <1>17, <1>18, <1>19, <1>20, <1>21, <1>22, <1>23 DEF Next

(* A step that does not die leaves the tree green or marked. *)
LEMMA GreenStep ==
  ASSUME crashes' = 0, TypeOK, StageInv, VerifiedInv, GreenInv, [Next]_vars
  PROVE  GreenInv'
<1> USE GateDTreeAssumption DEF TypeOK, StageInv, GreenInv, Writing, Landing, None, Steps, tree, history, row, local
<1>1. CASE EnterLoop
  BY <1>1 DEF EnterLoop, Go
<1>2. CASE RecoverRollback
  BY <1>2 DEF RecoverRollback, Go, ResetTo, ResetFails
<1>3. CASE Loop
  BY <1>3 DEF Loop, Go
<1>4. CASE Review
  BY <1>4 DEF Review
<1>5. CASE PinGreen
  BY <1>5 DEF PinGreen, Go
<1>6. CASE ToHardening
  BY <1>6 DEF ToHardening, Go
<1>7. CASE BeginFix
  BY <1>7 DEF BeginFix, Go
<1>8. CASE Claude
  BY <1>8 DEF Claude, Go
<1>9. CASE Commit
  BY <1>9, CommitGrows
<1>10. CASE CI
  BY <1>10 DEF CI
<1>11. CASE Push
  BY <1>11 DEF Push, Go, PushOk, PushFails, FastForward
<1>12. CASE Revised
  BY <1>12 DEF Revised
<1>13. CASE Rollback
  BY <1>13 DEF Rollback, Go, ResetTo, ResetFails
<1>14. CASE MarkRollback
  BY <1>14 DEF MarkRollback, Go
<1>15. CASE EnterHardening
  BY <1>15 DEF EnterHardening, Go, Reusable
<1>16. CASE Normalise
  BY <1>16 DEF Normalise, Go, ResetTo, ResetFails
<1>17. CASE PinVerified
  BY <1>17 DEF PinVerified, Go
<1>18. CASE WriteReport
  BY <1>18 DEF WriteReport, Go
<1>19. CASE PushHardened
  BY <1>19 DEF PushHardened, Go, PushOk, PushFails, FastForward
<1>20. CASE FinishHardening
  BY <1>20 DEF FinishHardening, Go
<1>21. CASE Retry
  BY <1>21 DEF Retry, Go
<1>22. CASE Crash
  BY <1>22 DEF Crash
<1>23. CASE UNCHANGED vars
  BY <1>23 DEF vars
<1>24. QED
  BY <1>1, <1>2, <1>3, <1>4, <1>5, <1>6, <1>7, <1>8, <1>9, <1>10, <1>11, <1>12, <1>13, <1>14, <1>15, <1>16, <1>17, <1>18, <1>19, <1>20, <1>21, <1>22, <1>23 DEF Next

(* The invariant is inductive. *)
THEOREM Inductive == Spec => []IInv
<1>1. ASSUME Init
      PROVE  IInv
  <2> USE <1>1, GateDTreeAssumption DEF Init, None
  <2>1. dirty \in BOOLEAN /\ hardening \in BOOLEAN /\ report \in BOOLEAN
    BY Zenon
  <2>2. /\ 1 \in 1..MaxCommits
        /\ attempt \in 0..MaxSelfFixes /\ crashes \in 0..MaxCrashes
    OBVIOUS
  <2>3. Commits = {1} /\ anc \in [Commits -> SUBSET Commits] /\ anc[1] = {1}
    BY DEF Commits
  <2>4. TypeOK
    BY <2>1, <2>2, <2>3 DEF TypeOK, Steps
  <2>5. StageInv
    BY DEF StageInv, Writing, Landing
  <2>6. VerifiedInv
    BY <2>3 DEF VerifiedInv, Writing, Landing
  <2>7. QED
    BY <2>4, <2>5, <2>6 DEF IInv
<1>2. IInv /\ [Next]_vars => IInv'
  BY TypeStep, StageStep, VerifiedStep DEF IInv
<1>3. QED
  BY <1>1, <1>2, PTL DEF Spec

(* Whatever fails or dies, the pull request shows a commit that passed the *)
(* CI with a clean tree.                                                   *)
THEOREM OnlyGreenIsPushed == Spec => []PushedIsGreen
<1>1. IInv => PushedIsGreen
  BY DEF IInv, VerifiedInv, PushedIsGreen
<1>2. QED
  BY <1>1, Inductive, PTL

(* What is offered for a merge is the verified commit, on top of the one   *)
(* that was reviewed, and the pull request shows it.                       *)
THEOREM MergeReadyIsSound == Spec => []MergeReadyIsPushed
<1>1. IInv => MergeReadyIsPushed
  BY DEF IInv, VerifiedInv, MergeReadyIsPushed
<1>2. QED
  BY <1>1, Inductive, PTL

(* Nothing red is pushed, and nothing unverified is offered for a merge.   *)
THEOREM OnlyGreenGoesOut == Spec => []OnlyGreenLeaves
BY OnlyGreenIsPushed, MergeReadyIsSound, PTL DEF OnlyGreenLeaves

\* crashes are only ever counted up
LEMMA CrashesGrow ==
  ASSUME TypeOK, [Next]_vars, crashes' = 0
  PROVE  crashes = 0
<1>1. CASE Crash
  BY <1>1 DEF Crash, TypeOK
<1>2. CASE UNCHANGED crashes
  BY <1>2
<1>3. Crash \/ UNCHANGED crashes
  BY DEF Next, vars, row, tree, history, local, EnterLoop, RecoverRollback, Loop, Review, PinGreen, ToHardening,
         BeginFix, Claude, Commit, CI, Push, Revised, Rollback, MarkRollback, EnterHardening,
         Normalise, PinVerified, WriteReport, PushHardened, FinishHardening, Retry, NewCommit
<1> QED BY <1>1, <1>2, <1>3

(* Until a process dies, what is reviewed and what is pinned as the        *)
(* baseline is green, however many calls and resets fail.                  *)
THEOREM ReviewsSeeGreen == Spec => []GreenTillCrash
<1> DEFINE Inv == crashes = 0 => GreenInv
<1>1. Init => Inv
  BY DEF Init, GreenInv, Writing, None
<1>2. IInv /\ Inv /\ [Next]_vars => Inv'
  BY GreenStep, CrashesGrow DEF IInv
<1>3. Inv => GreenTillCrash
  BY DEF GreenInv, GreenTillCrash, ReviewedIsGreenTillCrash, ReviewedIsGreen, BaselineIsGreen
<1> HIDE DEF Inv
<1>4. QED
  BY <1>1, <1>2, <1>3, Inductive, PTL DEF Spec
=============================================================================
