------------------------------ MODULE ShotLoop ------------------------------
(***************************************************************************)
(* run_shot_loop of the video gate: generate a batch of drafts in          *)
(* parallel, audit each, promote the best or lower the guidance scale and  *)
(* try again.  The process may die anywhere; the manifest on disk is all   *)
(* that is left of it, and another run of the shot starts over.            *)
(*                                                                         *)
(* The control strength is left out: the auditor never reports the tag     *)
(* that raises it, so the loop never abandons a shot over its parameters.  *)
(* Guidance is in hundredths.                                              *)
(***************************************************************************)
EXTENDS Integers, Sequences, FiniteSets, FiniteSetsExt, SequencesExt

CONSTANTS
  Seeds,          \* the seeds of a batch; a round draws them anew
  MaxRounds,      \* MAX_RETRY_ROUNDS
  MaxCandidates,  \* MAX_TOTAL_CANDIDATES
  MaxFiles,       \* bound: files one generation leaves
  Findings,       \* what the checks of one file may find
  MaxRuns         \* bound: runs of the loop for the shot

\* A check that breaks is an error, not a rejection.
Outcomes == {"ok", "warn", "reject", "error"}

ASSUME ShotAssumption ==
  /\ {MaxRounds, MaxCandidates, MaxFiles, MaxRuns} \subseteq Nat \ {0}
  /\ Findings \subseteq [readable : BOOLEAN, flow : Outcomes, similarity : Outcomes]

DefaultCfg == 600
CfgFloor == 200

VARIABLES
  phase,     \* down, generating, auditing, copied
  round, cfg, total,
  results,   \* the seeds of the generations of the round, as they complete
  drafts,    \* candidate_files: <<round, seed, n>>, in the order the generations completed
  manifest,  \* in memory
  disk,      \* the saved manifest, or NoManifest
  promoted,  \* files copied to the promoted directory
  runs,
  uneven     \* history: rounds in which a generation did not leave one file

shotVars == <<phase, round, cfg, total, results, drafts, manifest, disk, promoted, runs, uneven>>

NoManifest == [status |-> "none", attempts |-> 0, candidates |-> <<>>, verified |-> <<>>]

ShotInit ==
  /\ phase = "down" /\ round = 0 /\ cfg = DefaultCfg /\ total = 0
  /\ results = <<>> /\ drafts = <<>> /\ manifest = NoManifest /\ disk = NoManifest /\ promoted = {} /\ runs = 0
  /\ uneven = {}

-----------------------------------------------------------------------------
(* Agent 2 *)

Checks(f) == {f.flow, f.similarity}

Decision(f) ==
  IF ~f.readable \/ "reject" \in Checks(f) THEN "REJECTED"
  ELSE IF Checks(f) # {"ok"} THEN "WARN_REVIEW_REQUIRED"
  ELSE "APPROVED_FOR_TIMELINE"

\* How far a rejection asks to lower the guidance.
Lowered(f) ==
  IF ~f.readable THEN 0
  ELSE (CASE f.flow = "reject" -> 150 [] f.flow = "warn" -> 75 [] OTHER -> 0)
       + (IF f.similarity = "reject" THEN 50 ELSE 0)

\* calculate_retry_parameters: rejected files only.  Without guidance the
\* heuristics see unreadable files alone, and change nothing.
RetryCfg(found) ==
  LET asked == FoldLeft(LAMBDA sum, f : IF Decision(f) = "REJECTED" THEN sum + Lowered(f) ELSE sum,
                        0, found)
  IN Max({cfg - asked, CfgFloor})

-----------------------------------------------------------------------------
(* run_shot_loop *)

\* A new manifest, saved; an unreachable generator fails the shot at once.
StartShot(healthy) ==
  /\ phase = "down" /\ runs < MaxRuns
  /\ runs' = runs + 1
  /\ cfg' = DefaultCfg /\ total' = 0 /\ results' = <<>> /\ drafts' = <<>> /\ uneven' = {}
  /\ LET fresh == [NoManifest EXCEPT !.status = IF healthy THEN "IN_PROGRESS" ELSE "FAILED_MAX_RETRIES"]
     IN disk' = fresh /\ manifest' = IF healthy THEN [fresh EXCEPT !.attempts = 1] ELSE fresh
  /\ phase' = IF healthy THEN "generating" ELSE "down"
  /\ round' = IF healthy THEN 1 ELSE 0
  /\ UNCHANGED promoted

\* The files a generation leaves.
Files(seed, n) == [i \in 1..n |-> <<round, seed, i>>]

\* generate_single for one seed ends: with files, or with none when it failed
\* or timed out.
Generated(seed, files) ==
  /\ phase = "generating"
  /\ \A i \in DOMAIN results : results[i] # seed
  /\ results' = Append(results, seed)
  /\ drafts' = drafts \o Files(seed, files)
  /\ phase' = IF Len(results') = Cardinality(Seeds) THEN "auditing" ELSE phase
  /\ uneven' = IF files = 1 THEN uneven ELSE uneven \union {round}
  /\ UNCHANGED <<round, cfg, total, manifest, disk, promoted, runs>>

\* Mutant: the batch is listed in the order it was submitted.
RecordSubmitted(found) ==
  LET seeds == SetToSortSeq(Seeds, <)
  IN [i \in 1..Min({Len(drafts), Len(seeds)}) |->
        [round |-> round, seed |-> seeds[i], cfg |-> cfg, file |-> drafts[i], gate |-> Decision(found[i])]]

\* zip(batch_results, reports): the i-th report goes with the i-th generation,
\* a failed one included, and reports beyond the last generation are dropped.
Record(found) ==
  [i \in 1..Min({Len(drafts), Len(results)}) |->
     [round |-> round, seed |-> results[i], cfg |-> cfg, file |-> drafts[i],
      gate |-> Decision(found[i])]]

\* evaluate_and_promote: the first approved file, else the first with a warning.
Best(found) ==
  LET decided(d) == {i \in DOMAIN found : Decision(found[i]) = d}
  IN IF decided("APPROVED_FOR_TIMELINE") # {} THEN decided("APPROVED_FOR_TIMELINE")
     ELSE decided("WARN_REVIEW_REQUIRED")

\* The next round, or the end of the loop.
NextRound(last, saved) ==
  IF last
  THEN /\ phase' = "down" /\ round' = 0 /\ results' = <<>> /\ drafts' = <<>>
       /\ disk' = [saved EXCEPT !.status = "FAILED_MAX_RETRIES"] /\ manifest' = NoManifest
  ELSE /\ phase' = "generating" /\ round' = round + 1 /\ results' = <<>> /\ drafts' = <<>>
       /\ manifest' = [saved EXCEPT !.attempts = @ + 1]

\* No file at all: the next round with the same parameters, and no save.
AllFailed ==
  /\ phase = "auditing" /\ drafts = <<>>
  /\ NextRound(round = MaxRounds, manifest)
  /\ round < MaxRounds => disk' = disk
  /\ UNCHANGED <<cfg, total, promoted, runs, uneven>>

\* Nothing to promote: lower guidance, save, go on until a cap is reached.
Reject(found) ==
  /\ phase = "auditing" /\ drafts # <<>> /\ Len(found) = Len(drafts) /\ Best(found) = {}
  /\ total' = total + Len(found)
  /\ cfg' = RetryCfg(found)
  /\ LET saved == [manifest EXCEPT !.candidates = @ \o Record(found)]
         last == round = MaxRounds \/ total' >= MaxCandidates
     IN NextRound(last, saved) /\ (~last => disk' = saved)
  /\ UNCHANGED <<promoted, runs, uneven>>

\* The winner is copied before the manifest that names it is saved.  The copy is skipped
\* when the draft is gone, but nothing here removes one.
Promote(found) ==
  /\ phase = "auditing" /\ Len(found) = Len(drafts) /\ Best(found) # {}
  /\ LET winner == drafts[Min(Best(found))]
     IN /\ promoted' = promoted \union {winner}
        /\ manifest' = [manifest EXCEPT !.status = "APPROVED", !.verified = winner,
                                        !.candidates = @ \o Record(found)]
  /\ total' = total + Len(found)
  /\ phase' = "copied"
  /\ UNCHANGED <<round, cfg, results, drafts, disk, runs, uneven>>

SaveApproved ==
  /\ phase = "copied"
  /\ disk' = manifest
  /\ phase' = "down" /\ manifest' = NoManifest /\ round' = 0
  /\ results' = <<>> /\ drafts' = <<>>
  /\ UNCHANGED <<cfg, total, promoted, runs, uneven>>

Die ==
  /\ phase # "down"
  /\ phase' = "down" /\ manifest' = NoManifest /\ round' = 0
  /\ results' = <<>> /\ drafts' = <<>>
  /\ UNCHANGED <<cfg, total, disk, promoted, runs, uneven>>

ShotNext ==
  \/ \E healthy \in BOOLEAN : StartShot(healthy)
  \/ \E seed \in Seeds, files \in 0..MaxFiles : Generated(seed, files)
  \/ AllFailed
  \/ \E found \in [1..Len(drafts) -> Findings] : Reject(found) \/ Promote(found)
  \/ SaveApproved \/ Die

ShotSpec == ShotInit /\ [][ShotNext]_shotVars

-----------------------------------------------------------------------------

\* An approved shot can be made again from its manifest: the promoted file is
\* there, it is the best the auditor saw in its round, and, when every
\* generation of the round left one file, it is on record with the seed that
\* made it.
ApprovedIsReproducible ==
  disk.status = "APPROVED" =>
    /\ disk.verified \in promoted
    /\ \A i \in DOMAIN disk.candidates :
         LET c == disk.candidates[i]
         IN /\ c.file = disk.verified => c.gate # "REJECTED"
            /\ c.gate = "APPROVED_FOR_TIMELINE" =>
                 \A j \in DOMAIN disk.candidates :
                   disk.candidates[j].file = disk.verified => disk.candidates[j].gate = c.gate
    /\ disk.verified[1] \notin uneven => \E i \in DOMAIN disk.candidates :
         disk.candidates[i].file = disk.verified /\ disk.candidates[i].seed = disk.verified[2]
=============================================================================
