-------------------------- MODULE SenderRefinement --------------------------
(***************************************************************************)
(* AuthenticationSenderRuntime keeps the promise of SenderSchedule as long *)
(* as its pauses and resumes alternate: a pause is requested when no other *)
(* one is outstanding and no earlier resume is still to be carried out,    *)
(* and it is resumed once.  (SenderErasedPause shows what happens          *)
(* otherwise.)  A pause for the interval in progress may come too late to  *)
(* take effect; the promise is then that of the round without it.          *)
(***************************************************************************)
EXTENDS SenderRuntime, Timeline

VARIABLES
    timeline,  \* history: the segments of the pauses that took effect
    missed     \* history: the accepted pause came too late

refinementVars == <<vars, timeline, missed>>

AlternatingPause(k, lead) ==
    /\ RequestPause(k, lead)
    /\ boundary.after = 0 /\ resumeInterval = 0
    /\ missed' = (interval > k)
    /\ UNCHANGED timeline

AlternatingResume(r, lead) ==
    /\ Resume(r, lead)
    /\ boundary.after # 0
    /\ timeline' = IF missed THEN timeline
                   ELSE Append(timeline, Segment(resumeInterval', resumeTs'))
    /\ UNCHANGED missed

(* A round that is started begins a new timeline. *)
NewRound ==
    /\ timeline' = IF run' # run THEN <<Segment(1, startTs')>> ELSE timeline
    /\ missed' = IF run' # run THEN FALSE ELSE missed

RefinementNext ==
    \/ \E k \in 1 .. LastInterval, lead \in PauseLeads : AlternatingPause(k, lead)
    \/ \E r \in 2 .. LastInterval + 1, lead \in ResumeLeads : AlternatingResume(r, lead)
    \/ /\ \/ Tick \/ Worker \/ ControlProgress
          \/ (\E op \in Calls : StopRequest(op)) \/ ConfigureFault \/ ClearFault
       /\ NewRound

RefinementInit == Init /\ timeline = <<>> /\ missed = FALSE

RefinementSpec == RefinementInit /\ [][RefinementNext]_refinementVars

(* The promise, for the pauses that took effect. *)
Schedule ==
    INSTANCE SenderSchedule WITH
        Timestamps <- {t + lead : t \in 0 .. MaxTime,
                                  lead \in StartLeads \cup ResumeLeads},
        sending <- running,
        hold <- IF missed THEN 0 ELSE boundary.after,
        reached <- current,
        tx <- tx.dg

=============================================================================
