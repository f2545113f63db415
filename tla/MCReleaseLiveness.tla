------------------------- MODULE MCReleaseLiveness -------------------------
(***************************************************************************)
(* The instance of ReleaseWorkflow for liveness, and for a GitHub that     *)
(* applies no POST late.  Symmetry sets are not sound for liveness: runs,  *)
(* releases, contents and texts are numbers, used in their order.  It      *)
(* looks at two scenes, each with what the other leaves out to stay small. *)
(***************************************************************************)
EXTENDS ReleaseWorkflow

VARIABLE scene  \* which of the two this behaviour is

Daemon   == CHOOSE w \in Workers : TRUE
Unedited == content = [e \in Events |-> 1]

FirstUnused(S, used(_), usedNext(_)) ==
  \A m, n \in S : m < n /\ ~used(n) /\ usedNext(n) => used(m)

InOrder ==
  /\ FirstUnused(Runs, LAMBDA r : runs[r].status # "absent",
                       LAMBDA r : runs'[r].status # "absent")
  /\ \A s \in Scopes :
       /\ FirstUnused(Keys, LAMBDA k : k \in released[s], LAMBDA k : k \in released'[s])
       /\ FirstUnused(Contents, LAMBDA c : assets[<<s, c>>].approval # NoEvent,
                                LAMBDA c : assets'[<<s, c>>].approval # NoEvent)

\* No release is refused because its drafts read like another's.
TextsDiffer ==
  \A w \in Workers : At(w, "intend") /\ job'[w].pc = "failed" /\ UNCHANGED faults =>
    ~ClaimHeld(job[w].run) \/ approvals[job[w].event].status # "absent"

\* Several workers on one release that is not edited, any one fault and then a crash.
Together ==
  /\ UNCHANGED content
  /\ faults' <= 1 \/ UNCHANGED faults \/ \E w \in Workers : Crash(w)
  /\ \A s \in Scopes : released'[s] \subseteq {1}

\* One worker after the other, with a second release, one edit and one crash.
InTurn ==
  /\ \A w \in Workers \ {Daemon} : job'[w] = Idle
  /\ \A e \in Events : content'[e] # content[e] => Unedited /\ e[2] \in released[e[1]]
  /\ \/ UNCHANGED faults \/ ~UNCHANGED content
     \/ (\E w \in Workers : Crash(w)) /\ faults = IF Unedited THEN 0 ELSE 1

SceneInit == WorkflowInit /\ Unedited /\ scene \in {"together", "in turn"}

SceneNext ==
  /\ UNCHANGED scene
  /\ WorkflowNext
  /\ InOrder /\ TextsDiffer
  /\ IF scene = "together" THEN Together ELSE InTurn

FairSceneSpec == SceneInit /\ [][SceneNext]_<<allVars, scene>> /\ Fairness
=============================================================================
