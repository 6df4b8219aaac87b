--------------------------- MODULE MCPackageMerge ---------------------------
(***************************************************************************)
(* Two devices and a field that is empty or says something; three packages *)
(* and four decisions let both edit a shared row, one answer the conflict  *)
(* and the other receive the answer.                                       *)
(***************************************************************************)
EXTENDS PackageMerge, TLC

CONSTANTS d1, d2, empty, x

Alike == Permutations({d1, d2})

\* What a merge does after its plan stopped fitting the rows is not followed.
NotStrayed == ~strayed

\* Between its preview and its application a merge depends on its device
\* alone: the rest waits.  What else the device does there could have come
\* before the preview, or makes the plan unfit; a preview closed while it fits
\* leaves what was before it.
OnePreview == Cardinality({d \in Device : plan'[d] # NoPlan}) <= 1

Undisturbed ==
    \A d \in Device : plan[d] # NoPlan =>
        /\ packages' = packages
        /\ plan'[d] # NoPlan =>
             \A e \in Device :
                row'[e] # row[e] => e = d /\ row[d] = NoRow
        /\ plan'[d] = NoPlan =>
             sessions'[d] # sessions[d] \/ row[d] # plan[d].row

\* A merge goes out of reach of an undo when the next is about to be applied.
LateLapse ==
    \A d \in Device : sessions'[d] # sessions[d] =>
        plan[d] # NoPlan \/ conflicts' # conflicts \/ row' # row

\* Choosing the reading already shown, a write that changes only the count.
NoRechoice ==
    \A d \in Device : plan[d] = NoPlan /\ sessions'[d] = sessions[d] =>
        row'[d] # [row[d] EXCEPT !.rev = @ + 1]

\* What is scanned reads as something.
ScansRead ==
    \A d \in Device : row[d] = NoRow /\ row'[d].source = "scanned" =>
        row'[d].text # empty
=============================================================================
