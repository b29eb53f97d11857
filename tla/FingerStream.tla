---------------------------- MODULE FingerStream ----------------------------
(***************************************************************************)
(* What touch passthrough promises the phone.  Frames of fingers are       *)
(* reported one by one, and a phone that is in step with them is taken     *)
(* from one frame to the next before another is reported: fingers that are *)
(* gone lift first, then new ones land one at a time, no finger lifts and  *)
(* lands again, those that stay are always where the frame has them.  A    *)
(* phone that missed something is in step again when a gesture starts or   *)
(* ends.                                                                   *)
(***************************************************************************)
CONSTANT Fingers    \* records with the id of a finger and its place

VARIABLES
    frame,      \* the fingers of the last frame
    known,      \* the fingers the phone knows
    good,       \* the phone missed nothing since a gesture started or ended
    pending     \* there is more to tell of the last frame

streamVars == <<frame, known, good, pending>>

IdsOf(S) == {f.id : f \in S}

(* The fingers of the frame with these ids, where the frame has them.      *)
Placed(ids) == {f \in frame : f.id \in ids}

StreamInit == frame = {} /\ known = {} /\ good = TRUE /\ pending = FALSE

(* No contact is in a frame twice; a phone in step is told of every frame  *)
(* it does not already know.                                               *)
Report ==
    /\ ~pending
    /\ frame' \subseteq Fingers
    /\ \A f, g \in frame' : f.id = g.id => f = g
    /\ pending' \in BOOLEAN
    /\ good /\ frame' # known => pending'
    /\ UNCHANGED <<known, good>>

(* Fingers that are gone lift, except those in K; the others move.         *)
Lift(K) == known' = Placed(IdsOf(known)) \cup K

Gone == {k \in known : k.id \notin IdsOf(frame)}

(* Nobody is left to lift, and f lands.                                    *)
Land(f) ==
    /\ Gone = {} /\ f.id \notin IdsOf(known)
    /\ known' = Placed(IdsOf(known) \cup {f.id})

(* An event, the last of its frame or not.  It may not arrive; one that    *)
(* starts or ends a gesture brings any phone back in step.                 *)
Tell ==
    /\ pending /\ pending' \in BOOLEAN
    /\ \/ /\ good /\ good'
          /\ (\E K \in SUBSET Gone : Lift(K)) \/ (\E f \in frame : Land(f))
       \/ /\ ~good /\ good'
          /\ known' = {} \/ \E f \in frame : known' = {f}
       \/ ~good' /\ (good => known' = known) /\ known' \subseteq Fingers
    /\ good' /\ ~pending' => known' = frame
    /\ UNCHANGED frame

(* The session ends, and with it the phone's fingers.                      *)
Restart ==
    /\ ~pending /\ ~pending'
    /\ frame' = {} /\ known' = {} /\ good'

StreamNext == Report \/ Tell \/ Restart

StreamSpec == StreamInit /\ [][StreamNext]_streamVars
=============================================================================
