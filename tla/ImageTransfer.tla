---------------------------- MODULE ImageTransfer ----------------------------
(***************************************************************************)
(* What push and pull promise to their user, with nothing of mirrors,      *)
(* plans, blobs and reports in between: a run moves one image at a time;   *)
(* an image that arrives is the one the source had when the run looked;    *)
(* it arrives at once or not at all, and only what has arrived is          *)
(* reported.  For live storage on both sides.                              *)
(***************************************************************************)
CONSTANTS Refs, Images, None

VARIABLES tags,         \* tags[s][r]: the image that live storage of side s has as r
          shelf,        \* shelf[r]: what the peer's mirror offers to a pull
          moving,       \* the image being moved, or Nothing
          told          \* told[s][r]: the image last reported as brought to s as r

vars == <<tags, shelf, moving, told>>

Sides == {"local", "peer"}
Nothing == [to |-> "nowhere", ref |-> None, image |-> None]

Init == /\ tags \in [Sides -> [Refs -> Images \cup {None}]]
        /\ shelf = [r \in Refs |-> None]
        /\ moving = Nothing
        /\ told = [s \in Sides |-> [r \in Refs |-> None]]

\* A report is history once a later run, or somebody else, is at work on its tag.
Forgets == \A s \in Sides, r \in Refs : told'[s][r] \in {told[s][r], None}

\* A push takes what live storage has, a pull what the mirror of the peer has.
Pick(r) ==
  /\ moving = Nothing
  /\ \/ /\ tags["local"][r] \in Images
        /\ moving' = [to |-> "peer", ref |-> r, image |-> tags["local"][r]]
     \/ /\ shelf[r] \in Images
        /\ moving' = [to |-> "local", ref |-> r, image |-> shelf[r]]
  /\ Forgets
  /\ UNCHANGED <<tags, shelf>>

\* A push leaves its image in the mirror of the peer, whether it arrives or not.
Shelve ==
  /\ moving.to = "peer"
  /\ shelf' = [shelf EXCEPT ![moving.ref] = moving.image]
  /\ moving' \in {moving, Nothing}
  /\ Forgets
  /\ UNCHANGED tags

\* The image is there, and is reported unless the run has not learnt of it.
Arrive ==
  /\ moving # Nothing
  /\ tags' = [tags EXCEPT ![moving.to][moving.ref] = moving.image]
  /\ told' \in {[told EXCEPT ![moving.to][moving.ref] = m] : m \in {moving.image, None}}
  /\ moving' = Nothing
  /\ UNCHANGED shelf

GiveUp ==
  /\ moving # Nothing
  /\ moving' = Nothing
  /\ Forgets
  /\ UNCHANGED <<tags, shelf>>

Forget == Forgets /\ UNCHANGED <<tags, shelf, moving>>

\* The user of the local host builds and removes images at any time.
Change(r, m) ==
  /\ tags' = [tags EXCEPT !["local"][r] = m]
  /\ told' = [told EXCEPT !["local"][r] = None]
  /\ UNCHANGED <<shelf, moving>>

\* The mirror of the peer gets an image from elsewhere.
Offer(r, m) ==
  /\ moving = Nothing
  /\ shelf' = [shelf EXCEPT ![r] = m]
  /\ Forgets
  /\ UNCHANGED <<tags, moving>>

Next == \/ \E r \in Refs : Pick(r)
        \/ Shelve \/ Arrive \/ GiveUp \/ Forget
        \/ \E r \in Refs, m \in Images \cup {None} : Change(r, m)
        \/ \E r \in Refs, m \in Images : Offer(r, m)

Spec == Init /\ [][Next]_vars
=============================================================================
