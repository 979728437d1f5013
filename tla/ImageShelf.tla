------------------------------ MODULE ImageShelf ------------------------------
(***************************************************************************)
(* What the catalog of workspace backgrounds promises, with no files, locks *)
(* or half-done operations in it: a shelf of whole images with room for a  *)
(* few, one newcomer at a time, each image put there once.  A window sees  *)
(* the shelf as it was at some moment and may show any image it saw then;  *)
(* the image that is shown is never taken off the shelf.                   *)
(*                                                                         *)
(* The detailed specification, BackgroundCatalog, is shown to implement    *)
(* this one.                                                               *)
(***************************************************************************)
EXTENDS Naturals, FiniteSets

CONSTANTS Images,    \* the images there may be
          MaxItems,  \* the room on the shelf
          NoImage    \* a built-in background

VARIABLES shelf,   \* the images that are whole
          coming,  \* the image on its way to the shelf, at most one
          taken,   \* the images that ever were on their way
          list,    \* the shelf as a window last saw it
          shown    \* the image the workspace shows, or NoImage

vars == <<shelf, coming, taken, list, shown>>

Init == shelf = {} /\ coming = {} /\ taken = {} /\ list = {} /\ shown = NoImage

\* A newcomer has a place kept for it.
Bring(i) ==
    /\ coming = {} /\ i \notin taken
    /\ Cardinality(shelf) < MaxItems
    /\ coming' = {i} /\ taken' = taken \cup {i}
    /\ UNCHANGED <<shelf, list, shown>>

Place(i) ==
    /\ coming = {i}
    /\ shelf' = shelf \cup {i} /\ coming' = {}
    /\ UNCHANGED <<taken, list, shown>>

\* A failure: the shelf is as if the newcomer had never come.
GiveUp ==
    /\ coming' = {}
    /\ UNCHANGED <<shelf, taken, list, shown>>

TakeOff(i) ==
    /\ i \in shelf /\ i # shown
    /\ shelf' = shelf \ {i}
    /\ UNCHANGED <<coming, taken, list, shown>>

Look ==
    /\ list' = shelf
    /\ UNCHANGED <<shelf, coming, taken, shown>>

Choose(b) ==
    /\ shown' = b
    /\ UNCHANGED <<shelf, coming, taken, list>>

\* The shelf and the choice outlive the program.
Restart ==
    /\ coming' = {} /\ list' = {}
    /\ UNCHANGED <<shelf, taken, shown>>

Next ==
    \/ \E i \in Images : Bring(i) \/ Place(i) \/ TakeOff(i)
    \/ \E b \in list \cup {NoImage} : Choose(b)
    \/ GiveUp \/ Look \/ Restart

Spec == Init /\ [][Next]_vars
=============================================================================
