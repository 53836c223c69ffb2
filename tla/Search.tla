------------------------------- MODULE Search -------------------------------
(***************************************************************************)
(* What a search for the objects of a class promises (src/src/service.rs,  *)
(* Found).  It lasts many ticks and the objects come and go meanwhile, so  *)
(* its answer is not the set of objects of any one moment.  It takes an    *)
(* object only when it is there, refuses one only when it cannot be seen,  *)
(* and an empty answer that is called conclusive has left none behind that *)
(* it did not refuse.                                                      *)
(***************************************************************************)
CONSTANT Object

VARIABLES
  there,       \* the objects of the class
  visible,     \* those of them that can be read
  lasting,     \* history: there ever since the search began
  searching,
  answer,      \* Found.instances
  refused,     \* candidates that did not validate
  conclusive   \* Found.conclusive

vars == <<there, visible, lasting, searching, answer, refused, conclusive>>
asked == <<searching, answer, refused, conclusive>>

Init ==
  /\ there \in SUBSET Object /\ visible \in SUBSET there
  /\ lasting = {} /\ searching = FALSE
  /\ answer = {} /\ refused = {} /\ conclusive = FALSE

\* Objects are built and collected, and their memory can be read or not.
Change ==
  /\ there' \in SUBSET Object /\ visible' \in SUBSET there'
  /\ lasting' = lasting \cap there'
  /\ UNCHANGED asked

Ask ==
  /\ ~searching
  /\ searching' = TRUE
  /\ lasting' = there
  /\ answer' = {} /\ refused' = {} /\ conclusive' = FALSE
  /\ UNCHANGED <<there, visible>>

Take ==
  /\ searching
  /\ \E x \in visible : answer' = answer \cup {x}
  /\ UNCHANGED <<there, visible, lasting, searching, refused, conclusive>>

Refuse ==
  /\ searching
  /\ \E x \in Object \ visible : refused' = refused \cup {x}
  /\ UNCHANGED <<there, visible, lasting, searching, answer, conclusive>>

Answer ==
  /\ searching
  /\ searching' = FALSE
  /\ conclusive' \in BOOLEAN
  /\ conclusive' /\ answer = {} => lasting \subseteq refused
  /\ UNCHANGED <<there, visible, lasting, answer, refused>>

Next == Change \/ Ask \/ Take \/ Refuse \/ Answer

Spec == Init /\ [][Next]_vars
=============================================================================
