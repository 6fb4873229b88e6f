----------------------------- MODULE MCHAClient -----------------------------
(* HAClient on a small instance.                                             *)
EXTENDS HAClient

AllFaults == {"Fetch", "Dial", "Status", "Auth", "Line"}
(* An event of another type, or of none, whose data could be mistaken.       *)
MCAliens  == {[type |-> "none", data |-> "on"]}

(* What Select selects is what SelectSeq does, on every sequence of up to     *)
(* four elements.                                                            *)
ASSUME SelectIsSelectSeq ==
  \A n \in 0..4 : \A s \in [1..n -> 1..3] : \A T \in SUBSET (1..3) :
    Select(s, T) = SelectSeq(s, LAMBDA e : e \in T)
=============================================================================
