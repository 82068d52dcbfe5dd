------------------------ MODULE MC_SecondaryDisplay ------------------------
(* Small instances of SecondaryDisplay; the configurations choose the bounds. *)
EXTENDS SecondaryDisplay, FiniteSets, TLC

OpSymmetry == Permutations(Ops)

(* Bounds for a run about requests rather than about the power gate: of the *)
(* tasks beside the calls one at a time is busy, and of that task, the calls *)
(* under way and the events not yet received there are three at most.       *)
Busy == {t \in 1..6 : (t = 1 /\ evTask.pc # "idle") \/ (t = 2 /\ enforcer.pc # "idle")
                      \/ (t = 3 /\ momentB # "idle") \/ (t = 4 /\ regTask # "idle")
                      \/ (t = 5 /\ (dockLoop # "idle" \/ dockEvents # <<>> \/ spawned > 0))
                      \/ (t = 6 /\ delayed > 0)}
Calls == {o \in Ops : op[o].pc # "idle"}
ThreeUnderWay ==
    /\ Cardinality(Busy) <= 1
    /\ Cardinality(Busy) + Cardinality(Calls) + Len(events) <= 3
=============================================================================
