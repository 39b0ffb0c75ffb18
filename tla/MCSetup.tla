------------------------------- MODULE MCSetup -------------------------------
(* Instances of Setup for TLC. *)
EXTENDS Setup

At(installed, found) == [disk |-> installed, custom |-> found]

NothingOrAll == {At({}, {}), At({"tool", "whisper"}, {}), At(Jobs, {}),
                 At({"whisper", "model"}, {"tool"})}
OneElsewhere == {"whisper"}

Bounded == calm /\ Len(pending) <= 2 /\ Len(streams) <= 2
=============================================================================
