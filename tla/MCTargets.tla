------------------------------ MODULE MCTargets -----------------------------
(***************************************************************************)
(* The instance of Targets that TLC checks: one target of the default and  *)
(* two others may come and go, all three with fstlog, one of them a copy   *)
(* of an adapter whose name only contains the word; the choices are a      *)
(* target that is always there, one that may be missing, "all", "all" as   *)
(* one of two, none.                                                       *)
(***************************************************************************)
EXTENDS Targets

MCMovable == {"fstlog-tloc", "fstlog-mt", "my-fstlog"}

MCTracked == DefaultTargets \ MCMovable

MCChoices == {{"noop"}, {"noop", "fstlog-mt"}, All, {"all", "noop"}, {}}

=============================================================================
