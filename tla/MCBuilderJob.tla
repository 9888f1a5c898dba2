----------------------------- MODULE MCBuilderJob -----------------------------
(* Small instances of BuilderJob for TLC: the stacks of env_detector.rs. *)
EXTENDS BuilderJob, TLC

Stack(target, build, test, verify) ==
  [target |-> target, build |-> build, test |-> test, verify |-> verify]

Rust == Stack(TRUE, {}, "own", "crate")
Override == Stack(TRUE, {"broken", "red"}, "build", "none")
TypeScript == Stack(TRUE, {"broken"}, "all", "own")
Python == Stack(TRUE, {"broken"}, "build", "none")
NoManifest == Stack(FALSE, {}, "build", "none")

AllStacks == {Rust, Override, TypeScript, Python, NoManifest}
VerifiedStacks == {Rust, TypeScript}
==============================================================================
