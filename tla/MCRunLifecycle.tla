--------------------------- MODULE MCRunLifecycle ---------------------------
(* Instances of RunLifecycle: the ideas are model values.                  *)
EXTENDS RunLifecycle

CONSTANTS a, b

============================================================================
