-------------------------- MODULE MCWorkflowEngine --------------------------
(* A workflow of one task that add_task extends, task by task, to a        *)
(* diamond; a fifth task would depend on itself.                           *)
EXTENDS WorkflowEngine, TLC
CONSTANTS e1, a, b, c, d, self
OneExec == {e1}
Tasks == {a, b, c, d, self}
Diamond == (a :> {}) @@ (b :> {a}) @@ (c :> {a}) @@ (d :> {b, c}) @@ (self :> {self})
Single == {a}
AllStrategies == {"FAIL_FAST", "CONTINUE", "RETRY"}
AllModes == {"execute", "start_async", "execute_async"}
=============================================================================
